---------------------------- MODULE BusTapProofs ----------------------------
(***************************************************************************)
(* What the whole system guarantees: firmware, network and Receiver, for    *)
(* every size and every bound.  The network's freedom is a hypothesis only  *)
(* where the code depends on it.                                            *)
(***************************************************************************)
EXTENDS BusTap, AdcStreamClock

(* The Receiver's protocol is the firmware's. *)
LEMMA SameProtocol ==
  /\ Host!Channels = Channels /\ Host!Word = Word /\ Host!NONE = -1
  /\ Host!MaybeNat = Nat \cup {-1}
  /\ \A n : Host!Wrap(n) = Wrap(n)
  /\ \A words, c : Host!split_words(words, c) = split_words(words, c)
<1>1. Host!Channels = Channels
  BY DEF Host!Channels, Channels
<1>2. Host!Word = Word
  BY <1>1 DEF Host!Word, Word, Host!Config, Config
<1>3. Host!NONE = -1 /\ Host!MaybeNat = Nat \cup {-1}
  BY DEF Host!NONE, Host!MaybeNat
<1>4. \A n : Host!Wrap(n) = Wrap(n)
  BY DEF Host!Wrap, Wrap
<1>5. \A words, c : Host!split_words(words, c) = split_words(words, c)
  BY DEF Host!split_words, split_words
<1> QED BY <1>1, <1>2, <1>3, <1>4, <1>5

(* Seen from the firmware, the system is the firmware. *)
LEMMA BusRefinesFirmware == BusSpec => Spec
<1>1. BusInit => Init
  BY DEF BusInit
<1>2. [BusNext]_busVars => [Next]_vars
  BY DEF BusNext, busVars, Deliver, DrainBlock
<1> QED BY <1>1, <1>2, PTL DEF BusSpec, Spec

(* What arrives is a datagram. *)
LEMMA WireType ==
  ASSUME TypeOK, NEW i \in DOMAIN wire
  PROVE  /\ wire[i] \in Datagram(Hosts \cup {NoHost})
         /\ wire[i].type \in {"SAMPLES", "INFO"} /\ wire[i].seq \in Nat
         /\ wire[i].epoch \in Nat /\ wire[i].first_index \in Nat
         /\ wire[i].rate_hz \in Nat /\ wire[i].n_channels \in Nat
         /\ wire[i].overflow_count \in Nat /\ wire[i].words \in Seq(Word)
         /\ Len(wire[i].words) \in Nat
<1>1. wire[i] \in Datagram(Hosts \cup {NoHost})
  BY DEF TypeOK
<1> QED BY <1>1 DEF Datagram

(* A uint32 is a number, of whatever integer it is made. *)
LEMMA WrapInt ==
  ASSUME NEW n \in Int
  PROVE  Wrap(n) \in Nat
BY W32Assumption DEF Wrap

-----------------------------------------------------------------------------
(* The Receiver's types.                                                    *)

(* The words of a channel are a list of words. *)
LEMMA SplitType ==
  ASSUME NEW words \in Seq(Word), NEW c
  PROVE  split_words(words, c) \in Seq(Word)
BY SplitPicks DEF Picks

(* What was skipped is counted in natural numbers.                          *)
LEMMA SkippedNat ==
  ASSUME HostTypeOK, NEW seq \in Nat
  PROVE  Host!Skipped(seq) \in Nat
<1>1. next_seq \in Nat \cup {-1}
  BY SameProtocol DEF HostTypeOK, Host!TypeOK
<1>2. next_seq # -1 => Wrap(seq - next_seq) \in Nat
  BY <1>1, WrapInt
<1> QED BY <1>1, <1>2, SameProtocol DEF Host!Skipped

(* Marks are positions.                                                     *)
LEMMA MarkType ==
  ASSUME HostTypeOK
  PROVE  Host!mark_gap(gaps) \in [Channels -> Seq(Nat)]
<1>1. gaps \in [Channels -> Seq(Nat)] /\ total \in [Channels -> Nat]
  BY SameProtocol DEF HostTypeOK, Host!TypeOK
<1>2. \A c \in Channels : Append(gaps[c], total[c]) \in Seq(Nat)
  BY <1>1
<1> QED BY <1>1, <1>2, SameProtocol DEF Host!mark_gap

(* An INFO datagram keeps the Receiver's types,                             *)
LEMMA HandleInfoType ==
  ASSUME TypeOK, HostTypeOK, NEW i \in DOMAIN wire, Host!HandleInfo(wire[i])
  PROVE  HostTypeOK'
<1> DEFINE d == wire[i]
<1>1. d.seq \in Nat /\ d.rate_hz \in Nat /\ d.epoch \in Nat
  BY WireType
<1>2. Wrap(d.seq + 1) \in Nat /\ Host!Skipped(d.seq) \in Nat
  BY <1>1, WrapInt, SkippedNat
<1>3. stats' \in [packets : Nat, samples : Nat, datagrams_lost : Nat,
                  sample_gaps : Nat, overflows : Nat, epoch_changes : Nat]
  <2> DEFINE lost == Host!Skipped(d.seq)
  <2>1. stats \in [packets : Nat, samples : Nat, datagrams_lost : Nat,
                   sample_gaps : Nat, overflows : Nat, epoch_changes : Nat]
    BY DEF HostTypeOK, Host!TypeOK
  <2>2. stats' = [stats EXCEPT !.datagrams_lost = @ + lost]
    BY DEF Host!HandleInfo
  <2>3. lost \in Nat
    BY <1>2
  <2> HIDE DEF lost
  <2> QED BY <2>1, <2>2, <2>3
<1>4. next_seq' \in Host!MaybeNat /\ esp_info' \in [rate : Nat, epoch : Nat]
  BY <1>1, <1>2, SameProtocol DEF Host!HandleInfo
<1>5. UNCHANGED <<rate_hz, n_channels, epoch, next_index, last_ovf, chunks,
                  total, gaps, epoch_changed, drained, drained_gaps>>
  BY DEF Host!HandleInfo
<1> QED BY <1>3, <1>4, <1>5 DEF HostTypeOK, Host!TypeOK, Host!Stream

(* a SAMPLES datagram does, and every total stays the length of its stream, *)
LEMMA HandleSamplesType ==
  ASSUME TypeOK, HostTypeOK, NEW i \in DOMAIN wire, Host!HandleSamples(wire[i])
  PROVE  HostTypeOK'
<1> DEFINE d == wire[i]
<1>1. /\ d.seq \in Nat /\ d.rate_hz \in Nat /\ d.epoch \in Nat
      /\ d.n_channels \in Nat /\ d.first_index \in Nat
      /\ d.overflow_count \in Nat /\ d.words \in Seq(Word)
      /\ Len(d.words) \in Nat
  BY WireType
<1>2. /\ stats \in [packets : Nat, samples : Nat, datagrams_lost : Nat,
                    sample_gaps : Nat, overflows : Nat, epoch_changes : Nat]
      /\ last_ovf \in Nat \cup {-1}
      /\ rate_hz \in Nat \cup {-1} /\ n_channels \in Nat \cup {-1}
      /\ epoch \in Nat \cup {-1}
      /\ next_index \in Nat \cup {-1} /\ chunks \in [Channels -> Seq(Word)]
      /\ total \in [Channels -> Nat] /\ gaps \in [Channels -> Seq(Nat)]
      /\ epoch_changed \in BOOLEAN /\ drained \in [Channels -> Seq(Word)]
      /\ drained_gaps \in [Channels -> SUBSET Nat]
      /\ esp_info \in [rate : Nat, epoch : Nat]
      /\ \A c \in Channels : total[c] = Len(drained[c] \o chunks[c])
  BY SameProtocol DEF HostTypeOK, Host!TypeOK, Host!Stream
<1> HIDE DEF d
<1>3. /\ Host!HandleSamples(d) /\ Wrap(d.seq + 1) \in Nat
      /\ Host!Skipped(d.seq) \in Nat
      /\ (last_ovf # -1 => Wrap(d.overflow_count - last_ovf) \in Nat)
  <2>1. Host!HandleSamples(d)
    BY DEF d
  <2>2. d.seq + 1 \in Int /\ Host!Skipped(d.seq) \in Nat
    <3>1. d.seq + 1 \in Int
      BY <1>1
    <3>2. \A seq \in Nat : Host!Skipped(seq) \in Nat
      BY SkippedNat
    <3> QED BY <1>1, <3>1, <3>2
  <2>3. last_ovf # -1 => d.overflow_count - last_ovf \in Int
    BY <1>1, <1>2
  <2> QED BY <2>1, <2>2, <2>3, WrapInt
<1>4. next_seq' \in Nat /\ last_ovf' \in Nat /\ epoch_changed' \in BOOLEAN
  BY <1>1, <1>2, <1>3, SameProtocol DEF Host!HandleSamples, Host!Reopens
<1>5. rate_hz' \in Nat \cup {-1} /\ n_channels' \in Nat \cup {-1}
        /\ epoch' \in Nat \cup {-1}
  BY <1>1, <1>2, <1>3 DEF Host!HandleSamples
<1>6. gaps' \in [Channels -> Seq(Nat)]
  BY <1>2, <1>3, MarkType DEF Host!HandleSamples
<1>7. stats' \in [packets : Nat, samples : Nat, datagrams_lost : Nat,
                  sample_gaps : Nat, overflows : Nat, epoch_changes : Nat]
  <2> DEFINE lost == Host!Skipped(d.seq)
             ovf == IF Host!Overflowed(d) THEN Wrap(d.overflow_count - last_ovf)
                    ELSE 0
             n == Len(d.words)
             one == IF Host!Stale(d) THEN 0 ELSE 1
             more == IF Host!Stale(d) THEN 0 ELSE n
             gap == IF Host!Jumps(d) THEN 1 ELSE 0
             new == IF Host!Reopens(d) THEN 1 ELSE 0
  <2>1. lost \in Nat /\ ovf \in Nat
    BY <1>1, <1>3, SameProtocol DEF Host!Overflowed
  <2>2. one \in Nat /\ more \in Nat /\ gap \in Nat /\ new \in Nat
    BY <1>1
  <2>3. stats' = [packets        |-> stats.packets + one,
                  samples        |-> stats.samples + more,
                  datagrams_lost |-> stats.datagrams_lost + lost,
                  sample_gaps    |-> stats.sample_gaps + gap,
                  overflows      |-> stats.overflows + ovf,
                  epoch_changes  |-> stats.epoch_changes + new]
    BY <1>3, SameProtocol DEF Host!HandleSamples
  <2> HIDE DEF lost, ovf, one, more, gap, new
  <2>4. /\ stats.packets \in Nat /\ stats.samples \in Nat
        /\ stats.datagrams_lost \in Nat /\ stats.sample_gaps \in Nat
        /\ stats.overflows \in Nat /\ stats.epoch_changes \in Nat
    BY <1>2
  <2> QED BY <2>1, <2>2, <2>3, <2>4
<1>8. /\ next_index' \in Nat \cup {-1}
      /\ chunks' \in [Channels -> Seq(Word)] /\ total' \in [Channels -> Nat]
      /\ \A c \in Channels : total'[c] = Len(drained'[c] \o chunks'[c])
  <2>1. drained' = drained
    BY <1>3 DEF Host!HandleSamples
  <2>2. CASE Host!Stale(d)
    BY <1>2, <1>3, <2>1, <2>2 DEF Host!HandleSamples
  <2>3. CASE ~Host!Stale(d)
    <3>1. /\ next_index' = d.first_index + Len(d.words)
          /\ chunks' = [c \in Channels |->
                          chunks[c] \o split_words(d.words, c)]
          /\ total' = [c \in Channels |->
                         total[c] + Len(split_words(d.words, c))]
      BY <1>3, <2>3, SameProtocol DEF Host!HandleSamples
    <3>2. \A c \in Channels : split_words(d.words, c) \in Seq(Word)
      BY <1>1, SplitType
    <3>3. ASSUME NEW c \in Channels
          PROVE  /\ chunks'[c] \in Seq(Word) /\ total'[c] \in Nat
                 /\ total'[c] = Len(drained'[c] \o chunks'[c])
      <4> DEFINE s == split_words(d.words, c)
      <4>1. s \in Seq(Word) /\ chunks'[c] = chunks[c] \o s
              /\ total'[c] = total[c] + Len(s)
        BY <3>1, <3>2
      <4> HIDE DEF s
      <4> QED BY <1>2, <2>1, <4>1
    <3>4. next_index' \in Nat
      BY <1>1, <3>1
    <3>5. chunks' \in [Channels -> Seq(Word)] /\ total' \in [Channels -> Nat]
      BY <3>1, <3>3
    <3> QED BY <3>3, <3>4, <3>5
  <2> QED BY <2>2, <2>3
<1>9. UNCHANGED <<esp_info, drained, drained_gaps>>
  BY <1>3 DEF Host!HandleSamples
<1> QED BY <1>2, <1>4, <1>5, <1>6, <1>7, <1>8, <1>9, SameProtocol
        DEF HostTypeOK, Host!TypeOK, Host!Stream

(* and so does drain.                                                       *)
LEMMA DrainType ==
  ASSUME HostTypeOK, Host!Drain
  PROVE  HostTypeOK'
<1>1. /\ total \in [Channels -> Nat] /\ gaps \in [Channels -> Seq(Nat)]
      /\ chunks \in [Channels -> Seq(Word)]
      /\ drained \in [Channels -> Seq(Word)]
      /\ drained_gaps \in [Channels -> SUBSET Nat]
      /\ \A c \in Channels : total[c] = Len(drained[c] \o chunks[c])
  BY SameProtocol DEF HostTypeOK, Host!TypeOK, Host!Stream
<1>2. /\ drained' = [c \in Channels |-> drained[c] \o chunks[c]]
      /\ drained_gaps' = [c \in Channels |->
                            drained_gaps[c] \cup ToSet(gaps[c])]
      /\ chunks' = [c \in Channels |-> <<>>]
      /\ gaps' = [c \in Channels |-> <<>>]
      /\ epoch_changed' = FALSE
      /\ UNCHANGED <<esp_info, stats, rate_hz, n_channels, epoch, next_seq,
                     next_index, last_ovf, total>>
  BY SameProtocol DEF Host!Drain, Host!Block, Host!ToSet, ToSet
<1>3. <<>> \in Seq(Word) /\ <<>> \in Seq(Nat)
  OBVIOUS
<1>4. \A c \in Channels : ToSet(gaps[c]) \subseteq Nat
  BY <1>1 DEF ToSet
<1>5. ASSUME NEW c \in Channels
      PROVE  /\ drained'[c] \in Seq(Word)
             /\ total'[c] = Len(drained'[c] \o chunks'[c])
  <2> DEFINE s == drained[c] \o chunks[c]
  <2>1. s \in Seq(Word) /\ total'[c] = Len(s)
    BY <1>1, <1>2
  <2>2. drained'[c] = s /\ chunks'[c] = <<>>
    BY <1>2
  <2> HIDE DEF s
  <2> QED BY <2>1, <2>2
<1>6. /\ drained' \in [Channels -> Seq(Word)]
      /\ drained_gaps' \in [Channels -> SUBSET Nat]
      /\ chunks' \in [Channels -> Seq(Word)]
      /\ gaps' \in [Channels -> Seq(Nat)]
  BY <1>1, <1>2, <1>3, <1>4, <1>5
<1> QED BY <1>2, <1>5, <1>6, SameProtocol DEF HostTypeOK, Host!TypeOK,
           Host!Stream

(* One of the two halves of _handle. *)
LEMMA DeliverCases ==
  ASSUME NEW i \in DOMAIN wire, Deliver(i)
  PROVE  \/ IsSamples(wire[i]) /\ Host!HandleSamples(wire[i])
         \/ ~IsSamples(wire[i]) /\ Host!HandleInfo(wire[i])
BY DEF Deliver, Host!Handle, Host!HandleInfo, Host!HandleSamples, IsSamples

(* The Receiver's variables keep their types, and the dictionaries agree:   *)
(* _total, the position gaps and start are measured with, is the number of  *)
(* words of the channel handed out or waiting (record.py:117-136).          *)
THEOREM ReceiverTypeCorrect == BusSpec => []HostTypeOK
<1>1. BusInit => HostTypeOK
  <2> SUFFICES ASSUME BusInit PROVE HostTypeOK
    OBVIOUS
  <2>1. Host!Init
    BY DEF BusInit
  <2>2. <<>> \in Seq(Word) /\ <<>> \in Seq(Nat) /\ Len(<<>> \o <<>>) = 0
    OBVIOUS
  <2> QED BY <2>1, <2>2, SameProtocol
          DEF Host!Init, HostTypeOK, Host!TypeOK, Host!NoInfo, Host!Stream
<1>2. TypeOK /\ HostTypeOK /\ [BusNext]_busVars => HostTypeOK'
  <2> SUFFICES ASSUME TypeOK, HostTypeOK, [BusNext]_busVars
               PROVE  HostTypeOK'
    OBVIOUS
  <2>1. CASE UNCHANGED hostVars
    BY <2>1 DEF hostVars, HostTypeOK, Host!TypeOK, Host!Stream
  <2>2. ASSUME NEW i \in DOMAIN wire, Deliver(i) PROVE HostTypeOK'
    BY <2>2, DeliverCases, HandleInfoType, HandleSamplesType
  <2>3. CASE DrainBlock
    BY <2>3, DrainType DEF DrainBlock
  <2> QED BY <2>1, <2>2, <2>3 DEF BusNext, busVars
<1> QED BY <1>1, <1>2, BusRefinesFirmware, TypeCorrect, PTL DEF BusSpec

-----------------------------------------------------------------------------
(* Counting modulo 2^32.                                                    *)

(* Wrap takes a whole number of turns off. *)
LEMMA WrapTurns ==
  ASSUME NEW n \in Int
  PROVE  \E q \in Int : Wrap(n) = n + q * W32
<1>1. W32 \in Nat /\ W32 > 0
  BY W32Assumption
<1>2. (n \div W32) \in Int /\ n = W32 * (n \div W32) + (n % W32)
  BY <1>1
<1>3. -(n \div W32) \in Int /\ n % W32 = n + (-(n \div W32)) * W32
  BY <1>1, <1>2
<1> QED BY <1>3 DEF Wrap

(* Two numbers less than a turn, some turns apart, are one. *)
LEMMA NoTurn ==
  ASSUME NEW a \in Int, NEW b \in Int, NEW k \in Int, a = b + k * W32,
         0 <= a, a < W32, 0 <= b, b < W32
  PROVE  a = b
<1>1. W32 \in Nat /\ W32 > 0
  BY W32Assumption
<1>2. CASE k = 0
  BY <1>1, <1>2
<1>3. CASE k >= 1
  <2>1. k - 1 \in Nat /\ k * W32 = (k - 1) * W32 + W32
    BY <1>1, <1>3
  <2>2. (k - 1) * W32 >= 0
    BY <1>1, <2>1
  <2>3. (k - 1) * W32 \in Int
    BY <1>1, <2>1
  <2> QED BY <1>1, <2>1, <2>2, <2>3
<1>4. CASE k <= -1
  <2>1. -k - 1 \in Nat /\ k * W32 = -((-k - 1) * W32) - W32
    BY <1>1, <1>4
  <2>2. (-k - 1) * W32 >= 0
    BY <1>1, <2>1
  <2>3. (-k - 1) * W32 \in Int
    BY <1>1, <2>1
  <2> QED BY <1>1, <2>1, <2>2, <2>3
<1> QED BY <1>2, <1>3, <1>4

(* Numbers some turns apart wrap to the same. *)
LEMMA WrapSame ==
  ASSUME NEW a \in Int, NEW b \in Int, NEW k \in Int, a = b + k * W32
  PROVE  Wrap(a) = Wrap(b)
<1>1. W32 \in Nat /\ W32 > 0
  BY W32Assumption
<1>2. PICK p \in Int : Wrap(a) = a + p * W32
  BY WrapTurns
<1>3. PICK q \in Int : Wrap(b) = b + q * W32
  BY WrapTurns
<1>4. /\ 0 <= Wrap(a) /\ Wrap(a) < W32 /\ Wrap(a) \in Int
      /\ 0 <= Wrap(b) /\ Wrap(b) < W32 /\ Wrap(b) \in Int
  BY <1>1 DEF Wrap
<1>5. /\ (k + p - q) * W32 = k * W32 + p * W32 - q * W32
      /\ k + p - q \in Int /\ k * W32 \in Int /\ p * W32 \in Int
      /\ q * W32 \in Int
  BY <1>1
<1>6. Wrap(a) = Wrap(b) + (k + p - q) * W32
  BY <1>2, <1>3, <1>4, <1>5
<1> QED BY <1>4, <1>5, <1>6, NoTurn

(* What was delivered is on the wire. *)
DeliveredInv ==
  /\ delivered \in Seq(Nat)
  /\ \A k \in DOMAIN delivered : delivered[k] \in DOMAIN wire

(* The wire only grows, so what was delivered stays on it.                  *)
LEMMA DeliveredStep ==
  ASSUME WireInv, DeliveredInv, [BusNext]_busVars
  PROVE  DeliveredInv'
<1>1. wire \in Seq(Datagram(Hosts \cup {NoHost})) /\ DOMAIN wire \subseteq Nat
  BY DEF WireInv, TypeOK
<1>2. CASE [Next]_vars /\ UNCHANGED delivered
  BY <1>2, WireStep DEF DeliveredInv, WireInv, OrderInv
<1>3. ASSUME NEW i \in DOMAIN wire, Deliver(i) PROVE DeliveredInv'
  <2>1. delivered' = Append(delivered, i) /\ wire' = wire /\ i \in Nat
    BY <1>1, <1>3 DEF Deliver, vars
  <2> QED BY <2>1 DEF DeliveredInv
<1>4. CASE DrainBlock
  BY <1>2, <1>4 DEF DrainBlock
<1> QED BY <1>2, <1>3, <1>4 DEF BusNext, busVars

(* Before the first datagram nothing is expected and nothing lost.          *)
LostInv ==
  /\ delivered = <<>> => next_seq = -1 /\ stats.datagrams_lost = 0
  /\ delivered # <<>> => next_seq \in Nat
  /\ LostAddsUp

(* Every datagram adds to the sum what its number adds to the span,         *)
(* whatever order they come in, modulo 2^32.                                *)
LEMMA LostStep ==
  ASSUME WireInv, HostTypeOK, DeliveredInv, LostInv, [BusNext]_busVars
  PROVE  LostInv'
<1>1. CASE [Next]_vars /\ UNCHANGED <<delivered, next_seq, stats>>
  <2>1. delivered # <<>> => delivered[1] \in DOMAIN wire
    BY DEF DeliveredInv
  <2>2. delivered # <<>> => wire'[delivered[1]] = wire[delivered[1]]
    BY <1>1, <2>1, WireStep DEF WireInv, OrderInv
  <2> QED BY <1>1, <2>2 DEF LostInv, LostAddsUp, Wrap
<1>2. ASSUME NEW i \in DOMAIN wire, Deliver(i) PROVE LostInv'
  <2> DEFINE d == wire[i]
             a == stats.datagrams_lost
             L == Len(delivered)
             first == IF delivered = <<>> THEN d.seq
                      ELSE wire[delivered[1]].seq
             skip == Host!Skipped(d.seq)
  <2>1. delivered' = Append(delivered, i) /\ wire' = wire
    BY <1>2 DEF Deliver, vars
  <2>2. delivered' # <<>> /\ wire'[delivered'[1]].seq = first
          /\ Len(delivered') = L + 1 /\ L \in Nat
    BY <2>1 DEF DeliveredInv
  <2>3. d.seq \in Nat /\ first \in Nat
    <3>1. delivered # <<>> => delivered[1] \in DOMAIN wire
      BY DEF DeliveredInv
    <3> QED BY <3>1, WireType DEF WireInv
  <2>4. next_seq' = Wrap(d.seq + 1) /\ stats'.datagrams_lost = a + skip
    <3>1. stats \in [packets : Nat, samples : Nat, datagrams_lost : Nat,
                     sample_gaps : Nat, overflows : Nat, epoch_changes : Nat]
      BY DEF HostTypeOK, Host!TypeOK
    <3>2. CASE Host!HandleInfo(d)
      BY <3>1, <3>2, SameProtocol DEF Host!HandleInfo
    <3>3. CASE Host!HandleSamples(d)
      BY <3>3, SameProtocol DEF Host!HandleSamples
    <3> QED BY <1>2, <3>2, <3>3, DeliverCases
  <2>5. a \in Nat /\ skip \in Nat
    <3>1. \A seq \in Nat : Host!Skipped(seq) \in Nat
      BY SkippedNat
    <3>2. a \in Nat
      BY DEF HostTypeOK, Host!TypeOK
    <3> QED BY <2>3, <3>1, <3>2
  <2>6. W32 \in Nat /\ W32 > 0
    BY W32Assumption
  <2>7. PICK r \in Int : next_seq' = d.seq + 1 + r * W32
    BY <2>3, <2>4, WrapTurns
  <2>8. next_seq' \in Nat /\ r * W32 \in Int
    <3>1. d.seq + 1 \in Int
      BY <2>3
    <3> QED BY <2>4, <2>6, <3>1, WrapInt
  <2>9. \E k \in Int : a + skip + (L + 1) = (next_seq' - first) + k * W32
    <3>1. CASE delivered = <<>>
      <4>1. a = 0 /\ L = 0 /\ first = d.seq /\ next_seq = -1
        BY <3>1 DEF LostInv
      <4>2. skip = 0
        BY <4>1, SameProtocol DEF Host!Skipped
      <4> HIDE DEF a, skip, L, first
      <4>3. -r \in Int /\ (-r) * W32 = -(r * W32)
        BY <2>6
      <4>4. a + skip + (L + 1) = (next_seq' - first) + (-r) * W32
        BY <2>3, <2>7, <2>8, <4>1, <4>2, <4>3
      <4> QED BY <4>3, <4>4
    <3>2. CASE delivered # <<>>
      <4>1. next_seq \in Nat /\ Wrap(a + L) = Wrap(next_seq - first)
        BY <3>2 DEF LostInv, LostAddsUp
      <4>2. \E q \in Int : skip = d.seq - next_seq + q * W32
        <5>1. CASE d.seq = next_seq
          <6>1. skip = 0
            BY <4>1, <5>1, SameProtocol DEF Host!Skipped
          <6>2. d.seq - next_seq = 0 /\ 0 * W32 = 0 /\ 0 \in Int
            BY <2>3, <2>6, <5>1
          <6> QED BY <6>1, <6>2
        <5>2. CASE d.seq # next_seq
          <6>1. skip = Wrap(d.seq - next_seq) /\ d.seq - next_seq \in Int
            BY <2>3, <4>1, <5>2, SameProtocol DEF Host!Skipped
          <6> QED BY <6>1, WrapTurns
        <5> QED BY <5>1, <5>2
      <4> HIDE DEF a, skip, L, first
      <4>3. PICK q \in Int : skip = d.seq - next_seq + q * W32
        BY <4>2
      <4>4. a + L \in Int /\ next_seq - first \in Int
        BY <2>2, <2>3, <2>5, <4>1
      <4>5. PICK x \in Int : Wrap(a + L) = a + L + x * W32
        BY <4>4, WrapTurns
      <4>6. PICK y \in Int :
              Wrap(next_seq - first) = next_seq - first + y * W32
        BY <4>4, WrapTurns
      <4>7. /\ (y - x + q - r) * W32
                 = y * W32 - x * W32 + q * W32 - r * W32
            /\ y - x + q - r \in Int
            /\ x * W32 \in Int /\ y * W32 \in Int /\ q * W32 \in Int
        BY <2>6
      <4>8. a + skip + (L + 1) = (next_seq' - first) + (y - x + q - r) * W32
        <5> DEFINE X == x * W32
                   Y == y * W32
                   Q == q * W32
                   R == r * W32
                   T == (y - x + q - r) * W32
        <5>1. T = Y - X + Q - R
                /\ X \in Int /\ Y \in Int /\ Q \in Int /\ R \in Int
          BY <2>8, <4>7
        <5>2. a + L + X = next_seq - first + Y /\ skip = d.seq - next_seq + Q
                /\ next_seq' = d.seq + 1 + R
          BY <2>7, <4>1, <4>3, <4>5, <4>6
        <5> HIDE DEF X, Y, Q, R, T
        <5>3. /\ a \in Int /\ L \in Int /\ skip \in Int /\ first \in Int
              /\ next_seq \in Int /\ next_seq' \in Int /\ d.seq \in Int
          BY <2>2, <2>3, <2>5, <2>8, <4>1
        <5>4. a + L = next_seq - first + Y - X
          BY <5>1, <5>2, <5>3
        <5>5. a + skip + (L + 1) = (next_seq' - first) + (Y - X + Q - R)
          <6> DEFINE u == a + L
          <6>1. u \in Int /\ a + skip + (L + 1) = u + skip + 1
            BY <5>3
          <6>2. u = next_seq - first + Y - X
            BY <5>4
          <6> HIDE DEF u
          <6>3. u + skip + 1 = (next_seq' - first) + (Y - X + Q - R)
            BY <5>1, <5>2, <5>3, <6>1, <6>2
          <6> QED BY <6>1, <6>3
        <5>6. a + skip + (L + 1) = (next_seq' - first) + T
          BY <5>1, <5>5
        <5> QED BY <5>6 DEF T
      <4> QED BY <4>7, <4>8
    <3> QED BY <3>1, <3>2
  <2> HIDE DEF a, skip, L, first
  <2>10. a + skip + (L + 1) \in Int /\ next_seq' - first \in Int
    BY <2>2, <2>3, <2>5, <2>8
  <2>11. Wrap(a + skip + (L + 1)) = Wrap(next_seq' - first)
    BY <2>9, <2>10, WrapSame
  <2>12. LostAddsUp'
    BY <2>2, <2>4, <2>11 DEF LostAddsUp, Wrap
  <2> QED BY <2>2, <2>8, <2>12 DEF LostInv
<1>3. CASE DrainBlock
  BY <1>1, <1>3 DEF DrainBlock, Host!Drain
<1>4. CASE UNCHANGED busVars
  BY <1>1, <1>4 DEF busVars, hostVars
<1> QED BY <1>1, <1>2, <1>3, <1>4 DEF BusNext, hostVars

(* Lost and received numbers add up to the span of the numbers seen, modulo *)
(* 2^32, over whatever the network does and whichever of the ESP's tasks    *)
(* numbered the datagrams (record.py:99-105).                               *)
THEOREM LostNumbersAddUp == BusSpec => []LostAddsUp
<1>1. BusInit => DeliveredInv /\ LostInv
  BY SameProtocol
     DEF BusInit, DeliveredInv, LostInv, LostAddsUp, Host!Init
<1>2. WireInv /\ HostTypeOK /\ DeliveredInv /\ LostInv /\ [BusNext]_busVars
        => DeliveredInv' /\ LostInv'
  BY DeliveredStep, LostStep
<1>3. LostInv => LostAddsUp
  BY DEF LostInv
<1> QED BY <1>1, <1>2, <1>3, BusRefinesFirmware, WireAlways,
           ReceiverTypeCorrect, PTL DEF BusSpec

-----------------------------------------------------------------------------
(* One SAMPLES datagram.                                                    *)

(* Of a packet in order, split_words takes every word of the channel, in    *)
(* order.                                                                   *)
LEMMA SplitFacts ==
  ASSUME NEW words \in Seq(Word), NEW c
  PROVE  LET s == split_words(words, c) IN
         /\ s \in Seq(Word)
         /\ \A j \in DOMAIN s : s[j].ch = c
              /\ \E m \in DOMAIN words : s[j] = words[m]
         /\ \A m \in DOMAIN words : words[m].ch = c =>
              \E j \in DOMAIN s : s[j] = words[m]
         /\ Rising(words) => Rising(s)
<1> DEFINE s == split_words(words, c)
<1>1. PICK pos : Picks(words, c, Len(words), s, pos)
  BY SplitPicks
<1> HIDE DEF s
<1>2. /\ s \in Seq(Word) /\ DOMAIN s = 1..Len(s) /\ DOMAIN words = 1..Len(words)
      /\ pos \in [1..Len(s) -> 1..Len(words)]
      /\ \A j \in 1..Len(s) : s[j] = words[pos[j]] /\ s[j].ch = c
      /\ \A i, j \in 1..Len(s) : i < j => pos[i] < pos[j]
      /\ \A m \in 1..Len(words) : words[m].ch = c =>
           \E j \in 1..Len(s) : pos[j] = m
  BY <1>1 DEF Picks
<1>3. Rising(words) => Rising(s)
  BY <1>2 DEF Rising
<1>4. \A j \in DOMAIN s : s[j].ch = c /\ \E m \in DOMAIN words : s[j] = words[m]
  BY <1>2
<1>5. \A m \in DOMAIN words : words[m].ch = c =>
        \E j \in DOMAIN s : s[j] = words[m]
  BY <1>2, SMTT(30)
<1> QED BY <1>2, <1>3, <1>4, <1>5 DEF s

(* A mark on every channel heard: the number of its words so far.           *)
LEMMA MarkSet ==
  ASSUME HostTypeOK, NEW c \in Channels
  PROVE  ToSet(Host!mark_gap(gaps)[c]) =
           IF Host!Stream(c) = <<>> THEN ToSet(gaps[c])
           ELSE ToSet(gaps[c]) \cup {Len(Host!Stream(c))}
<1>1. /\ gaps[c] \in Seq(Nat) /\ total[c] \in Nat
      /\ total[c] = Len(Host!Stream(c)) /\ Host!Stream(c) \in Seq(Word)
  BY SameProtocol DEF HostTypeOK, Host!TypeOK, Host!Stream
<1>2. total[c] = 0 <=> Host!Stream(c) = <<>>
  BY <1>1
<1>3. Host!mark_gap(gaps)[c] =
        IF total[c] # 0 /\ (gaps[c] = <<>> \/ Host!Last(gaps[c]) # total[c])
        THEN Append(gaps[c], total[c]) ELSE gaps[c]
  BY SameProtocol DEF Host!mark_gap
<1>4. ToSet(Append(gaps[c], total[c])) = ToSet(gaps[c]) \cup {total[c]}
  <2> DEFINE g == gaps[c]
             t == total[c]
  <2>1. g \in Seq(Nat) /\ t \in Nat
    BY <1>1
  <2> HIDE DEF g, t
  <2>2. \A j \in DOMAIN Append(g, t) :
          \/ j \in DOMAIN g /\ Append(g, t)[j] = g[j]
          \/ Append(g, t)[j] = t
    BY <2>1
  <2>3. \A j \in DOMAIN g : j \in DOMAIN Append(g, t) /\ Append(g, t)[j] = g[j]
    BY <2>1
  <2>4. Len(g) + 1 \in DOMAIN Append(g, t) /\ Append(g, t)[Len(g) + 1] = t
    BY <2>1
  <2>5. ToSet(Append(g, t)) = ToSet(g) \cup {t}
    BY <2>2, <2>3, <2>4 DEF ToSet
  <2> QED BY <2>5 DEF g, t
<1>5. gaps[c] # <<>> /\ Host!Last(gaps[c]) = total[c] =>
        total[c] \in ToSet(gaps[c])
  <2>1. gaps[c] # <<>> => Len(gaps[c]) \in DOMAIN gaps[c]
    BY <1>1
  <2> QED BY <2>1 DEF Host!Last, ToSet
<1> QED BY <1>1, <1>2, <1>3, <1>4, <1>5

(* A hole in the stream, as the Receiver sees it. *)
Breaks(d) == Host!Reopens(d) \/ Host!Overflowed(d) \/ Host!Jumps(d)

(* What a SAMPLES datagram does to the streams and their marks. *)
LEMMA SamplesStep ==
  ASSUME TypeOK, HostTypeOK, NEW i \in DOMAIN wire, Deliver(i),
         IsSamples(wire[i])
  PROVE  LET d == wire[i] IN
         /\ epoch' = d.epoch /\ last_ovf' = d.overflow_count
         /\ epoch_changed' = (epoch_changed \/ Host!Reopens(d))
         /\ IF d.epoch # epoch
            THEN rate_hz' = d.rate_hz /\ n_channels' = d.n_channels
            ELSE UNCHANGED <<rate_hz, n_channels>>
         /\ stats'.packets = stats.packets + IF Host!Stale(d) THEN 0 ELSE 1
         /\ next_index' = IF Host!Stale(d) THEN next_index
                          ELSE d.first_index + Len(d.words)
         /\ \A c \in Channels :
              /\ chunks'[c] = IF Host!Stale(d) THEN chunks[c]
                              ELSE chunks[c] \o split_words(d.words, c)
              /\ Host!Stream(c)' =
                   IF Host!Stale(d) THEN Host!Stream(c)
                   ELSE Host!Stream(c) \o split_words(d.words, c)
              /\ Host!Marks(c)' =
                   IF Breaks(d) /\ Host!Stream(c) # <<>>
                   THEN Host!Marks(c) \cup {Len(Host!Stream(c))}
                   ELSE Host!Marks(c)
<1> DEFINE d == wire[i]
<1>1. Host!HandleSamples(d)
  BY DeliverCases
<1>2. d.words \in Seq(Word)
  BY WireType
<1> HIDE DEF d
<1>3. /\ epoch' = d.epoch /\ last_ovf' = d.overflow_count
      /\ epoch_changed' = (epoch_changed \/ Host!Reopens(d))
      /\ IF d.epoch # epoch
         THEN rate_hz' = d.rate_hz /\ n_channels' = d.n_channels
         ELSE UNCHANGED <<rate_hz, n_channels>>
  BY <1>1 DEF Host!HandleSamples
<1>4. stats'.packets = stats.packets + IF Host!Stale(d) THEN 0 ELSE 1
  BY <1>1 DEF Host!HandleSamples
<1>5. next_index' = IF Host!Stale(d) THEN next_index
                    ELSE d.first_index + Len(d.words)
  BY <1>1 DEF Host!HandleSamples
<1>6. ASSUME NEW c \in Channels
      PROVE  /\ chunks'[c] = IF Host!Stale(d) THEN chunks[c]
                             ELSE chunks[c] \o split_words(d.words, c)
             /\ Host!Stream(c)' =
                  IF Host!Stale(d) THEN Host!Stream(c)
                  ELSE Host!Stream(c) \o split_words(d.words, c)
  <2>1. chunks[c] \in Seq(Word) /\ drained[c] \in Seq(Word)
    BY SameProtocol DEF HostTypeOK, Host!TypeOK
  <2>2. drained' = drained
    BY <1>1 DEF Host!HandleSamples
  <2>3. chunks'[c] = IF Host!Stale(d) THEN chunks[c]
                     ELSE chunks[c] \o split_words(d.words, c)
    BY <1>1, SameProtocol DEF Host!HandleSamples
  <2> DEFINE s == split_words(d.words, c)
  <2>4. s \in Seq(Word)
    BY <1>2, SplitType
  <2> HIDE DEF s
  <2>5. drained[c] \o (chunks[c] \o s) = (drained[c] \o chunks[c]) \o s
    <3>1. \A a, b \in Seq(Word) : a \o (b \o s) = (a \o b) \o s
      BY <2>4, ConcatAssociative
    <3> QED BY <2>1, <3>1, Zenon
  <2> QED BY <2>2, <2>3, <2>5 DEF Host!Stream, s
<1>7. ASSUME NEW c \in Channels
      PROVE  Host!Marks(c)' =
               IF Breaks(d) /\ Host!Stream(c) # <<>>
               THEN Host!Marks(c) \cup {Len(Host!Stream(c))}
               ELSE Host!Marks(c)
  <2>1. drained_gaps' = drained_gaps
    BY <1>1 DEF Host!HandleSamples
  <2>2. gaps' = IF Breaks(d) THEN Host!mark_gap(gaps) ELSE gaps
    BY <1>1 DEF Host!HandleSamples, Breaks
  <2>3. Host!ToSet(gaps[c]) = ToSet(gaps[c])
          /\ Host!ToSet(Host!mark_gap(gaps)[c]) = ToSet(Host!mark_gap(gaps)[c])
    BY DEF Host!ToSet, ToSet
  <2>4. Host!Marks(c) = drained_gaps[c] \cup ToSet(gaps[c])
          /\ Host!Marks(c)' = drained_gaps'[c] \cup Host!ToSet(gaps'[c])
    BY <2>3 DEF Host!Marks, Host!ToSet
  <2>5. CASE Breaks(d)
    <3>1. Host!Marks(c)' = drained_gaps[c] \cup ToSet(Host!mark_gap(gaps)[c])
      BY <2>1, <2>2, <2>3, <2>4, <2>5
    <3> QED BY <2>4, <2>5, <3>1, MarkSet
  <2>6. CASE ~Breaks(d)
    BY <2>1, <2>2, <2>3, <2>4, <2>6
  <2> QED BY <2>5, <2>6
<1> QED BY <1>3, <1>4, <1>5, <1>6, <1>7 DEF d

-----------------------------------------------------------------------------
(* The last packet kept.                                                    *)

(* A packet that arrived is where the stream is now: the Receiver's header  *)
(* fields are its, what is expected follows it, and no stream ends before   *)
(* its words.                                                               *)
Foremost(p) ==
  /\ p \in Arrived /\ p \in DOMAIN wire /\ IsSamples(wire[p])
  /\ epoch = wire[p].epoch /\ rate_hz = wire[p].rate_hz
  /\ n_channels = wire[p].n_channels
  /\ next_index = wire[p].first_index + Len(wire[p].words)
  /\ \A k \in DOMAIN wire[p].words :
       LET w == wire[p].words[k]
       IN  Host!Stream(w.ch) # <<>> /\ w.at <= Last(Host!Stream(w.ch)).at

(* Nothing has been kept yet. *)
NoFront ==
  /\ epoch = -1 /\ next_index = -1 /\ last_ovf = -1
  /\ \A c \in Channels : Host!Stream(c) = <<>>

FrontInv == NoFront \/ \E p \in DOMAIN wire : Foremost(p)

(* The end of two lists joined. *)
LEMMA LastJoined ==
  ASSUME NEW s \in Seq(Word), NEW t \in Seq(Word)
  PROVE  /\ s \o t \in Seq(Word)
         /\ t # <<>> => s \o t # <<>> /\ Last(s \o t) = t[Len(t)]
         /\ t = <<>> => s \o t = s
<1>1. s \o t \in Seq(Word) /\ Len(s \o t) = Len(s) + Len(t)
      /\ Len(s) \in Nat /\ Len(t) \in Nat
  OBVIOUS
<1>2. CASE t # <<>>
  <2>1. Len(t) > 0 /\ (s \o t)[Len(s) + Len(t)] = t[Len(t)]
    BY <1>1, <1>2
  <2>2. s \o t # <<>>
    BY <1>1, <2>1
  <2>3. Last(s \o t) = t[Len(t)]
    BY <1>1, <2>1 DEF Last
  <2> QED BY <1>1, <1>2, <2>2, <2>3
<1>3. CASE t = <<>>
  BY <1>1, <1>3
<1> QED BY <1>2, <1>3

(* All the streams depend on.                                               *)
Quiet ==
  /\ UNCHANGED <<epoch, rate_hz, n_channels, next_index, last_ovf>>
  /\ stats'.packets = stats.packets
  /\ \A c \in Channels : /\ Host!Stream(c)' = Host!Stream(c)
                         /\ Host!Marks(c)' = Host!Marks(c)
                         /\ chunks'[c] = chunks[c] \/ chunks'[c] = <<>>
  /\ epoch_changed' = epoch_changed
       \/ \A c \in Channels : chunks'[c] = <<>>

(* Only a SAMPLES datagram moves them. *)
LEMMA QuietStep ==
  ASSUME TypeOK, HostTypeOK, [BusNext]_busVars
  PROVE  \/ Quiet /\ [Next]_vars /\ UNCHANGED delivered
         \/ Quiet /\ UNCHANGED vars /\ \E i \in DOMAIN wire :
              Deliver(i) /\ ~IsSamples(wire[i])
         \/ \E i \in DOMAIN wire : Deliver(i) /\ IsSamples(wire[i])
<1>1. CASE UNCHANGED hostVars /\ UNCHANGED delivered /\ [Next]_vars
  BY <1>1 DEF Quiet, hostVars, Host!Stream, Host!Marks
<1>2. ASSUME NEW i \in DOMAIN wire, Deliver(i), ~IsSamples(wire[i])
      PROVE  Quiet /\ UNCHANGED vars
  <2>1. Host!HandleInfo(wire[i])
    BY <1>2, DeliverCases
  <2>2. UNCHANGED <<rate_hz, n_channels, epoch, next_index, last_ovf, chunks,
                    total, gaps, epoch_changed, drained, drained_gaps>>
    BY <2>1 DEF Host!HandleInfo
  <2>3. stats'.packets = stats.packets
    <3>1. stats \in [packets : Nat, samples : Nat, datagrams_lost : Nat,
                     sample_gaps : Nat, overflows : Nat, epoch_changes : Nat]
      BY DEF HostTypeOK, Host!TypeOK
    <3> QED BY <2>1, <3>1 DEF Host!HandleInfo
  <2> QED BY <1>2, <2>2, <2>3 DEF Deliver, Quiet, Host!Stream, Host!Marks
<1>3. CASE DrainBlock
  <2>1. Host!Drain /\ UNCHANGED vars /\ UNCHANGED delivered
    BY <1>3 DEF DrainBlock
  <2>2. UNCHANGED <<epoch, rate_hz, n_channels, next_index, last_ovf, stats>>
    BY <2>1 DEF Host!Drain
  <2>3. ASSUME NEW c \in Channels
        PROVE  /\ Host!Stream(c)' = Host!Stream(c)
               /\ Host!Marks(c)' = Host!Marks(c) /\ chunks'[c] = <<>>
    <3> DEFINE s == drained[c] \o chunks[c]
    <3>1. s \in Seq(Word)
      BY SameProtocol DEF HostTypeOK, Host!TypeOK
    <3>2. drained'[c] = s /\ chunks'[c] = <<>> /\ gaps'[c] = <<>>
          /\ drained_gaps'[c] = drained_gaps[c] \cup Host!ToSet(gaps[c])
      BY <2>1, SameProtocol DEF Host!Drain, Host!Block
    <3>3. Host!Stream(c) = s
      BY DEF Host!Stream
    <3>4. Host!Stream(c)' = drained'[c] \o chunks'[c]
      BY DEF Host!Stream
    <3> HIDE DEF s
    <3>5. Host!Stream(c)' = Host!Stream(c)
      BY <3>1, <3>2, <3>3, <3>4
    <3>6. Host!Marks(c)' = Host!Marks(c)
      BY <3>2 DEF Host!Marks, Host!ToSet
    <3> QED BY <3>2, <3>5, <3>6
  <2> QED BY <2>1, <2>2, <2>3 DEF Quiet
<1> QED BY <1>1, <1>2, <1>3 DEF BusNext, busVars

(* A word on the wire is one. *)
LEMMA WordOnWire ==
  ASSUME TypeOK, NEW i \in DOMAIN wire, NEW k \in DOMAIN wire[i].words
  PROVE  LET w == wire[i].words[k] IN
         /\ w \in Word /\ w.ch \in Channels /\ w.at \in Nat
         /\ w.cfg \in Config /\ w.run \in Nat
<1>1. wire[i].words \in Seq(Word)
  BY WireType
<1>2. wire[i].words[k] \in Word
  BY <1>1
<1> QED BY <1>2 DEF Word

(* What a kept packet adds to a channel: its words of that channel, all of  *)
(* them, in their order.                                                    *)
Adds(i, c, t) ==
  /\ t \in Seq(Word) /\ Rising(t)
  /\ Host!Stream(c)' = Host!Stream(c) \o t
  /\ chunks'[c] = chunks[c] \o t
  /\ \A j \in DOMAIN t : t[j].ch = c
       /\ \E m \in DOMAIN wire[i].words : t[j] = wire[i].words[m]
  /\ \A m \in DOMAIN wire[i].words : wire[i].words[m].ch = c =>
       \E j \in DOMAIN t : t[j] = wire[i].words[m]

(* A packet that is not stale is kept, whole.                               *)
LEMMA Kept ==
  ASSUME WireInv, HostTypeOK, NEW i \in DOMAIN wire, Deliver(i),
         IsSamples(wire[i]), ~Host!Stale(wire[i]), NEW c \in Channels
  PROVE  \E t : Adds(i, c, t)
<1>1. TypeOK
  BY DEF WireInv
<1> DEFINE words == wire[i].words
           t == split_words(words, c)
<1>2. words \in Seq(Word) /\ Rising(words)
  BY <1>1, WireType DEF WireInv, TimeInv, SentInOrder
<1>3. Host!Stream(c)' = Host!Stream(c) \o t /\ chunks'[c] = chunks[c] \o t
  BY <1>1, SamplesStep
<1>4. /\ t \in Seq(Word) /\ Rising(t)
      /\ \A j \in DOMAIN t : t[j].ch = c
           /\ \E m \in DOMAIN words : t[j] = words[m]
      /\ \A m \in DOMAIN words : words[m].ch = c =>
           \E j \in DOMAIN t : t[j] = words[m]
  <2> HIDE DEF words
  <2> QED BY <1>2, SplitFacts
<1> HIDE DEF t
<1> QED BY <1>3, <1>4 DEF Adds

(* A list in order is oldest first. *)
LEMMA LastIsLatest ==
  ASSUME NEW t \in Seq(Word), Rising(t), NEW j \in DOMAIN t
  PROVE  /\ t # <<>> /\ Len(t) \in DOMAIN t /\ t[j].at <= t[Len(t)].at
         /\ t[j].at \in Nat /\ t[Len(t)].at \in Nat
<1>1. j \in 1..Len(t) /\ Len(t) \in DOMAIN t /\ t # <<>> /\ Len(t) \in Nat
  OBVIOUS
<1>2. t[j] \in Word /\ t[Len(t)] \in Word
  BY <1>1
<1>3. t[j].at \in Nat /\ t[Len(t)].at \in Nat
  BY <1>2 DEF Word
<1>4. j < Len(t) => t[j].at < t[Len(t)].at
  BY <1>1 DEF Rising
<1>5. j = Len(t) \/ j < Len(t)
  BY <1>1
<1> QED BY <1>1, <1>3, <1>4, <1>5

(* A packet that is kept is where the stream is then; one that is not leaves*)
(* the front where it was; and everything else leaves all as it was.        *)
LEMMA FrontMoves ==
  ASSUME WireInv, HostTypeOK, DeliveredInv, FrontInv, NEW i \in DOMAIN wire,
         Deliver(i), IsSamples(wire[i])
  PROVE  /\ ~Host!Stale(wire[i]) => Foremost(i)'
         /\ \A p : Foremost(p) /\ Host!Stale(wire[i]) => Foremost(p)'
         /\ Host!Stale(wire[i]) => ~NoFront
<1> DEFINE d == wire[i]
<1>1. TypeOK
  BY DEF WireInv
<1>2. wire' = wire /\ delivered' = Append(delivered, i)
  BY DEF Deliver, vars
<1>3. i \in Arrived' /\ Arrived \subseteq Arrived'
  <2>1. delivered \in Seq(Nat) /\ Len(delivered) \in Nat
    BY DEF DeliveredInv
  <2>2. DOMAIN delivered' = 1..(Len(delivered) + 1)
        /\ delivered'[Len(delivered) + 1] = i
        /\ \A k \in DOMAIN delivered : delivered'[k] = delivered[k]
             /\ k \in DOMAIN delivered'
    BY <1>2, <2>1
  <2> QED BY <2>1, <2>2 DEF Arrived
<1>4. /\ d.words \in Seq(Word) /\ d.epoch \in Nat
      /\ Rising(d.words)
  BY WireType DEF WireInv, TimeInv, SentInOrder
<1>5. ASSUME ~Host!Stale(d) PROVE Foremost(i)'
  <2>1. epoch' = d.epoch /\ next_index' = d.first_index + Len(d.words)
    BY <1>1, <1>5, SamplesStep
  <2>2. rate_hz' = d.rate_hz /\ n_channels' = d.n_channels
    <3>1. CASE d.epoch # epoch
      BY <1>1, <3>1, SamplesStep
    <3>2. CASE d.epoch = epoch
      <4>1. PICK p \in DOMAIN wire : Foremost(p)
        BY <1>4, <3>2 DEF FrontInv, NoFront
      <4>2. wire[p].rate_hz = d.rate_hz /\ wire[p].n_channels = d.n_channels
        BY <3>2, <4>1 DEF Foremost, WireInv, EpochInv, EpochNamesOneConfig
      <4> QED BY <1>1, <3>2, <4>1, <4>2, SamplesStep DEF Foremost
    <3> QED BY <3>1, <3>2
  <2>3. ASSUME NEW k \in DOMAIN d.words
        PROVE  LET w == d.words[k]
               IN  /\ Host!Stream(w.ch)' # <<>>
                   /\ w.at <= Last(Host!Stream(w.ch)').at
    <3> DEFINE w == d.words[k]
    <3>1. w \in Word /\ w.ch \in Channels /\ w.at \in Nat
      BY <1>1, WordOnWire
    <3>2. PICK s : Adds(i, w.ch, s)
      BY <1>5, <3>1, Kept
    <3>3. Host!Stream(w.ch) \in Seq(Word)
      BY <3>1, SameProtocol DEF HostTypeOK, Host!TypeOK, Host!Stream
    <3>4. PICK j \in DOMAIN s : s[j] = w
      BY <3>2 DEF Adds
    <3> HIDE DEF w
    <3>5. s # <<>> /\ w.at <= s[Len(s)].at /\ s \in Seq(Word)
      BY <3>2, <3>4, LastIsLatest DEF Adds
    <3>6. Host!Stream(w.ch)' # <<>> /\ Last(Host!Stream(w.ch)') = s[Len(s)]
      BY <3>2, <3>3, <3>5, LastJoined DEF Adds
    <3> QED BY <3>5, <3>6 DEF w
  <2> QED BY <1>2, <1>3, <2>1, <2>2, <2>3 DEF Foremost, Last
<1>6. ASSUME Host!Stale(d) PROVE d.epoch = epoch /\ next_index # -1
  BY <1>6, SameProtocol DEF Host!Stale, Host!Expected
<1>7. ASSUME NEW p, Foremost(p), Host!Stale(d) PROVE Foremost(p)'
  <2>1. /\ epoch' = epoch /\ next_index' = next_index
        /\ rate_hz' = rate_hz /\ n_channels' = n_channels
        /\ \A c \in Channels : Host!Stream(c)' = Host!Stream(c)
    BY <1>1, <1>6, <1>7, SamplesStep
  <2>2. \A k \in DOMAIN wire[p].words : wire[p].words[k].ch \in Channels
    BY <1>1, <1>7, WordOnWire DEF Foremost
  <2> QED BY <1>2, <1>3, <1>7, <2>1, <2>2 DEF Foremost, Last
<1>8. Host!Stale(d) => ~NoFront
  BY <1>6 DEF NoFront
<1> QED BY <1>5, <1>7, <1>8

(* What is quiet leaves the front where it was.                             *)
LEMMA QuietFront ==
  ASSUME WireInv, HostTypeOK, DeliveredInv, Quiet, [Next]_vars,
         \/ UNCHANGED delivered
         \/ \E i \in DOMAIN wire : delivered' = Append(delivered, i)
  PROVE  /\ NoFront => NoFront'
         /\ \A p \in DOMAIN wire : Foremost(p) => Foremost(p)'
<1>1. TypeOK
  BY DEF WireInv
<1>2. Arrived \subseteq Arrived'
  <2>1. CASE UNCHANGED delivered
    BY <2>1 DEF Arrived
  <2>2. ASSUME NEW i \in DOMAIN wire, delivered' = Append(delivered, i)
        PROVE  Arrived \subseteq Arrived'
    <3>1. delivered \in Seq(Nat)
      BY DEF DeliveredInv
    <3>2. \A k \in DOMAIN delivered : delivered'[k] = delivered[k]
               /\ k \in DOMAIN delivered'
      BY <2>2, <3>1
    <3> QED BY <3>2 DEF Arrived
  <2> QED BY <2>1, <2>2
<1>3. NoFront => NoFront'
  BY DEF Quiet, NoFront
<1>4. ASSUME NEW p \in DOMAIN wire, Foremost(p) PROVE Foremost(p)'
  <2>1. p \in DOMAIN wire' /\ wire'[p] = wire[p]
    BY WireStep DEF WireInv, OrderInv
  <2>2. \A k \in DOMAIN wire[p].words : wire[p].words[k].ch \in Channels
    BY <1>1, WordOnWire
  <2> QED BY <1>2, <1>4, <2>1, <2>2 DEF Quiet, Foremost, Last
<1> QED BY <1>3, <1>4

(* There is always a front, or nothing.                                     *)
LEMMA FrontStep ==
  ASSUME WireInv, HostTypeOK, DeliveredInv, FrontInv, [BusNext]_busVars
  PROVE  FrontInv'
<1>1. TypeOK
  BY DEF WireInv
<1>2. CASE Quiet /\ [Next]_vars /\ UNCHANGED delivered
  <2>1. \A p \in DOMAIN wire : p \in DOMAIN wire'
    BY <1>1, <1>2, WireStep DEF WireInv, OrderInv
  <2> QED BY <1>2, <2>1, QuietFront DEF FrontInv
<1>3. ASSUME Quiet, UNCHANGED vars, NEW i \in DOMAIN wire, Deliver(i)
      PROVE  FrontInv'
  <2>1. wire' = wire /\ delivered' = Append(delivered, i)
    BY <1>3 DEF vars, Deliver
  <2> QED BY <1>3, <2>1, QuietFront DEF FrontInv
<1>4. ASSUME NEW i \in DOMAIN wire, Deliver(i), IsSamples(wire[i])
      PROVE  FrontInv'
  <2>1. wire' = wire
    BY <1>4 DEF Deliver, vars
  <2> QED BY <1>4, <2>1, FrontMoves DEF FrontInv
<1> QED BY <1>1, <1>2, <1>3, <1>4, QuietStep

(* The invariants these proofs share, under one name. *)
RecvInv == WireInv /\ HostTypeOK /\ DeliveredInv /\ FrontInv

(* They hold always.                                                        *)
LEMMA RecvAlways == BusSpec => []RecvInv
<1>1. BusInit => DeliveredInv /\ FrontInv
  <2>1. <<>> \o <<>> = <<>>
    OBVIOUS
  <2> QED BY <2>1, SameProtocol
          DEF BusInit, Host!Init, DeliveredInv, FrontInv, NoFront, Host!Stream
<1>2. WireInv /\ HostTypeOK /\ DeliveredInv /\ FrontInv /\ [BusNext]_busVars
        => DeliveredInv' /\ FrontInv'
  BY DeliveredStep, FrontStep
<1> QED BY <1>1, <1>2, BusRefinesFirmware, WireAlways, ReceiverTypeCorrect,
           PTL DEF BusSpec, RecvInv

(* What the Receiver takes for old is no newer than the front.              *)
LEMMA StaleIsOld ==
  ASSUME RecvInv, NEW p \in DOMAIN wire, Foremost(p), NEW i \in DOMAIN wire,
         IsSamples(wire[i]), Host!Stale(wire[i])
  PROVE  i <= p
<1>1. TypeOK /\ SamplesInOrder
  BY DEF RecvInv, WireInv, OrderInv
<1>2. i \in Nat /\ p \in Nat
  BY <1>1 DEF TypeOK
<1>3. /\ wire[i].first_index \in Nat /\ wire[p].first_index \in Nat
      /\ wire[i].epoch \in Nat /\ Len(wire[p].words) \in Nat
  BY <1>1, WireType
<1>4. wire[i].epoch = epoch /\ wire[i].first_index < next_index
  BY SameProtocol DEF Host!Stale, Host!Expected
<1> SUFFICES ASSUME p < i PROVE FALSE
  BY <1>2
<1>5. \/ wire[p].epoch < wire[i].epoch
      \/ wire[p].first_index + Len(wire[p].words) <= wire[i].first_index
  BY <1>1 DEF SamplesInOrder, Foremost
<1> QED BY <1>3, <1>4, <1>5 DEF Foremost

(* A packet is not empty. *)
LEMMA PacketIsFull ==
  ASSUME RecvInv, NEW i \in DOMAIN wire, IsSamples(wire[i])
  PROVE  /\ Len(wire[i].words) = PktLen /\ wire[i].words \in Seq(Word)
         /\ DOMAIN wire[i].words = 1..PktLen /\ 1 \in DOMAIN wire[i].words
<1>1. Len(wire[i].words) = PktLen /\ wire[i].words \in Seq(Word)
  BY WireType DEF RecvInv, WireInv, CutInv
<1> QED BY <1>1, PktLenAssumption

(* The Receiver discards only what is old, whatever the network does        *)
(* (record.py:158-163): no sample of a discarded packet is newer than the   *)
(* last one kept.                                                           *)
THEOREM OnlyOldIsDiscarded == BusSpec => DiscardsOnlyOld
<1> DEFINE Old == \A i \in DOMAIN wire :
              Deliver(i) /\ IsSamples(wire[i])
                /\ stats'.packets = stats.packets =>
                \A k \in DOMAIN wire[i].words : \E c \in Channels :
                  /\ Host!Stream(c) # <<>>
                  /\ wire[i].words[k].at <= Last(Host!Stream(c)).at
<1>1. RecvInv /\ [BusNext]_busVars => Old
  <2> SUFFICES ASSUME RecvInv, NEW i \in DOMAIN wire, Deliver(i),
                      IsSamples(wire[i]), stats'.packets = stats.packets,
                      NEW k \in DOMAIN wire[i].words
               PROVE  \E c \in Channels :
                        /\ Host!Stream(c) # <<>>
                        /\ wire[i].words[k].at <= Last(Host!Stream(c)).at
    OBVIOUS
  <2>1. TypeOK /\ HostTypeOK /\ SentInOrder /\ WireInv /\ DeliveredInv
          /\ FrontInv
    BY DEF RecvInv, WireInv, TimeInv
  <2>2. Host!Stale(wire[i])
    <3>1. stats'.packets = stats.packets + IF Host!Stale(wire[i]) THEN 0 ELSE 1
      BY <2>1, SamplesStep
    <3>2. stats.packets \in Nat
      BY <2>1 DEF HostTypeOK, Host!TypeOK
    <3> QED BY <3>1, <3>2
  <2>3. PICK p \in DOMAIN wire : Foremost(p)
    BY <2>1, <2>2, FrontMoves DEF FrontInv
  <2>4. i <= p /\ i \in Nat /\ p \in Nat
    BY <2>1, <2>2, <2>3, StaleIsOld DEF TypeOK
  <2>5. CASE i = p
    BY <2>1, <2>3, <2>5, WordOnWire DEF Foremost
  <2>6. CASE i < p
    <3> DEFINE w == wire[i].words[k]
               v == wire[p].words[1]
    <3>1. 1 \in DOMAIN wire[p].words
      BY <2>3, PacketIsFull DEF Foremost
    <3>2. /\ w.at \in Nat /\ v.at \in Nat /\ v.ch \in Channels
      BY <2>1, <3>1, WordOnWire
    <3>3. w.at < v.at
      BY <2>1, <2>6, <3>1 DEF SentInOrder, Follows
    <3>4. Host!Stream(v.ch) # <<>> /\ v.at <= Last(Host!Stream(v.ch)).at
      BY <2>3, <3>1 DEF Foremost
    <3>5. Last(Host!Stream(v.ch)).at \in Nat
      <4>1. Host!Stream(v.ch) \in Seq(Word)
        BY <2>1, <3>2, SameProtocol DEF HostTypeOK, Host!TypeOK, Host!Stream
      <4> HIDE DEF v
      <4>2. Last(Host!Stream(v.ch)) \in Word
        BY <3>4, <4>1 DEF Last
      <4> QED BY <4>2 DEF Word
    <3> QED BY <3>2, <3>3, <3>4, <3>5
  <2> QED BY <2>4, <2>5, <2>6
<1> QED BY <1>1, RecvAlways, PTL DEF BusSpec, DiscardsOnlyOld

-----------------------------------------------------------------------------
(* A stream in order.                                                       *)

(* What the order of the streams rests on: the network keeps order, or the  *)
(* ADC is never reconfigured.  The Receiver recognises an old packet by its *)
(* index, and an older epoch's packet has nothing to compare with.          *)
Orderly == ~Reorders \/ NeverReconfigured

OrderlyInv == ~Reorders \/ OneEpochInv

(* Orderly is about constants, or about epochs.                             *)
LEMMA OrderlyAlways ==
  ASSUME Orderly
  PROVE  BusSpec => []OrderlyInv
<1>1. CASE ~Reorders
  <2>1. OrderlyInv
    BY <1>1 DEF OrderlyInv
  <2> QED BY <2>1, PTL
<1>2. CASE NeverReconfigured
  <2>1. OneEpochInv => OrderlyInv
    BY DEF OrderlyInv
  <2> QED BY <1>2, <2>1, BusRefinesFirmware, OneEpochAlways, PTL
<1> QED BY <1>1, <1>2 DEF Orderly

(* A packet that is kept is newer than the front, unless its epoch is older.*)
LEMMA KeptIsNewer ==
  ASSUME RecvInv, NEW p \in DOMAIN wire, Foremost(p), NEW i \in DOMAIN wire,
         IsSamples(wire[i]), ~Host!Stale(wire[i]),
         wire[p].epoch <= wire[i].epoch
  PROVE  p < i
<1>1. TypeOK /\ SamplesInOrder
  BY DEF RecvInv, WireInv, OrderInv
<1>2. i \in Nat /\ p \in Nat
  BY <1>1 DEF TypeOK
<1>3. /\ wire[i].first_index \in Nat /\ wire[p].first_index \in Nat
      /\ wire[i].epoch \in Nat /\ wire[p].epoch \in Nat
      /\ PktLen \in Nat \ {0}
      /\ Len(wire[i].words) = PktLen /\ Len(wire[p].words) = PktLen
  BY <1>1, WireType, PacketIsFull, PktLenAssumption DEF Foremost
<1>4. next_index = wire[p].first_index + PktLen
  BY <1>3 DEF Foremost
<1>5. wire[i].epoch = epoch => wire[i].first_index >= next_index
  <2>1. next_index # -1
    BY <1>3, <1>4
  <2> QED BY <1>3, <1>4, <2>1, SameProtocol DEF Host!Stale, Host!Expected
<1>6. i # p
  BY <1>3, <1>4, <1>5 DEF Foremost
<1>7. ~(i < p)
  <2> SUFFICES ASSUME i < p PROVE FALSE
    OBVIOUS
  <2>1. \/ wire[i].epoch < wire[p].epoch
        \/ /\ wire[i].epoch = wire[p].epoch
           /\ wire[i].first_index + PktLen <= wire[p].first_index
    BY <1>1, <1>3 DEF SamplesInOrder, Foremost
  <2>2. wire[i].first_index >= wire[p].first_index + PktLen
    BY <1>3, <1>4, <1>5, <2>1 DEF Foremost
  <2> QED BY <1>3, <2>1, <2>2
<1> QED BY <1>2, <1>6, <1>7

(* In order, then, whatever is kept is newer than the front.                *)
LEMMA KeptIsNew ==
  ASSUME RecvInv, OrderlyInv, NEW p \in DOMAIN wire, Foremost(p),
         NEW i \in DOMAIN wire, Deliver(i), IsSamples(wire[i]),
         ~Host!Stale(wire[i])
  PROVE  p < i
<1>1. TypeOK
  BY DEF RecvInv, WireInv
<1>2. i \in Nat /\ p \in Nat /\ wire[i].epoch \in Nat
  BY <1>1, WireType DEF TypeOK
<1>3. CASE ~Reorders
  <2>1. p <= i
    BY <1>3 DEF Deliver, MayArrive, Foremost
  <2>2. p = i => p < i
    <3>1. p = i => wire[p].epoch <= wire[i].epoch
      BY <1>2
    <3> QED BY <3>1, KeptIsNewer
  <2> QED BY <1>2, <2>1, <2>2
<1>4. CASE OneEpochInv
  <2>1. wire[p].epoch = 1 /\ wire[i].epoch = 1
    BY <1>4 DEF OneEpochInv, Foremost
  <2>2. wire[p].epoch <= wire[i].epoch
    BY <2>1
  <2> QED BY <2>2, KeptIsNewer
<1> QED BY <1>3, <1>4 DEF OrderlyInv

(* Every stream ends with a word of the front or of a packet before it.     *)
Behind(p) ==
  \A c \in Channels : Host!Stream(c) # <<>> =>
    \E q \in DOMAIN wire : \E k \in DOMAIN wire[q].words :
      /\ q <= p /\ IsSamples(wire[q])
      /\ Last(Host!Stream(c)) = wire[q].words[k]

BehindInv ==
  /\ NoFront \/ \E p \in DOMAIN wire : Foremost(p) /\ Behind(p)
  /\ \A c \in Channels : Rising(Host!Stream(c))

(* Neighbours in two lists joined are neighbours in one, or the last of one *)
(* and the first of the other.                                              *)
LEMMA Neighbours ==
  ASSUME NEW s \in Seq(Word), NEW t \in Seq(Word), NEW k \in 1..(Len(s \o t) - 1)
  PROVE  \/ /\ k \in 1..(Len(s) - 1) /\ (s \o t)[k] = s[k]
            /\ (s \o t)[k + 1] = s[k + 1]
         \/ /\ k = Len(s) /\ s # <<>> /\ t # <<>> /\ (s \o t)[k] = Last(s)
            /\ (s \o t)[k + 1] = t[1] /\ 1 \in DOMAIN t
         \/ /\ k > Len(s) /\ k - Len(s) \in 1..(Len(t) - 1)
            /\ (s \o t)[k] = t[k - Len(s)]
            /\ (s \o t)[k + 1] = t[k - Len(s) + 1]
<1>1. /\ Len(s \o t) = Len(s) + Len(t) /\ Len(s) \in Nat /\ Len(t) \in Nat
      /\ k \in Nat /\ k >= 1 /\ k < Len(s) + Len(t)
      /\ \A m \in 1..(Len(s) + Len(t)) :
           (s \o t)[m] = IF m <= Len(s) THEN s[m] ELSE t[m - Len(s)]
  OBVIOUS
<1>2. CASE k < Len(s)
  BY <1>1, <1>2
<1>3. CASE k = Len(s)
  <2>1. s # <<>> /\ t # <<>> /\ 1 \in DOMAIN t
    BY <1>1, <1>3
  <2>2. (s \o t)[k] = s[Len(s)] /\ (s \o t)[k + 1] = t[1]
    BY <1>1, <1>3
  <2> QED BY <1>3, <2>1, <2>2 DEF Last
<1>4. CASE k > Len(s)
  <2>1. k - Len(s) \in 1..(Len(t) - 1) /\ k + 1 - Len(s) = k - Len(s) + 1
    BY <1>1, <1>4
  <2>2. (s \o t)[k] = t[k - Len(s)] /\ (s \o t)[k + 1] = t[k + 1 - Len(s)]
    BY <1>1, <1>4
  <2> QED BY <1>4, <2>1, <2>2
<1> QED BY <1>1, <1>2, <1>3, <1>4

(* Two lists in order, the second later than the last of the first, are one.*)
LEMMA RisingJoined ==
  ASSUME NEW s \in Seq(Word), NEW t \in Seq(Word), Rising(s), Rising(t),
         s # <<>> => \A j \in DOMAIN t : Last(s).at < t[j].at
  PROVE  Rising(s \o t)
<1>1. /\ Len(s) \in Nat /\ Len(t) \in Nat
      /\ DOMAIN (s \o t) = 1..(Len(s) + Len(t))
      /\ \A m \in 1..(Len(s) + Len(t)) :
           (s \o t)[m] = IF m <= Len(s) THEN s[m] ELSE t[m - Len(s)]
  OBVIOUS
<1>2. SUFFICES ASSUME NEW k \in 1..(Len(s) + Len(t)),
                      NEW l \in 1..(Len(s) + Len(t)), k < l
               PROVE  (s \o t)[k].at < (s \o t)[l].at
  BY <1>1 DEF Rising
<1>3. CASE l <= Len(s)
  <2>1. k \in DOMAIN s /\ l \in DOMAIN s
    BY <1>1, <1>2, <1>3
  <2> QED BY <1>1, <1>2, <1>3, <2>1 DEF Rising
<1>4. CASE k > Len(s)
  <2>1. k - Len(s) \in DOMAIN t /\ l - Len(s) \in DOMAIN t
          /\ k - Len(s) < l - Len(s)
    BY <1>1, <1>2, <1>4
  <2>2. (s \o t)[k] = t[k - Len(s)] /\ (s \o t)[l] = t[l - Len(s)]
    BY <1>1, <1>2, <1>4
  <2>3. t[k - Len(s)].at < t[l - Len(s)].at
    BY <2>1 DEF Rising
  <2> QED BY <2>2, <2>3
<1>5. CASE k <= Len(s) /\ l > Len(s)
  <2>1. k \in DOMAIN s /\ l - Len(s) \in DOMAIN t /\ s # <<>>
    BY <1>1, <1>2, <1>5
  <2>2. (s \o t)[k] = s[k] /\ (s \o t)[l] = t[l - Len(s)]
    BY <1>1, <1>2, <1>5
  <2>3. s[k].at <= s[Len(s)].at /\ s[k].at \in Nat /\ s[Len(s)].at \in Nat
    BY <2>1, LastIsLatest
  <2>4. s[Len(s)].at < t[l - Len(s)].at
    BY <2>1 DEF Last
  <2>5. t[l - Len(s)].at \in Nat
    BY <2>1, LastIsLatest
  <2> QED BY <2>2, <2>3, <2>4, <2>5
<1> QED BY <1>1, <1>2, <1>3, <1>4, <1>5

(* What a step may be: quiet, or a packet delivered.                        *)
LEMMA BusStep ==
  ASSUME TypeOK, HostTypeOK, [BusNext]_busVars
  PROVE  \/ /\ Quiet /\ [Next]_vars
            /\ \/ UNCHANGED delivered
               \/ \E i \in DOMAIN wire : /\ delivered' = Append(delivered, i)
                                         /\ Deliver(i) /\ ~IsSamples(wire[i])
         \/ \E i \in DOMAIN wire : Deliver(i) /\ IsSamples(wire[i])
BY QuietStep DEF Deliver

(* Joining a newer packet's words at the ends keeps the streams rising.     *)
LEMMA BehindStep ==
  ASSUME RecvInv, OrderlyInv, BehindInv, [BusNext]_busVars
  PROVE  BehindInv'
<1>1. TypeOK /\ HostTypeOK /\ WireInv /\ DeliveredInv /\ FrontInv
        /\ SentInOrder
  BY DEF RecvInv, WireInv, TimeInv
<1>2. \A c \in Channels : Host!Stream(c) \in Seq(Word)
  BY <1>1, SameProtocol DEF HostTypeOK, Host!TypeOK, Host!Stream
<1>3. ASSUME Quiet, [Next]_vars,
             \/ UNCHANGED delivered
             \/ \E i \in DOMAIN wire : delivered' = Append(delivered, i)
      PROVE  BehindInv'
  <2>1. \A q \in DOMAIN wire : q \in DOMAIN wire' /\ wire'[q] = wire[q]
    BY <1>1, <1>3, WireStep DEF WireInv, OrderInv
  <2>2. \A c \in Channels : Host!Stream(c)' = Host!Stream(c)
    BY <1>3 DEF Quiet
  <2>3. \A c \in Channels : Rising(Host!Stream(c))'
    BY <2>2 DEF BehindInv, Rising
  <2>4. \A p \in DOMAIN wire : Behind(p) => Behind(p)'
    BY <2>1, <2>2 DEF Behind, Last, IsSamples
  <2> QED BY <1>1, <1>3, <2>1, <2>3, <2>4, QuietFront DEF BehindInv
<1>4. ASSUME NEW i \in DOMAIN wire, Deliver(i), IsSamples(wire[i]),
             Host!Stale(wire[i])
      PROVE  BehindInv'
  <2>1. wire' = wire
    BY <1>4 DEF Deliver, vars
  <2>2. \A c \in Channels : Host!Stream(c)' = Host!Stream(c)
    BY <1>1, <1>4, SamplesStep
  <2>3. \A p \in DOMAIN wire : Behind(p) => Behind(p)'
    BY <2>1, <2>2 DEF Behind, Last
  <2>4. \A c \in Channels : Rising(Host!Stream(c))'
    BY <2>2 DEF BehindInv, Rising
  <2> QED BY <1>1, <1>4, <2>1, <2>3, <2>4, FrontMoves DEF BehindInv
<1>5. ASSUME NEW i \in DOMAIN wire, Deliver(i), IsSamples(wire[i]),
             ~Host!Stale(wire[i])
      PROVE  BehindInv'
  <2>1. wire' = wire /\ i \in Nat
    BY <1>1, <1>5 DEF Deliver, vars, TypeOK
  <2>2. ASSUME NEW c \in Channels
        PROVE  /\ Rising(Host!Stream(c)')
               /\ Host!Stream(c)' # <<>> =>
                    \E q \in DOMAIN wire : \E k \in DOMAIN wire[q].words :
                      /\ q <= i /\ IsSamples(wire[q])
                      /\ Last(Host!Stream(c)') = wire[q].words[k]
    <3> DEFINE s == Host!Stream(c)
    <3>1. PICK t : Adds(i, c, t)
      BY <1>1, <1>5, Kept
    <3>2. s \in Seq(Word) /\ Rising(s) /\ t \in Seq(Word) /\ Rising(t)
          /\ Host!Stream(c)' = s \o t
      BY <1>2, <3>1 DEF Adds, BehindInv
    <3>3. s # <<>> =>
            \E q \in DOMAIN wire : \E k \in DOMAIN wire[q].words :
              q < i /\ q <= i /\ IsSamples(wire[q]) /\ Last(s) = wire[q].words[k]
      <4> SUFFICES ASSUME s # <<>>
                   PROVE  \E q \in DOMAIN wire : \E k \in DOMAIN wire[q].words :
                            /\ q < i /\ q <= i /\ IsSamples(wire[q])
                            /\ Last(s) = wire[q].words[k]
        OBVIOUS
      <4>1. PICK p \in DOMAIN wire : Foremost(p) /\ Behind(p)
        BY DEF BehindInv, NoFront
      <4>2. p < i /\ p \in Nat /\ \A q \in DOMAIN wire : q \in Nat
        BY <1>1, <1>5, <4>1, KeptIsNew DEF TypeOK
      <4>3. PICK q \in DOMAIN wire : \E k \in DOMAIN wire[q].words :
              q <= p /\ IsSamples(wire[q]) /\ Last(s) = wire[q].words[k]
        BY <4>1 DEF Behind
      <4>4. q < i /\ q <= i
        BY <2>1, <4>2, <4>3
      <4> QED BY <4>3, <4>4
    <3>4. s # <<>> => \A j \in DOMAIN t : Last(s).at < t[j].at
      BY <1>1, <3>1, <3>3 DEF Adds, SentInOrder, Follows
    <3> HIDE DEF s
    <3>5. Rising(Host!Stream(c)')
      BY <3>2, <3>4, RisingJoined
    <3>6. CASE t = <<>>
      <4>1. Host!Stream(c)' = s
        BY <3>2, <3>6, LastJoined
      <4> QED BY <3>3, <3>5, <4>1
    <3>7. CASE t # <<>>
      <4>1. Len(t) \in DOMAIN t /\ Last(s \o t) = t[Len(t)]
        BY <3>2, <3>7, LastJoined
      <4>2. \E m \in DOMAIN wire[i].words : t[Len(t)] = wire[i].words[m]
        BY <3>1, <4>1 DEF Adds
      <4> QED BY <1>5, <2>1, <3>2, <3>5, <4>1, <4>2
    <3> QED BY <3>6, <3>7
  <2>3. Behind(i)'
    BY <2>1, <2>2 DEF Behind, Last
  <2>4. \A c \in Channels : Rising(Host!Stream(c))'
    BY <2>2 DEF Rising
  <2> QED BY <1>1, <1>5, <2>1, <2>3, <2>4, FrontMoves DEF BehindInv
<1> QED BY <1>1, <1>3, <1>4, <1>5, BusStep

(* So they are in order always.                                             *)
LEMMA BehindAlways ==
  ASSUME Orderly
  PROVE  BusSpec => []BehindInv
<1>1. BusInit => BehindInv
  <2>1. <<>> \o <<>> = <<>>
    OBVIOUS
  <2> QED BY <2>1, SameProtocol
          DEF BusInit, Host!Init, BehindInv, NoFront, Host!Stream, Rising
<1>2. RecvInv /\ OrderlyInv /\ BehindInv /\ [BusNext]_busVars => BehindInv'
  BY BehindStep
<1> QED BY <1>1, <1>2, RecvAlways, OrderlyAlways, PTL DEF BusSpec

(* Samples come out of the Receiver in the order they were converted, each  *)
(* once, on every channel, when the network keeps order or nothing is       *)
(* reconfigured: the Receiver has next_index and no more to tell old from   *)
(* new (record.py:155-163).                                                 *)
THEOREM StreamsAreChronological ==
  ASSUME Orderly
  PROVE  BusSpec => []Chronological
<1>1. RecvInv /\ BehindInv => Chronological
  <2> SUFFICES ASSUME RecvInv, BehindInv, NEW c \in Channels,
                      NEW k \in 1..(Len(Host!Stream(c)) - 1)
               PROVE  Host!Stream(c)[k].at < Host!Stream(c)[k + 1].at
    BY DEF Chronological
  <2> DEFINE s == Host!Stream(c)
  <2>1. s \in Seq(Word) /\ Rising(s)
    BY SameProtocol DEF RecvInv, HostTypeOK, Host!TypeOK, Host!Stream, BehindInv
  <2> HIDE DEF s
  <2>2. k \in 1..(Len(s) - 1)
    BY DEF s
  <2>3. k \in DOMAIN s /\ k + 1 \in DOMAIN s /\ k < k + 1
    BY <2>1, <2>2
  <2>4. s[k].at < s[k + 1].at
    BY <2>1, <2>3 DEF Rising
  <2> QED BY <2>4 DEF s
<1> QED BY <1>1, RecvAlways, BehindAlways, PTL

-----------------------------------------------------------------------------
(* What is kept, and what it is timed with.                                 *)

(* What is in one of two lists is in the list they make.                    *)
LEMMA InJoined ==
  ASSUME NEW s \in Seq(Word), NEW t \in Seq(Word)
  PROVE  ToSet(s) \subseteq ToSet(s \o t) /\ ToSet(t) \subseteq ToSet(s \o t)
<1>1. \A k \in DOMAIN s : k \in DOMAIN (s \o t) /\ (s \o t)[k] = s[k]
  OBVIOUS
<1>2. \A k \in DOMAIN t : /\ Len(s) + k \in DOMAIN (s \o t)
                          /\ (s \o t)[Len(s) + k] = t[k]
  OBVIOUS
<1> QED BY <1>1, <1>2 DEF ToSet

(* A packet is dropped only when it is behind the front, and then, in       *)
(* order, it had been delivered before.                                     *)
LEMMA KeptStep ==
  ASSUME ~Reorders, RecvInv, ArrivedIsKept, [BusNext]_busVars
  PROVE  ArrivedIsKept'
<1>1. TypeOK /\ HostTypeOK /\ WireInv /\ DeliveredInv /\ FrontInv
        /\ SourceInv
  BY DEF RecvInv, WireInv
<1>2. \A c \in Channels : Host!Stream(c) \in Seq(Word)
  BY <1>1, SameProtocol DEF HostTypeOK, Host!TypeOK, Host!Stream
<1>3. Arrived \subseteq DOMAIN wire
  BY <1>1 DEF DeliveredInv, Arrived
<1>4. ASSUME NEW i \in DOMAIN wire, delivered' = Append(delivered, i)
      PROVE  Arrived' = Arrived \cup {i}
  <2>1. delivered \in Seq(Nat) /\ Len(delivered) \in Nat
    BY <1>1 DEF DeliveredInv
  <2>2. DOMAIN delivered' = 1..(Len(delivered) + 1)
        /\ delivered'[Len(delivered) + 1] = i
        /\ \A k \in DOMAIN delivered : delivered'[k] = delivered[k]
    BY <1>4, <2>1
  <2>3. DOMAIN delivered = 1..Len(delivered)
    BY <2>1
  <2> QED BY <2>1, <2>2, <2>3 DEF Arrived
<1>5. ASSUME Quiet, [Next]_vars, Arrived' \subseteq Arrived \cup
               {i \in DOMAIN wire : wire[i].words = <<>>}
      PROVE  ArrivedIsKept'
  <2>1. \A i \in DOMAIN wire : i \in DOMAIN wire' /\ wire'[i] = wire[i]
    BY <1>1, <1>5, WireStep DEF WireInv, OrderInv
  <2>2. ASSUME NEW i \in Arrived', NEW k \in DOMAIN wire[i].words,
               NEW c \in Channels, NEW w, w = wire[i].words[k], w.ch = c
        PROVE  w \in ToSet(Host!Stream(c)')
    <3>1. i \in Arrived
      BY <1>3, <1>5, <2>2
    <3>2. w \in ToSet(Host!Stream(c))
      BY <2>2, <3>1 DEF ArrivedIsKept
    <3> QED BY <1>5, <3>2 DEF Quiet
  <2>3. Arrived' \subseteq DOMAIN wire
    BY <1>3, <1>5
  <2> QED BY <1>1, <2>1, <2>2, <2>3, WordOnWire DEF ArrivedIsKept, ToSet
<1>6. ASSUME NEW i \in DOMAIN wire, Deliver(i), IsSamples(wire[i])
      PROVE  ArrivedIsKept'
  <2>1. wire' = wire /\ Arrived' = Arrived \cup {i}
    BY <1>4, <1>6 DEF Deliver, vars
  <2>2. ASSUME ~Host!Stale(wire[i]), NEW j \in Arrived',
               NEW k \in DOMAIN wire[j].words, NEW c \in Channels,
               NEW w, w = wire[j].words[k], w.ch = c
        PROVE  w \in ToSet(Host!Stream(c)')
    <3>1. PICK t : Adds(i, c, t)
      BY <1>1, <1>6, <2>2, Kept
    <3>2. /\ Host!Stream(c)' = Host!Stream(c) \o t
          /\ Host!Stream(c) \in Seq(Word) /\ t \in Seq(Word)
      BY <1>2, <3>1 DEF Adds
    <3>3. w \in ToSet(Host!Stream(c)) \/ w \in ToSet(t)
      BY <2>1, <2>2, <3>1 DEF ArrivedIsKept, Adds, ToSet
    <3> QED BY <3>2, <3>3, InJoined
  <2>3. ASSUME Host!Stale(wire[i]), NEW j \in Arrived',
               NEW k \in DOMAIN wire[j].words, NEW c \in Channels,
               NEW w, w = wire[j].words[k], w.ch = c
        PROVE  w \in ToSet(Host!Stream(c)')
    <3>1. PICK p \in DOMAIN wire : Foremost(p)
      BY <1>1, <1>6, <2>3, FrontMoves DEF FrontInv
    <3>2. i <= p
      BY <1>1, <1>6, <2>3, <3>1, StaleIsOld
    <3>3. j \in Arrived
      <4>1. p \in Arrived /\ p <= i
        BY <1>6, <3>1 DEF Foremost, Deliver, MayArrive
      <4>2. i = p
        BY <1>1, <3>2, <4>1 DEF TypeOK
      <4> QED BY <2>1, <2>3, <4>1, <4>2
    <3>4. Host!Stream(c)' = Host!Stream(c)
      BY <1>1, <1>6, <2>3, SamplesStep
    <3>5. w \in ToSet(Host!Stream(c))
      BY <2>3, <3>3 DEF ArrivedIsKept
    <3> QED BY <3>4, <3>5
  <2>4. Arrived' \subseteq DOMAIN wire
    BY <1>3, <2>1
  <2> QED BY <1>1, <2>1, <2>2, <2>3, <2>4, WordOnWire DEF ArrivedIsKept, ToSet
<1>7. CASE Quiet /\ [Next]_vars /\ UNCHANGED delivered
  BY <1>5, <1>7 DEF Arrived
<1>8. ASSUME Quiet, [Next]_vars, NEW i \in DOMAIN wire,
             delivered' = Append(delivered, i), ~IsSamples(wire[i])
      PROVE  ArrivedIsKept'
  <2>1. wire[i].words = <<>>
    BY <1>1, <1>8 DEF SourceInv
  <2> QED BY <1>4, <1>5, <1>8, <2>1
<1> QED BY <1>1, <1>6, <1>7, <1>8, BusStep

(* Over a network that keeps order no sample that arrives is thrown away    *)
(* unless it is there already: whatever else happens, an epoch change or an *)
(* overflow, a gap or a duplicate, the Receiver keeps it (record.py:155-171)*)
THEOREM NothingArrivedIsDropped ==
  ASSUME ~Reorders
  PROVE  BusSpec => []ArrivedIsKept
<1>1. BusInit => ArrivedIsKept
  BY DEF BusInit, ArrivedIsKept, Arrived
<1>2. RecvInv /\ ArrivedIsKept /\ [BusNext]_busVars => ArrivedIsKept'
  BY KeptStep
<1> QED BY <1>1, <1>2, RecvAlways, PTL DEF BusSpec

(* w is a word of packet i. *)
WordOf(w, i) == \E k \in DOMAIN wire[i].words : w = wire[i].words[k]

(* What a stream has of any channel came from the wire. *)
Received ==
  \A c \in Channels : \A w \in ToSet(Host!Stream(c)) :
    \E q \in DOMAIN wire : IsSamples(wire[q]) /\ WordOf(w, q)

(* No step makes a word up. *)
LEMMA ReceivedStep ==
  ASSUME RecvInv, Received, [BusNext]_busVars
  PROVE  Received'
<1>1. TypeOK /\ HostTypeOK /\ WireInv
  BY DEF RecvInv, WireInv
<1>2. CASE Quiet /\ [Next]_vars
  <2>1. \A q \in DOMAIN wire : q \in DOMAIN wire' /\ wire'[q] = wire[q]
    BY <1>1, <1>2, WireStep DEF WireInv, OrderInv
  <2>2. \A c \in Channels : Host!Stream(c)' = Host!Stream(c)
    BY <1>2 DEF Quiet
  <2> QED BY <2>1, <2>2 DEF Received, WordOf, IsSamples, ToSet
<1>3. ASSUME NEW i \in DOMAIN wire, Deliver(i), IsSamples(wire[i])
      PROVE  Received'
  <2>1. wire' = wire
    BY <1>3 DEF Deliver, vars
  <2>2. ASSUME NEW c \in Channels, NEW w \in ToSet(Host!Stream(c)')
        PROVE  \E q \in DOMAIN wire : IsSamples(wire[q]) /\ WordOf(w, q)
    <3>1. CASE Host!Stale(wire[i])
      <4>1. Host!Stream(c)' = Host!Stream(c)
        BY <1>1, <1>3, <3>1, SamplesStep
      <4> QED BY <2>2, <4>1 DEF Received
    <3>2. CASE ~Host!Stale(wire[i])
      <4> DEFINE s == Host!Stream(c)
      <4>1. PICK t : Adds(i, c, t)
        BY <1>1, <1>3, <3>2, Kept DEF RecvInv
      <4>2. s \in Seq(Word) /\ t \in Seq(Word) /\ Host!Stream(c)' = s \o t
        BY <1>1, <4>1, SameProtocol DEF HostTypeOK, Host!TypeOK, Host!Stream,
           Adds
      <4>3. w \in ToSet(s) \/ w \in ToSet(t)
        <5> HIDE DEF s
        <5>1. PICK k \in DOMAIN (s \o t) : w = (s \o t)[k]
          BY <2>2, <4>2 DEF ToSet
        <5>2. \/ k \in DOMAIN s /\ w = s[k]
              \/ k - Len(s) \in DOMAIN t /\ w = t[k - Len(s)]
          BY <4>2, <5>1
        <5> QED BY <5>2 DEF ToSet
      <4>4. CASE w \in ToSet(s)
        BY <4>4 DEF Received
      <4>5. CASE w \in ToSet(t)
        BY <1>3, <4>1, <4>5 DEF Adds, WordOf, ToSet
      <4> QED BY <4>3, <4>4, <4>5
    <3> QED BY <3>1, <3>2
  <2> QED BY <2>1, <2>2 DEF Received, WordOf, ToSet
<1> QED BY <1>1, <1>2, <1>3, BusStep

(* So it is always. *)
LEMMA ReceivedAlways == BusSpec => []Received
<1>1. BusInit => Received
  <2>1. BusInit => \A c \in Channels : Host!Stream(c) = <<>>
    <3>1. <<>> \o <<>> = <<>>
      OBVIOUS
    <3> QED BY <3>1, SameProtocol DEF BusInit, Host!Init, Host!Stream
  <2>2. ToSet(<<>>) = {}
    BY DEF ToSet
  <2> QED BY <2>1, <2>2 DEF Received
<1>2. RecvInv /\ Received /\ [BusNext]_busVars => Received'
  BY ReceivedStep
<1> QED BY <1>1, <1>2, RecvAlways, PTL DEF BusSpec

(* A word is on the wire once, so that its packet tells whether it is fresh.*)
FreshIsRun ==
  \A i \in DOMAIN wire : \A v :
    WordOf(v, i) => (Fresh(v) <=> wire[i].epoch = v.run)

LEMMA FreshHere == WireInv => FreshIsRun
<1> SUFFICES ASSUME WireInv, NEW q \in DOMAIN wire, NEW w, WordOf(w, q)
             PROVE  Fresh(w) <=> wire[q].epoch = w.run
  BY DEF FreshIsRun
<1>1. wire[q].epoch = w.run => Fresh(w)
  BY DEF Fresh, WordOf, ToSet
<1>2. ASSUME Fresh(w) PROVE wire[q].epoch = w.run
  <2>1. PICK i \in DOMAIN wire : /\ wire[i].epoch = w.run
                                 /\ w \in ToSet(wire[i].words)
    BY <1>2 DEF Fresh
  <2>2. WordOf(w, i)
    BY <2>1 DEF WordOf, ToSet
  <2>3. TypeOK /\ SentInOrder
    BY DEF WireInv, TimeInv
  <2>4. w.at \in Nat
    BY <2>3, WordOnWire DEF WordOf
  <2>5. ~(w.at < w.at)
    BY <2>4
  <2>6. ~(i < q) /\ ~(q < i)
    BY <2>2, <2>3, <2>5 DEF SentInOrder, Follows, WordOf
  <2>7. i \in Nat /\ q \in Nat
    BY <2>3 DEF TypeOK
  <2>8. i = q
    BY <2>6, <2>7
  <2> QED BY <2>1, <2>8
<1> QED BY <1>1, <1>2

(* It stays what it is.                                                     *)
LEMMA FreshStays ==
  ASSUME WireInv, WireInv', [Next]_vars, NEW w, NEW q \in DOMAIN wire,
         WordOf(w, q)
  PROVE  Fresh(w)' <=> Fresh(w)
<1>1. (WireInv => FreshIsRun)'
  BY FreshHere, PTL
<1>2. q \in DOMAIN wire' /\ wire'[q] = wire[q]
  BY WireStep DEF WireInv, OrderInv
<1>3. WordOf(w, q)'
  BY <1>2 DEF WordOf
<1>4. Fresh(w)' <=> wire'[q].epoch = w.run
  BY <1>1, <1>2, <1>3 DEF FreshIsRun
<1>5. Fresh(w) <=> wire[q].epoch = w.run
  BY FreshHere DEF FreshIsRun
<1> QED BY <1>2, <1>4, <1>5

(* Two words sent: of one run, of one configuration; of two runs, more than *)
(* a turn of the pattern apart.                                             *)
LEMMA RunsOnWire ==
  ASSUME WireInv, NEW q \in DOMAIN wire, NEW i \in DOMAIN wire,
         NEW w, NEW v, WordOf(w, q), WordOf(v, i)
  PROVE  /\ w \in Word /\ v \in Word
         /\ w.run = v.run => w.cfg = v.cfg
         /\ w.run < v.run => w.at + 6 < v.at
<1>1. w \in Word /\ v \in Word
  BY WordOnWire DEF WireInv, WordOf
<1>2. w \in Known /\ v \in Known
  BY <1>1 DEF Known, Sent, WordOf
<1> QED BY <1>1, <1>2 DEF WireInv, RunInv, OneConfigPerRun, RunsApart

(* What is sent in an epoch after one of its own words is its own too.      *)
LEMMA OwnFromThen ==
  ASSUME WireInv, NEW q \in DOMAIN wire, NEW i \in DOMAIN wire,
         IsSamples(wire[i]), NEW w, NEW v, WordOf(w, q), WordOf(v, i),
         w.run = wire[i].epoch, w.at <= v.at
  PROVE  v.run = w.run
<1>1. w \in Word /\ v \in Word
  BY RunsOnWire
<1>2. v.run <= wire[i].epoch
  BY DEF WireInv, RunInv, WireRuns, WordOf
<1>3. v.run < w.run => v.at + 6 < w.at
  BY RunsOnWire
<1>4. w.run \in Nat /\ v.run \in Nat /\ w.at \in Nat /\ v.at \in Nat
  BY <1>1 DEF Word
<1> QED BY <1>2, <1>3, <1>4

(* A block's fresh samples are of the front's configuration from the last   *)
(* change of epoch on, and a change in between is in epoch_changed.         *)
LEMMA BlockRateStep ==
  ASSUME RecvInv, RecvInv', Received, BlockRateIsRight, [BusNext]_busVars
  PROVE  BlockRateIsRight'
<1>1. TypeOK /\ HostTypeOK /\ WireInv /\ DeliveredInv /\ FrontInv /\ WireInv'
  BY DEF RecvInv, WireInv
<1>2. \A c \in Channels : /\ chunks[c] \in Seq(Word) /\ drained[c] \in Seq(Word)
                          /\ Host!Stream(c) = drained[c] \o chunks[c]
  BY <1>1, SameProtocol DEF HostTypeOK, Host!TypeOK, Host!Stream
<1> SUFFICES ASSUME ~epoch_changed', NEW c \in Channels,
                    NEW w \in ToSet(chunks'[c]), Fresh(w)'
             PROVE  w.cfg.rate = rate_hz' /\ popcount8(w.cfg.mask) = n_channels'
  BY DEF BlockRateIsRight, popcount8, ToSet
<1>3. CASE Quiet /\ [Next]_vars
  <2>1. UNCHANGED <<rate_hz, n_channels>>
    BY <1>3 DEF Quiet
  <2>2. chunks'[c] = chunks[c]
    BY <1>3 DEF Quiet, ToSet
  <2>3. ~epoch_changed
    <3>1. chunks'[c] # <<>>
      BY DEF ToSet
    <3> QED BY <1>3, <3>1 DEF Quiet
  <2>4. w \in ToSet(chunks[c]) /\ w \in ToSet(Host!Stream(c))
    BY <1>2, <2>2, InJoined
  <2>5. PICK q \in DOMAIN wire : WordOf(w, q)
    BY <2>4 DEF Received
  <2>6. Fresh(w)
    BY <1>1, <1>3, <2>5, FreshStays
  <2> QED BY <2>1, <2>3, <2>4, <2>6 DEF BlockRateIsRight
<1>4. ASSUME NEW i \in DOMAIN wire, Deliver(i), IsSamples(wire[i])
      PROVE  w.cfg.rate = rate_hz' /\ popcount8(w.cfg.mask) = n_channels'
  <2>1. wire' = wire /\ Fresh(w)
    <3>1. wire' = wire
      BY <1>4 DEF Deliver, vars
    <3> QED BY <3>1 DEF Fresh, ToSet
  <2>2. ~epoch_changed /\ ~Host!Reopens(wire[i])
    BY <1>1, <1>4, SamplesStep
  <2>3. CASE Host!Stale(wire[i])
    <3>1. wire[i].epoch = epoch
      BY <2>3, SameProtocol DEF Host!Stale, Host!Expected
    <3>2. chunks'[c] = chunks[c] /\ UNCHANGED <<rate_hz, n_channels>>
      BY <1>1, <1>4, <2>3, <3>1, SamplesStep
    <3> QED BY <2>1, <2>2, <3>2 DEF BlockRateIsRight
  <2>4. CASE ~Host!Stale(wire[i])
    <3>1. rate_hz' = wire[i].rate_hz /\ n_channels' = wire[i].n_channels
      <4>1. Foremost(i)'
        BY <1>1, <1>4, <2>4, FrontMoves
      <4> QED BY <2>1, <4>1 DEF Foremost
    <3>2. PICK t : Adds(i, c, t)
      BY <1>1, <1>4, <2>4, Kept
    <3>3. w \in ToSet(chunks[c]) \/ \E j \in DOMAIN t : w = t[j]
      <4>1. chunks[c] \in Seq(Word) /\ t \in Seq(Word)
              /\ chunks'[c] = chunks[c] \o t
        BY <1>2, <3>2 DEF Adds
      <4>2. PICK k \in DOMAIN (chunks[c] \o t) : w = (chunks[c] \o t)[k]
        BY <4>1 DEF ToSet
      <4>3. \/ k \in DOMAIN chunks[c] /\ w = chunks[c][k]
            \/ k - Len(chunks[c]) \in DOMAIN t /\ w = t[k - Len(chunks[c])]
        BY <4>1, <4>2
      <4> QED BY <4>3 DEF ToSet
    <3>4. CASE w \in ToSet(chunks[c])
      <4>1. w.cfg.rate = rate_hz /\ popcount8(w.cfg.mask) = n_channels
        BY <2>1, <2>2, <3>4 DEF BlockRateIsRight
      <4>2. Host!Stream(c) # <<>>
        <5>1. chunks[c] # <<>>
          BY <3>4 DEF ToSet
        <5>2. chunks[c] \in Seq(Word) /\ drained[c] \in Seq(Word)
                /\ Host!Stream(c) = drained[c] \o chunks[c]
          BY <1>2
        <5>3. \A a, b \in Seq(Word) : b # <<>> => a \o b # <<>>
          BY LastJoined
        <5> QED BY <5>1, <5>2, <5>3
      <4>3. wire[i].epoch = epoch
        <5>1. PICK p \in DOMAIN wire : Foremost(p)
          BY <1>1, <4>2 DEF FrontInv, NoFront
        <5>2. epoch \in Nat
          BY <1>1, <5>1, WireType DEF Foremost
        <5>3. epoch # -1
          BY <5>2
        <5> QED BY <2>2, <5>3, SameProtocol DEF Host!Reopens
      <4>4. UNCHANGED <<rate_hz, n_channels>>
        BY <1>1, <1>4, <4>3, SamplesStep
      <4> QED BY <4>1, <4>4
    <3>5. CASE \E j \in DOMAIN t : w = t[j]
      <4>1. WordOf(w, i)
        BY <3>2, <3>5 DEF Adds, WordOf
      <4>2. w.run = wire[i].epoch
        BY <1>1, <2>1, <4>1, FreshHere DEF FreshIsRun
      <4>3. w.cfg.rate = wire[i].rate_hz
              /\ popcount8(w.cfg.mask) = wire[i].n_channels
        BY <1>1, <1>4, <4>1, <4>2 DEF WireInv, RunInv, WireRuns, WordOf
      <4> QED BY <3>1, <4>3
    <3> QED BY <3>3, <3>4, <3>5
  <2> QED BY <2>3, <2>4
<1> QED BY <1>1, <1>3, <1>4, BusStep

(* The rate and the number of channels a block is timed with are those its  *)
(* samples were converted with, unless the block says that the epoch        *)
(* changed (record.py:148-153) or the sample was left over in the ESP's     *)
(* pool: whatever the network does, since an epoch has one configuration    *)
(* and every packet is of one epoch.                                        *)
THEOREM BlocksAreTimedRight == BusSpec => []BlockRateIsRight
<1>1. BusInit => BlockRateIsRight
  BY SameProtocol DEF BusInit, Host!Init, BlockRateIsRight, ToSet
<1>2. RecvInv /\ RecvInv' /\ Received /\ BlockRateIsRight /\ [BusNext]_busVars
        => BlockRateIsRight'
  BY BlockRateStep
<1> QED BY <1>1, <1>2, RecvAlways, ReceivedAlways, PTL DEF BusSpec

-----------------------------------------------------------------------------
(* Whose turn it is.                                                        *)

(* How many conversions a turn takes. *)
Turn(cfg) == Len(Pattern(cfg.mask))

(* One, two or three. *)
LEMMA TurnType ==
  ASSUME NEW cfg \in Config
  PROVE  Turn(cfg) \in 1..3
<1>1. cfg.mask \in (SUBSET Channels) \ {{}}
  BY DEF Config
<1> QED BY <1>1, PatternTurns DEF Turn

(* Two conversions are of one channel when whole turns lie between them.    *)
LEMMA SameChannel ==
  ASSUME NEW cfg \in Config, NEW run, NEW t \in Nat, NEW u \in Nat
  PROVE  /\ Turn(cfg) \in 1..3
         /\ Result(cfg, run, t).ch = Result(cfg, run, u).ch
              <=> t % Turn(cfg) = u % Turn(cfg)
<1> DEFINE n == Turn(cfg)
           P == Pattern(cfg.mask)
<1>1. cfg.mask \in (SUBSET Channels) \ {{}}
  BY DEF Config
<1>2. n \in 1..3 /\ \A a, b \in 1..n : P[a] = P[b] => a = b
  BY <1>1, PatternTurns DEF Turn
<1>3. /\ Result(cfg, run, t).ch = P[1 + (t % n)]
      /\ Result(cfg, run, u).ch = P[1 + (u % n)]
  BY DEF Result, Turn
<1> HIDE DEF n, P
<1>4. /\ t % n \in 0..(n - 1) /\ u % n \in 0..(n - 1)
      /\ 1 + (t % n) \in 1..n /\ 1 + (u % n) \in 1..n
  BY <1>2
<1>5. P[1 + (t % n)] = P[1 + (u % n)] => t % n = u % n
  BY <1>2, <1>4
<1> QED BY <1>2, <1>3, <1>5 DEF n

(* A turn later it is the same channel's turn, and no sooner.               *)
LEMMA TurnsRepeat ==
  ASSUME NEW cfg \in Config, NEW run
  PROVE  /\ Turn(cfg) \in 1..3
         /\ \A t \in Nat :
              Result(cfg, run, t + Turn(cfg)).ch = Result(cfg, run, t).ch
         /\ \A t, u \in Nat :
              t < u /\ Result(cfg, run, t).ch = Result(cfg, run, u).ch
                => t + Turn(cfg) <= u
<1> DEFINE n == Turn(cfg)
           same(t, u) == Result(cfg, run, t).ch = Result(cfg, run, u).ch
<1>1. \A t, u \in Nat : n \in 1..3 /\ (same(t, u) <=> t % n = u % n)
  BY SameChannel
<1>2. 0 \in Nat
  OBVIOUS
<1>3. n \in {1, 2, 3}
  BY <1>1, <1>2
<1> HIDE DEF n, same
<1>4. \A t \in Nat : same(t + n, t)
  <2> SUFFICES ASSUME NEW t \in Nat PROVE (t + n) % n = t % n
    BY <1>1, <1>3
  <2>1. CASE n = 1
    BY <2>1
  <2>2. CASE n = 2
    BY <2>2
  <2>3. CASE n = 3
    BY <2>3
  <2> QED BY <1>3, <2>1, <2>2, <2>3
<1>5. \A t, u \in Nat : t < u /\ same(t, u) => t + n <= u
  <2> SUFFICES ASSUME NEW t \in Nat, NEW u \in Nat, t < u, t % n = u % n
               PROVE  t + n <= u
    BY <1>1
  <2>1. CASE n = 1
    BY <2>1
  <2>2. CASE n = 2
    BY <2>2
  <2>3. CASE n = 3
    BY <2>3
  <2> QED BY <1>3, <2>1, <2>2, <2>3
<1>6. n \in 1..3
  BY <1>3
<1> QED BY <1>4, <1>5, <1>6 DEF n, same

(* The channel of instant t has its turn among as many conversions from any *)
(* instant u on.                                                            *)
LEMMA ChannelReturns ==
  ASSUME NEW cfg \in Config, NEW run, NEW t \in Nat, NEW u \in Nat
  PROVE  \E v \in Nat : /\ u <= v /\ v < u + Turn(cfg)
                        /\ Result(cfg, run, v).ch = Result(cfg, run, t).ch
<1> DEFINE n == Turn(cfg)
           turn(v) == Result(cfg, run, v).ch = Result(cfg, run, t).ch
<1>1. \A v \in Nat : n \in 1..3 /\ (turn(v) <=> v % n = t % n)
  BY SameChannel
<1>2. n \in {1, 2, 3}
  BY <1>1
<1> HIDE DEF n, turn
<1>3. \E v \in Nat : u <= v /\ v < u + n /\ v % n = t % n
  <2>1. CASE n = 1
    <3>1. u % 1 = t % 1
      OBVIOUS
    <3> QED BY <2>1, <3>1
  <2>2. CASE n = 2
    <3>1. u % 2 = t % 2 \/ (u + 1) % 2 = t % 2
      OBVIOUS
    <3>2. u + 1 \in Nat /\ u <= u + 1 /\ u + 1 < u + 2 /\ u < u + 2
      OBVIOUS
    <3> QED BY <2>2, <3>1, <3>2
  <2>3. CASE n = 3
    <3>1. u % 3 = t % 3 \/ (u + 1) % 3 = t % 3 \/ (u + 2) % 3 = t % 3
      OBVIOUS
    <3>2. /\ u + 1 \in Nat /\ u <= u + 1 /\ u + 1 < u + 3 /\ u < u + 3
          /\ u + 2 \in Nat /\ u <= u + 2 /\ u + 2 < u + 3
      OBVIOUS
    <3> QED BY <2>3, <3>1, <3>2
  <2> QED BY <1>2, <2>1, <2>2, <2>3
<1>4. \E v \in Nat : u <= v /\ v < u + n /\ turn(v)
  BY <1>1, <1>3
<1> QED BY <1>4 DEF n, turn

(* Two conversions of one channel between which it has no turn are a turn   *)
(* apart.                                                                   *)
LEMMA NextTurn ==
  ASSUME NEW cfg \in Config, NEW run, NEW u \in Nat, NEW v \in Nat, u < v,
         Result(cfg, run, u).ch = Result(cfg, run, v).ch,
         \A x \in Nat : u < x /\ x < v =>
           Result(cfg, run, x).ch # Result(cfg, run, u).ch
  PROVE  v - u = Turn(cfg)
<1>1. Turn(cfg) \in 1..3 /\ u + Turn(cfg) \in Nat /\ u < u + Turn(cfg)
  <2>1. Turn(cfg) \in 1..3
    BY TurnType
  <2> QED BY <2>1
<1>2. /\ u + Turn(cfg) <= v
      /\ Result(cfg, run, u + Turn(cfg)).ch = Result(cfg, run, u).ch
  BY TurnsRepeat
<1>3. ~(u + Turn(cfg) < v)
  BY <1>1, <1>2
<1> QED BY <1>1, <1>2, <1>3

-----------------------------------------------------------------------------
(* Packets on the clock: what lies between two words.                       *)

(* The words of packet j that are of a run are the conversions of that run  *)
(* from the instant b plus the packet's index on.                           *)
OnClock(j, cfg, run, b) ==
  \A k \in 1..PktLen : wire[j].words[k].run = run =>
    /\ b + wire[j].first_index + k - 1 \in Nat
    /\ wire[j].words[k] = Result(cfg, run, b + wire[j].first_index + k - 1)

(* The words of one run in the packets of one epoch are on one clock, until *)
(* the pool overflows.                                                      *)
LEMMA OneClock ==
  ASSUME RecvInv, s_overflows = 0,
         NEW p \in DOMAIN wire, IsSamples(wire[p]),
         NEW i \in DOMAIN wire, IsSamples(wire[i]),
         wire[p].epoch = wire[i].epoch, NEW h \in DOMAIN wire[p].words
  PROVE  \E cfg \in Config, b \in Int :
           /\ OnClock(p, cfg, wire[p].words[h].run, b)
           /\ OnClock(i, cfg, wire[p].words[h].run, b)
<1>1. TypeOK /\ SourceInv /\ WireInv /\ IndexIsTime
  BY DEF RecvInv, WireInv, ClockInv
<1> DEFINE w == wire[p].words[h]
           b == w.at - (wire[p].first_index + h - 1)
<1>2. w.at \in Nat /\ w.cfg \in Config /\ wire[p].first_index \in Nat
        /\ h \in Nat
  <2>1. h \in 1..PktLen
    BY PacketIsFull
  <2> QED BY <1>1, <2>1, WordOnWire, WireType
<1>3. b \in Int
  BY <1>2
<1>4. ASSUME NEW j \in {p, i} PROVE OnClock(j, w.cfg, w.run, b)
  <2>1. /\ j \in DOMAIN wire /\ IsSamples(wire[j])
        /\ wire[j].epoch = wire[p].epoch
    BY <1>4
  <2>2. DOMAIN wire[j].words = 1..PktLen /\ wire[j].first_index \in Nat
    BY <1>1, <2>1, PacketIsFull, WireType
  <2>3. ASSUME NEW k \in 1..PktLen, wire[j].words[k].run = w.run
        PROVE  /\ b + wire[j].first_index + k - 1 \in Nat
               /\ wire[j].words[k]
                    = Result(w.cfg, w.run, b + wire[j].first_index + k - 1)
    <3> DEFINE v == wire[j].words[k]
    <3>1. v.at \in Nat /\ v = Result(v.cfg, v.run, v.at)
      BY <1>1, <2>1, <2>2, WordOnWire DEF SourceInv, Genuine
    <3>2. v.cfg = w.cfg /\ v.run = w.run
      <4>1. WordOf(w, p) /\ WordOf(v, j) /\ v.run = w.run
        BY <2>2, <2>3 DEF WordOf
      <4> HIDE DEF w, v
      <4> QED BY <1>1, <2>1, <4>1, RunsOnWire
    <3>3. v.at - w.at
            = (wire[j].first_index + k) - (wire[p].first_index + h)
      BY <1>1, <2>1, <2>2, <2>3 DEF IndexIsTime
    <3>4. v.at = b + wire[j].first_index + k - 1
      <4> DEFINE f == wire[p].first_index
                 g == wire[j].first_index
                 a == w.at
                 e == v.at
      <4>1. /\ f \in Nat /\ g \in Nat /\ a \in Nat /\ e \in Nat
            /\ h \in Nat /\ k \in Nat /\ e - a = (g + k) - (f + h)
        BY <1>2, <2>2, <3>1, <3>3
      <4> HIDE DEF f, g, a, e
      <4>2. e = (a - (f + h - 1)) + g + k - 1
        BY <4>1
      <4> QED BY <4>2 DEF f, g, a, e
    <3> QED BY <3>1, <3>2, <3>4
  <2> QED BY <2>3 DEF OnClock
<1> HIDE DEF b
<1> QED BY <1>2, <1>3, <1>4

(* Within a packet nothing is lost between two fresh words.                 *)
LEMMA PacketIsSeamless ==
  ASSUME RecvInv, s_overflows = 0,
         NEW i \in DOMAIN wire, IsSamples(wire[i]), NEW c, NEW t, Adds(i, c, t),
         NEW j \in 1..(Len(t) - 1), t[j].run = wire[i].epoch
  PROVE  Seamless(t[j], t[j + 1])
<1> DEFINE r == wire[i].epoch
<1>1. /\ t \in Seq(Word) /\ Rising(t) /\ Len(t) \in Nat
      /\ j \in DOMAIN t /\ j + 1 \in DOMAIN t /\ j \in Nat
  BY DEF Adds
<1>2. DOMAIN wire[i].words = 1..PktLen /\ PktLen \in Nat
  BY PacketIsFull, PktLenAssumption
<1>3. PICK k \in 1..PktLen : t[j] = wire[i].words[k]
  BY <1>1, <1>2 DEF Adds
<1>4. PICK l \in 1..PktLen : t[j + 1] = wire[i].words[l]
  BY <1>1, <1>2 DEF Adds
<1>5. PICK cfg \in Config, b \in Int : OnClock(i, cfg, r, b)
  BY <1>2, <1>3, OneClock
<1>6. WireInv /\ Rising(wire[i].words) /\ TypeOK
  BY DEF RecvInv, WireInv, TimeInv, SentInOrder
<1>7. \A m \in 1..PktLen : k <= m => wire[i].words[m].run = r
  <2> SUFFICES ASSUME NEW m \in 1..PktLen, k <= m
               PROVE  wire[i].words[m].run = r
    OBVIOUS
  <2>1. wire[i].words[k].at <= wire[i].words[m].at
    <3>1. /\ wire[i].words[k].at \in Nat /\ wire[i].words[m].at \in Nat
      BY <1>2, <1>6, WordOnWire
    <3>2. k = m \/ k < m
      BY <1>2
    <3> QED BY <1>2, <1>6, <3>1, <3>2 DEF Rising
  <2>2. WordOf(wire[i].words[k], i) /\ WordOf(wire[i].words[m], i)
    BY <1>2 DEF WordOf
  <2>3. wire[i].words[k].run = r
    BY <1>3
  <2> QED BY <1>6, <2>1, <2>2, <2>3, OwnFromThen
<1> DEFINE f == b + wire[i].first_index
           u == f + k - 1
           v == f + l - 1
<1>8. wire[i].first_index \in Nat
  BY WireType DEF RecvInv, WireInv
<1>9. t[j + 1].run = r
  <2>1. t[j].at < t[j + 1].at
    BY <1>1 DEF Rising
  <2>2. t[j].at \in Nat /\ t[j + 1].at \in Nat
    <3>1. t[j] \in Word /\ t[j + 1] \in Word
      BY <1>1
    <3> QED BY <3>1 DEF Word
  <2> DEFINE a == t[j].at
             e == t[j + 1].at
  <2> HIDE DEF a, e
  <2>3. a <= e
    BY <2>1, <2>2 DEF a, e
  <2>4. WordOf(t[j], i) /\ WordOf(t[j + 1], i)
    BY <1>2, <1>3, <1>4 DEF WordOf
  <2> QED BY <1>6, <2>3, <2>4, OwnFromThen DEF a, e
<1>10. f \in Int /\ u \in Nat /\ v \in Nat
         /\ t[j] = Result(cfg, r, u) /\ t[j + 1] = Result(cfg, r, v)
  BY <1>3, <1>4, <1>5, <1>8, <1>9 DEF OnClock
<1> HIDE DEF r
<1>11. /\ Result(cfg, r, u).at = u /\ Result(cfg, r, v).at = v
       /\ Result(cfg, r, u).cfg = cfg /\ Result(cfg, r, v).cfg = cfg
  BY DEF Result
<1>12. u < v
  BY <1>1, <1>10, <1>11 DEF Rising
<1>13. t[j].ch = c /\ t[j + 1].ch = c
  BY <1>1 DEF Adds
<1>14. ASSUME NEW x \in Nat, u < x, x < v, Result(cfg, r, x).ch = c
       PROVE  FALSE
  <2>1. x - f + 1 \in 1..PktLen /\ f + (x - f + 1) - 1 = x
          /\ k <= x - f + 1
    BY <1>2, <1>10, <1>14, SMTT(30)
  <2>2. wire[i].words[x - f + 1] = Result(cfg, r, x)
    BY <1>5, <1>7, <2>1 DEF OnClock
  <2>3. PICK m \in DOMAIN t : t[m] = Result(cfg, r, x)
    BY <1>2, <1>14, <2>1, <2>2, SMTT(30) DEF Adds
  <2>4. t[m].at = x
    BY <2>3 DEF Result
  <2>5. m \in 1..Len(t) /\ m # j /\ m # j + 1
    BY <1>1, <1>10, <1>11, <1>14, <2>4
  <2>6. m < j \/ j + 1 < m
    BY <1>1, <2>5
  <2>7. t[j].at = u /\ t[j + 1].at = v
    BY <1>10, <1>11
  <2>8. ~(m < j)
    <3>1. m < j => x < u
      BY <1>1, <2>4, <2>7 DEF Rising
    <3> QED BY <1>10, <1>14, <3>1
  <2>9. ~(j + 1 < m)
    <3>1. j + 1 < m => v < x
      BY <1>1, <2>4, <2>7 DEF Rising
    <3> QED BY <1>10, <1>14, <3>1
  <2> QED BY <2>6, <2>8, <2>9
<1> HIDE DEF u, v
<1>15. v - u = Turn(cfg)
  BY <1>10, <1>12, <1>13, <1>14, NextTurn
<1> QED BY <1>10, <1>11, <1>15 DEF Seamless, Turn

(* Two packets of one epoch, k the place of a fresh word in the first.      *)
Pair(p, i, k) ==
  /\ p \in DOMAIN wire /\ IsSamples(wire[p])
  /\ i \in DOMAIN wire /\ IsSamples(wire[i])
  /\ p < i /\ wire[p].epoch = wire[i].epoch
  /\ k \in DOMAIN wire[p].words /\ wire[p].words[k].run = wire[p].epoch

(* All words of packet j from the k-th on are of the run, and on its clock. *)
OnClockFrom(j, k, cfg, run, b) ==
  \A m \in 1..PktLen : k <= m =>
    /\ b + wire[j].first_index + m - 1 \in Nat
    /\ wire[j].words[m] = Result(cfg, run, b + wire[j].first_index + m - 1)

(* From there on all is fresh, and on one clock.                            *)
LEMMA PairOnClock ==
  ASSUME RecvInv, s_overflows = 0, NEW p, NEW i, NEW k, Pair(p, i, k)
  PROVE  \E cfg \in Config, b \in Int :
           /\ OnClockFrom(p, k, cfg, wire[p].epoch, b)
           /\ OnClockFrom(i, 1, cfg, wire[p].epoch, b)
<1>1. WireInv /\ TypeOK /\ SentInOrder /\ Rising(wire[p].words)
        /\ Follows(wire[i].words, wire[p].words)
  BY DEF RecvInv, WireInv, TimeInv, SentInOrder, Pair
<1>2. DOMAIN wire[p].words = 1..PktLen /\ DOMAIN wire[i].words = 1..PktLen
        /\ k \in 1..PktLen
  BY PacketIsFull DEF Pair
<1>3. \A j \in {p, i} : \A m \in 1..PktLen : wire[j].words[m].at \in Nat
  BY <1>1, <1>2, WordOnWire DEF Pair
<1>4. ASSUME NEW m \in 1..PktLen, k <= m
      PROVE  wire[p].words[m].run = wire[p].epoch
  <2>1. k = m \/ k < m
    BY <1>2, <1>4
  <2>2. wire[p].words[k].at <= wire[p].words[m].at
    <3>1. wire[p].words[k].at \in Nat /\ wire[p].words[m].at \in Nat
      BY <1>2, <1>3
    <3> QED BY <1>1, <1>2, <2>1, <3>1 DEF Rising
  <2>3. WordOf(wire[p].words[k], p) /\ WordOf(wire[p].words[m], p)
    BY <1>2 DEF WordOf
  <2>4. wire[p].words[k].run = wire[p].epoch
    BY DEF Pair
  <2> QED BY <1>1, <2>2, <2>3, <2>4, OwnFromThen DEF Pair
<1>5. ASSUME NEW m \in 1..PktLen
      PROVE  wire[i].words[m].run = wire[p].epoch
  <2>1. wire[p].words[k].at < wire[i].words[m].at
    BY <1>1, <1>2 DEF Follows
  <2>2. wire[p].words[k].at <= wire[i].words[m].at
    BY <1>2, <1>3, <2>1
  <2>3. WordOf(wire[p].words[k], p) /\ WordOf(wire[i].words[m], i)
    BY <1>2 DEF WordOf
  <2>4. wire[p].words[k].run = wire[i].epoch /\ wire[p].epoch = wire[i].epoch
    BY DEF Pair
  <2> QED BY <1>1, <2>2, <2>3, <2>4, OwnFromThen DEF Pair
<1>6. PICK cfg \in Config, b \in Int :
        /\ OnClock(p, cfg, wire[p].epoch, b)
        /\ OnClock(i, cfg, wire[p].epoch, b)
  BY OneClock DEF Pair
<1>7. OnClockFrom(p, k, cfg, wire[p].epoch, b)
  BY <1>4, <1>6 DEF OnClock, OnClockFrom
<1>8. OnClockFrom(i, 1, cfg, wire[p].epoch, b)
  BY <1>5, <1>6 DEF OnClock, OnClockFrom
<1> QED BY <1>7, <1>8

(* Between the last word of a packet and the first of its channel in the    *)
(* next nothing is lost,                                                    *)
LEMMA NextIsSeamless ==
  ASSUME RecvInv, s_overflows = 0, NEW p, NEW i, NEW k, Pair(p, i, k),
         wire[i].first_index = wire[p].first_index + PktLen,
         NEW c, NEW t, Adds(i, c, t), t # <<>>, wire[p].words[k].ch = c,
         \A m \in DOMAIN wire[p].words : wire[p].words[m].ch = c =>
           wire[p].words[m].at <= wire[p].words[k].at
  PROVE  Seamless(wire[p].words[k], t[1])
<1> DEFINE r == wire[p].epoch
<1>1. PICK cfg \in Config, b \in Int :
        OnClockFrom(p, k, cfg, r, b) /\ OnClockFrom(i, 1, cfg, r, b)
  BY PairOnClock
<1>2. t \in Seq(Word) /\ Rising(t) /\ 1 \in DOMAIN t
  BY DEF Adds
<1>3. /\ DOMAIN wire[i].words = 1..PktLen /\ PktLen \in Nat
      /\ DOMAIN wire[p].words = 1..PktLen /\ p \in DOMAIN wire
  BY PacketIsFull, PktLenAssumption DEF Pair
<1>4. PICK l \in 1..PktLen : t[1] = wire[i].words[l]
  BY <1>2, <1>3 DEF Adds
<1> DEFINE f == b + wire[p].first_index
           u == f + k - 1
           v == f + PktLen + l - 1
<1>5. wire[p].first_index \in Nat /\ k \in 1..PktLen
  BY <1>3, WireType DEF RecvInv, WireInv, Pair
<1>6. f \in Int /\ b + wire[i].first_index = f + PktLen
  BY <1>3, <1>5
<1> HIDE DEF r
<1>7. /\ \A m \in 1..PktLen : k <= m =>
           f + m - 1 \in Nat /\ wire[p].words[m] = Result(cfg, r, f + m - 1)
      /\ \A m \in 1..PktLen :
           /\ f + PktLen + m - 1 \in Nat
           /\ wire[i].words[m] = Result(cfg, r, f + PktLen + m - 1)
  <2> DEFINE g == b + wire[i].first_index
  <2>1. \A m \in 1..PktLen :
          g + m - 1 \in Nat /\ wire[i].words[m] = Result(cfg, r, g + m - 1)
    BY <1>1 DEF OnClockFrom
  <2>2. g = f + PktLen
    BY <1>6
  <2>3. \A m \in 1..PktLen : k <= m =>
          f + m - 1 \in Nat /\ wire[p].words[m] = Result(cfg, r, f + m - 1)
    BY <1>1 DEF OnClockFrom
  <2> HIDE DEF f, g
  <2> QED BY <2>1, <2>2, <2>3
<1>8. /\ u \in Nat /\ v \in Nat /\ u < v
      /\ wire[p].words[k] = Result(cfg, r, u) /\ t[1] = Result(cfg, r, v)
  <2>1. u \in Nat /\ wire[p].words[k] = Result(cfg, r, u)
    <3>1. k <= k
      BY <1>5
    <3> QED BY <1>5, <1>7, <3>1
  <2>2. v \in Nat /\ t[1] = Result(cfg, r, v)
    BY <1>4, <1>7
  <2>3. k \in 1..PktLen /\ l \in 1..PktLen /\ f \in Int /\ PktLen \in Nat
    BY <1>3, <1>4, <1>5, <1>6
  <2> HIDE DEF f
  <2>4. u < v
    BY <2>3
  <2> QED BY <2>1, <2>2, <2>4
<1>9. t[1].ch = c
  BY <1>2 DEF Adds
<1> HIDE DEF f
<1>10. ASSUME NEW x \in Nat, u < x, x < v, Result(cfg, r, x).ch = c
       PROVE  FALSE
  <2>1. CASE x < f + PktLen
    <3>1. x - f + 1 \in 1..PktLen /\ f + (x - f + 1) - 1 = x
            /\ k <= x - f + 1
      BY <1>3, <1>5, <1>6, <1>10, <2>1
    <3>2. wire[p].words[x - f + 1] = Result(cfg, r, x)
      BY <1>7, <3>1
    <3>3. Result(cfg, r, x).at <= Result(cfg, r, u).at
      BY <1>3, <1>8, <1>10, <3>1, <3>2
    <3>4. Result(cfg, r, x).at = x /\ Result(cfg, r, u).at = u
      BY DEF Result
    <3> QED BY <1>8, <1>10, <3>3, <3>4
  <2>2. CASE x >= f + PktLen
    <3> DEFINE y == x - f - PktLen + 1
    <3>1. y \in 1..PktLen /\ f + PktLen + y - 1 = x
      BY <1>3, <1>4, <1>6, <1>10, <2>2
    <3>2. wire[i].words[y] = Result(cfg, r, x)
      <4> HIDE DEF y
      <4> QED BY <1>7, <3>1
    <3>3. PICK m \in DOMAIN t : t[m] = Result(cfg, r, x)
      BY <1>3, <1>10, <3>1, <3>2 DEF Adds
    <3>4. m \in 1..Len(t) /\ t[m].at = x /\ t[1].at = v
      BY <1>2, <1>8, <3>3 DEF Result
    <3>5. m # 1 /\ 1 < m
      BY <1>8, <1>10, <3>4
    <3>6. v < x
      BY <1>2, <3>4, <3>5 DEF Rising
    <3> QED BY <1>8, <1>10, <3>6
  <2> QED BY <1>3, <1>6, <1>10, <2>1, <2>2
<1> HIDE DEF u, v
<1>11. v - u = Turn(cfg)
  BY <1>8, <1>9, <1>10, NextTurn
<1>12. /\ Result(cfg, r, u).at = u /\ Result(cfg, r, v).at = v
       /\ Result(cfg, r, u).cfg = cfg /\ Result(cfg, r, v).cfg = cfg
  BY DEF Result
<1> QED BY <1>8, <1>11, <1>12 DEF Seamless, Turn

(* but between packets that do not meet something is,                       *)
LEMMA FarIsNotSeamless ==
  ASSUME RecvInv, s_overflows = 0, PktLen >= 3,
         NEW p, NEW i, NEW k, Pair(p, i, k),
         wire[i].first_index > wire[p].first_index + PktLen,
         NEW l \in DOMAIN wire[i].words
  PROVE  ~Seamless(wire[p].words[k], wire[i].words[l])
<1> DEFINE r == wire[p].epoch
<1>1. PICK cfg \in Config, b \in Int :
        OnClockFrom(p, k, cfg, r, b) /\ OnClockFrom(i, 1, cfg, r, b)
  BY PairOnClock
<1>2. /\ k \in 1..PktLen /\ l \in 1..PktLen /\ PktLen \in Nat
      /\ wire[p].first_index \in Nat /\ wire[i].first_index \in Nat
  BY PacketIsFull, PktLenAssumption, WireType DEF RecvInv, WireInv, Pair
<1>3. wire[i].first_index >= wire[p].first_index + 2 * PktLen
  <2> DEFINE g == wire[p].first_index + PktLen
             h == wire[i].first_index
  <2>1. IsCut(wire[p].first_index) /\ IsCut(h)
    BY DEF RecvInv, WireInv, CutInv, Pair
  <2>2. IsCut(g) /\ g \in Nat /\ h \in Nat /\ g < h
    BY <1>2, <2>1, NextCut
  <2> HIDE DEF g, h
  <2>3. g + PktLen <= h
    BY <2>1, <2>2, CutsApart
  <2> QED BY <1>2, <2>3 DEF g, h
<1> DEFINE u == b + wire[p].first_index + k - 1
           v == b + wire[i].first_index + l - 1
<1> HIDE DEF r
<1>4. wire[p].words[k] = Result(cfg, r, u)
        /\ wire[i].words[l] = Result(cfg, r, v)
  <2>1. k <= k /\ 1 <= l
    BY <1>2
  <2> QED BY <1>1, <1>2, <2>1 DEF OnClockFrom
<1>5. v - u > 3
  BY <1>2, <1>3
<1>6. /\ Result(cfg, r, u).at = u /\ Result(cfg, r, v).at = v
      /\ Result(cfg, r, u).cfg = cfg
  BY DEF Result
<1>7. Turn(cfg) \in 1..3
  BY TurnType
<1> HIDE DEF u, v
<1>8. v - u # Turn(cfg)
  BY <1>5, <1>7
<1> QED BY <1>4, <1>6, <1>8 DEF Seamless, Turn

(* and between runs of the ADC.                                             *)
LEMMA RunsAreNotSeamless ==
  ASSUME WireInv, NEW q \in DOMAIN wire, NEW i \in DOMAIN wire,
         NEW w, NEW v, WordOf(w, q), WordOf(v, i), w.run < v.run
  PROVE  ~Seamless(w, v)
<1>1. w \in Word /\ v \in Word /\ w.at + 6 < v.at
  BY RunsOnWire
<1>2. w.at \in Nat /\ v.at \in Nat /\ w.cfg \in Config
  BY <1>1 DEF Word
<1>3. Turn(w.cfg) \in 1..3
  BY <1>2, TurnType
<1>4. v.at - w.at # Turn(w.cfg)
  BY <1>1, <1>2, <1>3
<1> QED BY <1>4 DEF Seamless, Turn

(* A channel fresh in one packet is in every later one of the epoch.        *)
LEMMA EveryChannel ==
  ASSUME RecvInv, s_overflows = 0, PktLen >= 3,
         NEW p, NEW i, NEW k, Pair(p, i, k)
  PROVE  \E l \in DOMAIN wire[i].words :
           wire[i].words[l].ch = wire[p].words[k].ch
<1> DEFINE r == wire[p].epoch
<1>1. PICK cfg \in Config, b \in Int :
        OnClockFrom(p, k, cfg, r, b) /\ OnClockFrom(i, 1, cfg, r, b)
  BY PairOnClock
<1>2. /\ k \in 1..PktLen /\ DOMAIN wire[i].words = 1..PktLen /\ PktLen \in Nat
      /\ wire[p].first_index \in Nat /\ wire[i].first_index \in Nat
  BY PacketIsFull, PktLenAssumption, WireType DEF RecvInv, WireInv, Pair
<1> DEFINE t == b + wire[p].first_index + k - 1
           u == b + wire[i].first_index
<1> HIDE DEF r
<1>3. t \in Nat /\ wire[p].words[k] = Result(cfg, r, t)
  <2>1. k <= k
    BY <1>2
  <2> QED BY <1>1, <1>2, <2>1 DEF OnClockFrom
<1>4. \A l \in 1..PktLen :
        u + l - 1 \in Nat /\ wire[i].words[l] = Result(cfg, r, u + l - 1)
  BY <1>1 DEF OnClockFrom
<1>5. u \in Nat
  <2>1. u \in Int /\ 1 \in 1..PktLen
    BY <1>2
  <2> HIDE DEF u
  <2>2. u + 1 - 1 \in Nat
    BY <1>4, <2>1
  <2> QED BY <2>1, <2>2
<1> HIDE DEF t, u
<1>6. PICK v \in Nat : /\ u <= v /\ v < u + Turn(cfg)
                       /\ Result(cfg, r, v).ch = Result(cfg, r, t).ch
  BY <1>3, <1>5, ChannelReturns
<1>7. Turn(cfg) \in 1..3
  BY TurnType
<1>8. v - u + 1 \in 1..PktLen /\ u + (v - u + 1) - 1 = v
  BY <1>2, <1>5, <1>6, <1>7
<1>9. wire[i].words[v - u + 1] = Result(cfg, r, v)
  BY <1>4, <1>8
<1> QED BY <1>2, <1>3, <1>6, <1>8, <1>9

-----------------------------------------------------------------------------
(* Gaps.                                                                    *)

(* w is of an earlier run of the ADC than packet i's epoch stands for. *)
OldWord(w, i) == w.run < wire[i].epoch

(* A stream that ends in a fresh word ends in the front, unless its end is  *)
(* marked: then it ends in an earlier run, and its channel is not sampled   *)
(* any more.                                                                *)
EndsIn(s, m, c, p) ==
  s # <<>> =>
    /\ Last(s).ch = c
    /\ Fresh(Last(s)) =>
         IF Len(s) \in m THEN OldWord(Last(s), p) ELSE WordOf(Last(s), p)

Ends(p) ==
  \A c \in Channels : EndsIn(Host!Stream(c), Host!Marks(c), c, p)

(* The marks of a list are its holes, where both neighbours are fresh, and  *)
(* perhaps its end.                                                         *)
MarksHoles(s, m) ==
  /\ m \subseteq 1..Len(s)
  /\ \A k \in 1..(Len(s) - 1) : Fresh(s[k]) /\ Fresh(s[k + 1]) =>
       (k \in m <=> ~Seamless(s[k], s[k + 1]))

GapInv ==
  s_overflows = 0 /\ EpochsInOrder =>
    /\ last_ovf \in {-1, 0}
    /\ \A c \in Channels : MarksHoles(Host!Stream(c), Host!Marks(c))
    /\ NoFront \/ \E p \in DOMAIN wire : Foremost(p) /\ Ends(p)

(* Joining a list to one without holes.                                     *)
LEMMA HolesJoined ==
  ASSUME NEW s \in Seq(Word), NEW t \in Seq(Word), NEW m, NEW n,
         MarksHoles(s, m), s = <<>> => n = m,
         n = m \/ n = m \cup {Len(s)},
         \A j \in 1..(Len(t) - 1) : Fresh(t[j]) => Seamless(t[j], t[j + 1]),
         s # <<>> /\ t # <<>> /\ Fresh(Last(s)) /\ Fresh(t[1]) =>
           (Len(s) \in n <=> ~Seamless(Last(s), t[1]))
  PROVE  /\ MarksHoles(s \o t, n)
         /\ t # <<>> => Len(s \o t) \notin n
<1>1. /\ Len(s \o t) = Len(s) + Len(t) /\ Len(s) \in Nat /\ Len(t) \in Nat
      /\ s # <<>> => Len(s) >= 1
      /\ t # <<>> => Len(t) >= 1
  OBVIOUS
<1>2. n \subseteq 1..Len(s)
  <2>1. m \subseteq 1..Len(s)
    BY DEF MarksHoles
  <2>2. s # <<>> => Len(s) \in 1..Len(s)
    BY <1>1
  <2> QED BY <2>1, <2>2
<1>3. n \subseteq 1..Len(s \o t) /\ (t # <<>> => Len(s \o t) \notin n)
  BY <1>1, <1>2
<1>4. ASSUME NEW k \in 1..(Len(s \o t) - 1),
             Fresh((s \o t)[k]), Fresh((s \o t)[k + 1])
      PROVE  k \in n <=> ~Seamless((s \o t)[k], (s \o t)[k + 1])
  <2>1. CASE k \in 1..(Len(s) - 1) /\ (s \o t)[k] = s[k]
               /\ (s \o t)[k + 1] = s[k + 1]
    <3>1. k # Len(s)
      BY <1>1, <2>1
    <3>2. k \in n <=> k \in m
      BY <3>1
    <3> QED BY <1>4, <2>1, <3>2 DEF MarksHoles
  <2>2. CASE /\ k = Len(s) /\ s # <<>> /\ t # <<>> /\ (s \o t)[k] = Last(s)
             /\ (s \o t)[k + 1] = t[1]
    BY <1>4, <2>2
  <2>3. CASE /\ k > Len(s) /\ k - Len(s) \in 1..(Len(t) - 1)
             /\ (s \o t)[k] = t[k - Len(s)]
             /\ (s \o t)[k + 1] = t[k - Len(s) + 1]
    <3>1. k \notin n
      BY <1>1, <1>2, <2>3
    <3> QED BY <1>4, <2>3, <3>1
  <2> QED BY <2>1, <2>2, <2>3, Neighbours
<1> QED BY <1>3, <1>4 DEF MarksHoles

(* A fresh word of a kept packet is followed by its successor there.        *)
LEMMA NoHoleInside ==
  ASSUME RecvInv, s_overflows = 0, NEW i \in DOMAIN wire, IsSamples(wire[i]),
         NEW c, NEW t, Adds(i, c, t)
  PROVE  \A j \in 1..(Len(t) - 1) : Fresh(t[j]) => Seamless(t[j], t[j + 1])
<1> SUFFICES ASSUME NEW j \in 1..(Len(t) - 1), Fresh(t[j])
             PROVE  Seamless(t[j], t[j + 1])
  OBVIOUS
<1>1. j \in DOMAIN t
  BY DEF Adds
<1>2. WordOf(t[j], i)
  BY <1>1 DEF Adds, WordOf
<1>3. t[j].run = wire[i].epoch
  BY <1>2, FreshHere DEF RecvInv, FreshIsRun
<1> QED BY <1>3, PacketIsSeamless

(* Where a kept packet's words end, the stream ends in the packet.          *)
LEMMA EndsInPacket ==
  ASSUME NEW s \in Seq(Word), NEW i \in DOMAIN wire, NEW c, NEW t,
         Adds(i, c, t), t # <<>>, NEW n, Len(s \o t) \notin n
  PROVE  EndsIn(s \o t, n, c, i)
<1>1. t \in Seq(Word)
  BY DEF Adds
<1>2. Last(s \o t) = t[Len(t)] /\ Len(t) \in DOMAIN t
  BY <1>1, LastJoined
<1>3. WordOf(Last(s \o t), i) /\ Last(s \o t).ch = c
  BY <1>2 DEF Adds, WordOf
<1> QED BY <1>3 DEF EndsIn

(* A kept packet after another: where a stream ends in a fresh word and     *)
(* goes on with one, that place is marked if and only if the packet does    *)
(* not go on where it ended.                                                *)
LEMMA GapChannel ==
  ASSUME RecvInv, Received, s_overflows = 0, PktLen >= 3,
         NEW p \in DOMAIN wire, Foremost(p), Ends(p), last_ovf \in {-1, 0},
         NEW i \in DOMAIN wire, IsSamples(wire[i]), ~Host!Stale(wire[i]),
         p < i, NEW c \in Channels, NEW s, s = Host!Stream(c),
         NEW m, m = Host!Marks(c), MarksHoles(s, m), NEW n,
         n = IF Breaks(wire[i]) /\ s # <<>> THEN m \cup {Len(s)} ELSE m,
         NEW t, Adds(i, c, t)
  PROVE  MarksHoles(s \o t, n) /\ EndsIn(s \o t, n, c, i)
<1> DEFINE d == wire[i]
           w == Last(s)
<1>1. TypeOK /\ HostTypeOK /\ SamplesInOrder /\ IsSamples(wire[p])
        /\ OverflowInv /\ WireInv
  BY DEF RecvInv, WireInv, OrderInv, Foremost
<1>2. s \in Seq(Word) /\ t \in Seq(Word)
  BY <1>1, SameProtocol DEF HostTypeOK, Host!TypeOK, Host!Stream, Adds
<1>3. /\ d.epoch \in Nat /\ d.first_index \in Nat /\ wire[p].epoch \in Nat
      /\ wire[p].first_index \in Nat /\ PktLen \in Nat
      /\ epoch = wire[p].epoch /\ next_index = wire[p].first_index + PktLen
      /\ d.overflow_count = 0
  <2>1. Len(wire[p].words) = PktLen
    BY <1>1, PacketIsFull
  <2> QED BY <1>1, <2>1, WireType, PktLenAssumption DEF Foremost, OverflowInv
<1>4. /\ Breaks(d) <=> \/ d.epoch # epoch
                       \/ d.first_index > next_index
      /\ d.epoch = epoch => d.first_index >= next_index
  <2>1. epoch # -1 /\ next_index # -1
    BY <1>3
  <2>2. ~Host!Overflowed(d) /\ (Host!Reopens(d) <=> d.epoch # epoch)
    BY <1>3, <2>1, SameProtocol DEF Host!Overflowed, Host!Reopens
  <2>3. Host!Jumps(d) <=> d.epoch = epoch /\ d.first_index > next_index
    BY <1>3, <2>1, SameProtocol DEF Host!Jumps, Host!Expected
  <2>4. d.epoch = epoch => d.first_index >= next_index
    BY <1>3, <2>1, SameProtocol DEF Host!Stale, Host!Expected
  <2> QED BY <2>2, <2>3, <2>4 DEF Breaks
<1>5. d.epoch # epoch => wire[p].epoch < d.epoch
  BY <1>1, <1>3 DEF SamplesInOrder
<1>6. s # <<>> =>
        /\ w.ch = c /\ w.run \in Nat
        /\ \E q \in DOMAIN wire : IsSamples(wire[q]) /\ WordOf(w, q)
        /\ Fresh(w) => IF Len(s) \in m THEN OldWord(w, p) ELSE WordOf(w, p)
  <2> SUFFICES ASSUME s # <<>>
               PROVE  /\ w.ch = c /\ w.run \in Nat
                      /\ \E q \in DOMAIN wire :
                           IsSamples(wire[q]) /\ WordOf(w, q)
                      /\ Fresh(w) => IF Len(s) \in m THEN OldWord(w, p)
                                     ELSE WordOf(w, p)
    OBVIOUS
  <2>1. Len(s) \in DOMAIN s /\ w = s[Len(s)]
    BY <1>2 DEF Last
  <2>2. w \in ToSet(s)
    BY <2>1 DEF ToSet
  <2>3. w \in Word
    BY <1>2, <2>1
  <2>4. w.run \in Nat
    BY <2>3 DEF Word
  <2>5. \E q \in DOMAIN wire : IsSamples(wire[q]) /\ WordOf(w, q)
    BY <2>2 DEF Received
  <2> QED BY <2>4, <2>5 DEF Ends, EndsIn
<1>7. ASSUME s # <<>>, Fresh(w), WordOf(w, p) PROVE w.run = wire[p].epoch
  BY <1>1, <1>7, FreshHere DEF FreshIsRun
<1>8. ASSUME t # <<>>, Fresh(t[1]) PROVE WordOf(t[1], i) /\ t[1].run = d.epoch
  <2>1. 1 \in DOMAIN t
    BY <1>2, <1>8
  <2>2. WordOf(t[1], i)
    BY <2>1 DEF Adds, WordOf
  <2> QED BY <1>1, <1>8, <2>2, FreshHere DEF FreshIsRun
<1>9. ASSUME s # <<>>, t # <<>>, Fresh(t[1]), OldWord(w, i)
      PROVE  ~Seamless(w, t[1])
  BY <1>1, <1>6, <1>8, <1>9, RunsAreNotSeamless DEF OldWord
<1>10. ASSUME d.epoch = epoch, WordOf(w, p), s # <<>>, Fresh(w)
       PROVE  /\ t # <<>>
              /\ d.first_index > next_index => ~Seamless(w, t[1])
              /\ d.first_index = next_index => Seamless(w, t[1])
  <2>1. PICK k \in DOMAIN wire[p].words : w = wire[p].words[k]
    BY <1>10 DEF WordOf
  <2>2. w.ch = c /\ wire[p].words[k].ch = c
    BY <1>6, <1>10, <2>1
  <2>3. Pair(p, i, k)
    BY <1>1, <1>3, <1>7, <1>10, <2>1 DEF Pair
  <2>4. t # <<>> /\ 1 \in DOMAIN t
    <3>1. PICK l \in DOMAIN wire[i].words :
            wire[i].words[l].ch = wire[p].words[k].ch
      BY <2>3, EveryChannel
    <3>2. PICK j \in DOMAIN t : t[j] = wire[i].words[l]
      BY <2>2, <3>1 DEF Adds
    <3> QED BY <1>2, <3>2
  <2>5. ASSUME d.first_index > next_index PROVE ~Seamless(w, t[1])
    <3>1. PICK l \in DOMAIN wire[i].words : t[1] = wire[i].words[l]
      BY <2>4 DEF Adds
    <3>2. wire[i].first_index > wire[p].first_index + PktLen
      BY <1>3, <2>5
    <3> QED BY <2>1, <2>3, <3>1, <3>2, FarIsNotSeamless
  <2>6. ASSUME d.first_index = next_index PROVE Seamless(w, t[1])
    <3>1. \A l \in DOMAIN wire[p].words : wire[p].words[l].ch = c =>
            wire[p].words[l].at <= wire[p].words[k].at
      BY <2>1 DEF Foremost
    <3>2. wire[i].first_index = wire[p].first_index + PktLen
      BY <1>3, <2>6
    <3> QED BY <2>1, <2>2, <2>3, <2>4, <3>1, <3>2, NextIsSeamless
  <2> QED BY <2>4, <2>5, <2>6
<1> HIDE DEF d, w
<1>11. s # <<>> /\ Fresh(w) =>
         \/ /\ t # <<>>
            /\ Fresh(t[1]) => (Len(s) \in n <=> ~Seamless(w, t[1]))
         \/ t = <<>> /\ Len(s) \in n /\ OldWord(w, i)
  <2> SUFFICES ASSUME s # <<>>, Fresh(w)
               PROVE  \/ /\ t # <<>>
                         /\ Fresh(t[1]) => (Len(s) \in n <=> ~Seamless(w, t[1]))
                      \/ t = <<>> /\ Len(s) \in n /\ OldWord(w, i)
    OBVIOUS
  <2>1. CASE d.epoch # epoch
    <3>1. Len(s) \in n
      BY <1>4, <2>1 DEF d
    <3>2. OldWord(w, i)
      <4>1. w.run = wire[p].epoch \/ w.run < wire[p].epoch
        BY <1>6, <1>7 DEF OldWord
      <4>2. w.run < d.epoch
        BY <1>3, <1>5, <1>6, <2>1, <4>1
      <4> QED BY <4>2 DEF OldWord, d
    <3> QED BY <1>9, <3>1, <3>2
  <2>2. CASE d.epoch = epoch /\ Len(s) \in m
    <3>1. Len(s) \in n /\ OldWord(w, p)
      BY <1>6, <2>2
    <3>2. OldWord(w, i)
      BY <1>3, <2>2, <3>1 DEF OldWord, d
    <3> QED BY <1>9, <3>1, <3>2
  <2>3. CASE d.epoch = epoch /\ Len(s) \notin m
    <3>1. t # <<>> /\ (d.first_index > next_index => ~Seamless(w, t[1]))
            /\ (d.first_index = next_index => Seamless(w, t[1]))
      BY <1>6, <1>10, <2>3
    <3>2. Len(s) \in n <=> d.first_index > next_index
      BY <1>4, <2>3 DEF d
    <3>3. d.first_index = next_index \/ d.first_index > next_index
      BY <1>3, <1>4, <2>3
    <3>4. ~(d.first_index = next_index /\ d.first_index > next_index)
      BY <1>3
    <3> QED BY <3>1, <3>2, <3>3, <3>4
  <2> QED BY <2>1, <2>2, <2>3
<1>12. MarksHoles(s \o t, n) /\ (t # <<>> => Len(s \o t) \notin n)
  BY <1>2, <1>11, NoHoleInside, HolesJoined DEF w
<1>13. CASE t # <<>>
  BY <1>2, <1>12, <1>13, EndsInPacket
<1>14. CASE t = <<>>
  <2>1. s \o t = s
    BY <1>2, <1>14, LastJoined
  <2>2. EndsIn(s, n, c, i)
    BY <1>6, <1>11, <1>14 DEF EndsIn, w
  <2> QED BY <1>12, <2>1, <2>2
<1> QED BY <1>13, <1>14

(* The first packet kept.                                                   *)
LEMMA GapFirst ==
  ASSUME RecvInv, s_overflows = 0, NoFront,
         NEW i \in DOMAIN wire, IsSamples(wire[i]),
         NEW c \in Channels, NEW s, s = Host!Stream(c),
         NEW m, m = Host!Marks(c), MarksHoles(s, m), NEW n,
         n = IF Breaks(wire[i]) /\ s # <<>> THEN m \cup {Len(s)} ELSE m,
         NEW t, Adds(i, c, t)
  PROVE  MarksHoles(s \o t, n) /\ EndsIn(s \o t, n, c, i)
<1>1. s = <<>> /\ n = m /\ t \in Seq(Word) /\ s \in Seq(Word)
  <2>1. s = <<>> /\ t \in Seq(Word)
    BY DEF NoFront, Adds
  <2>2. <<>> \in Seq(Word)
    OBVIOUS
  <2> QED BY <2>1, <2>2
<1>2. MarksHoles(s \o t, n) /\ (t # <<>> => Len(s \o t) \notin n)
  BY <1>1, NoHoleInside, HolesJoined
<1>3. CASE t # <<>>
  BY <1>1, <1>2, <1>3, EndsInPacket
<1>4. CASE t = <<>>
  <2>1. s \o t = s
    BY <1>1, <1>4, LastJoined
  <2> QED BY <1>1, <1>2, <2>1 DEF EndsIn
<1> QED BY <1>3, <1>4

(* A packet that is not kept marks nothing.                                 *)
LEMMA StaleIsQuiet ==
  ASSUME RecvInv, GapInv, s_overflows = 0, EpochsInOrder,
         NEW i \in DOMAIN wire, Deliver(i),
         IsSamples(wire[i]), Host!Stale(wire[i])
  PROVE  \A c \in Channels : Host!Stream(c)' = Host!Stream(c)
                             /\ Host!Marks(c)' = Host!Marks(c)
<1> DEFINE d == wire[i]
<1>1. TypeOK /\ HostTypeOK /\ d.overflow_count = 0
  BY DEF RecvInv, WireInv, OverflowInv
<1>2. d.epoch = epoch /\ next_index \in Nat /\ d.first_index \in Nat
        /\ d.first_index < next_index
  <2>1. next_index \in Nat \cup {-1}
    BY <1>1, SameProtocol DEF HostTypeOK, Host!TypeOK
  <2> QED BY <1>1, <2>1, WireType, SameProtocol DEF Host!Stale, Host!Expected
<1>3. ~Host!Reopens(d) /\ ~Host!Overflowed(d) /\ ~Host!Jumps(d)
  BY <1>1, <1>2, SameProtocol
     DEF Host!Reopens, Host!Overflowed, Host!Jumps, Host!Expected, GapInv
<1> QED BY <1>1, <1>3, SamplesStep DEF Breaks

(* Epochs once out of order stay so; only a packet can put them out of      *)
(* order; and one that does not is of no older epoch than what arrived.     *)
LEMMA EpochsStep ==
  ASSUME RecvInv, [BusNext]_busVars
  PROVE  /\ EpochsInOrder' => EpochsInOrder
         /\ UNCHANGED delivered => (EpochsInOrder => EpochsInOrder')
         /\ \A i \in DOMAIN wire : delivered' = Append(delivered, i) =>
              IF IsSamples(wire[i])
              THEN EpochsInOrder' =>
                     \A p \in Arrived : IsSamples(wire[p]) =>
                       wire[p].epoch <= wire[i].epoch
              ELSE EpochsInOrder => EpochsInOrder'
<1>1. \A q \in DOMAIN wire : q \in DOMAIN wire' /\ wire'[q] = wire[q]
  <2>1. [BusNext]_busVars => [Next]_vars
    BY DEF BusNext, busVars, Deliver, DrainBlock
  <2> QED BY <2>1, WireStep DEF RecvInv, WireInv, OrderInv
<1>2. delivered \in Seq(Nat) /\ Len(delivered) \in Nat
        /\ DOMAIN delivered = 1..Len(delivered)
        /\ \A k \in DOMAIN delivered : delivered[k] \in DOMAIN wire
        /\ DOMAIN wire \subseteq Nat
  BY DEF RecvInv, DeliveredInv, WireInv, TypeOK
<1>3. CASE UNCHANGED delivered
  <2>1. EpochsInOrder' <=> EpochsInOrder
    BY <1>1, <1>2, <1>3 DEF EpochsInOrder, IsSamples
  <2>2. ASSUME NEW i \in DOMAIN wire, delivered' = Append(delivered, i)
        PROVE  FALSE
    <3>1. delivered \in Seq(Nat) /\ i \in Nat /\ delivered = Append(delivered, i)
      BY <1>2, <1>3, <2>2
    <3>2. Len(delivered) = Len(delivered) + 1 /\ Len(delivered) \in Nat
      BY <3>1
    <3> QED BY <3>2
  <2> HIDE DEF EpochsInOrder
  <2> QED BY <2>1, <2>2, <1>3
<1>4. ASSUME NEW i \in DOMAIN wire, delivered' = Append(delivered, i)
      PROVE  /\ EpochsInOrder' => EpochsInOrder
             /\ IF IsSamples(wire[i])
                THEN EpochsInOrder' =>
                       \A p \in Arrived : IsSamples(wire[p]) =>
                         wire[p].epoch <= wire[i].epoch
                ELSE EpochsInOrder => EpochsInOrder'
  <2> DEFINE n == Len(delivered) + 1
  <2>1. /\ DOMAIN delivered' = 1..n /\ delivered'[n] = i
        /\ \A k \in DOMAIN delivered : /\ delivered'[k] = delivered[k]
                                       /\ k \in DOMAIN delivered' /\ k < n
        /\ \A k \in DOMAIN delivered' : k \in DOMAIN delivered \/ k = n
        /\ n \in Nat /\ \A k \in DOMAIN delivered' : k \in Nat
    BY <1>2, <1>4
  <2> HIDE DEF n
  <2>2. EpochsInOrder' => EpochsInOrder
    BY <1>1, <1>2, <2>1 DEF EpochsInOrder, IsSamples
  <2>3. ASSUME EpochsInOrder', IsSamples(wire[i]), NEW p \in Arrived,
               IsSamples(wire[p])
        PROVE  wire[p].epoch <= wire[i].epoch
    <3>1. PICK k \in DOMAIN delivered : delivered[k] = p
      BY DEF Arrived
    <3>2. /\ k \in DOMAIN delivered' /\ n \in DOMAIN delivered' /\ k < n
          /\ delivered'[k] = p /\ delivered'[n] = i
          /\ wire'[p] = wire[p] /\ wire'[i] = wire[i]
      BY <1>1, <1>2, <2>1, <3>1
    <3> QED BY <2>3, <3>2 DEF EpochsInOrder, IsSamples
  <2>4. ASSUME EpochsInOrder, ~IsSamples(wire[i]) PROVE EpochsInOrder'
    <3>1. ASSUME NEW k \in DOMAIN delivered', NEW l \in DOMAIN delivered',
                 k < l, IsSamples(wire'[delivered'[k]]),
                 IsSamples(wire'[delivered'[l]])
          PROVE  wire'[delivered'[k]].epoch <= wire'[delivered'[l]].epoch
      <4>1. k # n /\ l # n
        BY <1>1, <1>4, <2>1, <2>4, <3>1
      <4>2. k \in DOMAIN delivered /\ l \in DOMAIN delivered
        BY <2>1, <4>1
      <4>3. /\ wire'[delivered'[k]] = wire[delivered[k]]
            /\ wire'[delivered'[l]] = wire[delivered[l]]
        BY <1>1, <1>2, <2>1, <4>2
      <4> QED BY <2>4, <3>1, <4>2, <4>3 DEF EpochsInOrder
    <3> QED BY <3>1 DEF EpochsInOrder, IsSamples
  <2> QED BY <2>2, <2>3, <2>4
<1>5. \/ UNCHANGED delivered
      \/ \E i \in DOMAIN wire : delivered' = Append(delivered, i)
  BY DEF BusNext, busVars, Deliver, DrainBlock
<1> QED BY <1>3, <1>4, <1>5

(* A stream that stays as it is keeps its holes and its end.                *)
LEMMA GapStays ==
  ASSUME RecvInv, RecvInv', Received, [Next]_vars, NEW c \in Channels,
         Host!Stream(c)' = Host!Stream(c), Host!Marks(c)' = Host!Marks(c)
  PROVE  /\ MarksHoles(Host!Stream(c), Host!Marks(c))
              => MarksHoles(Host!Stream(c), Host!Marks(c))'
         /\ \A p \in DOMAIN wire :
              EndsIn(Host!Stream(c), Host!Marks(c), c, p)
                => EndsIn(Host!Stream(c), Host!Marks(c), c, p)'
<1>1. WireInv /\ WireInv' /\ HostTypeOK
  BY DEF RecvInv
<1> DEFINE s == Host!Stream(c)
           m == Host!Marks(c)
<1>2. s' = s /\ m' = m
  OBVIOUS
<1>3. s \in Seq(Word)
  BY <1>1, SameProtocol DEF HostTypeOK, Host!TypeOK, Host!Stream
<1>4. \A w \in ToSet(s) : Fresh(w)' <=> Fresh(w)
  BY <1>1, FreshStays DEF Received
<1> HIDE DEF s, m
<1>5. \A k \in DOMAIN s : Fresh(s[k])' <=> Fresh(s[k])
  BY <1>2, <1>4 DEF ToSet, Fresh
<1>6. MarksHoles(s, m) => MarksHoles(s, m)'
  <2>1. \A k \in 1..(Len(s) - 1) : k \in DOMAIN s /\ k + 1 \in DOMAIN s
    BY <1>3
  <2> QED BY <1>2, <1>5, <2>1 DEF MarksHoles
<1>7. ASSUME NEW p \in DOMAIN wire, EndsIn(s, m, c, p)
      PROVE  EndsIn(s, m, c, p)'
  <2>1. wire'[p] = wire[p]
    BY <1>1, WireStep DEF WireInv, OrderInv
  <2>2. s # <<>> => (Fresh(Last(s))' <=> Fresh(Last(s)))
    <3>1. s # <<>> => Len(s) \in DOMAIN s
      BY <1>3
    <3> QED BY <1>2, <1>5, <3>1 DEF Last
  <2> QED BY <1>2, <1>7, <2>1, <2>2 DEF EndsIn, Last, OldWord, WordOf
<1> QED BY <1>6, <1>7 DEF s, m


(* A packet keeps the marks exact, whatever it is.                          *)
LEMMA GapDeliver ==
  ASSUME RecvInv, RecvInv', Received, GapInv, PktLen >= 3,
         s_overflows = 0, EpochsInOrder, NEW i \in DOMAIN wire, Deliver(i),
         IsSamples(wire[i]), [Next]_vars,
         \A p \in Arrived : IsSamples(wire[p]) => wire[p].epoch <= wire[i].epoch
  PROVE  /\ last_ovf' \in {-1, 0}
         /\ \A c \in Channels : MarksHoles(Host!Stream(c), Host!Marks(c))'
         /\ NoFront' \/ \E p \in DOMAIN wire' : Foremost(p)' /\ Ends(p)'
<1>1. TypeOK /\ HostTypeOK /\ WireInv /\ DeliveredInv /\ FrontInv
        /\ OverflowInv
  BY DEF RecvInv, WireInv
<1>2. /\ last_ovf \in {-1, 0}
      /\ \A c \in Channels : MarksHoles(Host!Stream(c), Host!Marks(c))
      /\ NoFront \/ \E p \in DOMAIN wire : Foremost(p) /\ Ends(p)
  BY DEF GapInv
<1>3. wire' = wire /\ last_ovf' = 0
  BY <1>1, SamplesStep DEF OverflowInv, Deliver, vars
<1>4. CASE Host!Stale(wire[i])
  <2>1. \A c \in Channels : /\ Host!Stream(c)' = Host!Stream(c)
                            /\ Host!Marks(c)' = Host!Marks(c)
    BY <1>4, StaleIsQuiet
  <2>2. ASSUME NEW c \in Channels
        PROVE  MarksHoles(Host!Stream(c), Host!Marks(c))'
    BY <1>2, <2>1, GapStays
  <2>3. PICK p \in DOMAIN wire : Foremost(p) /\ Ends(p)
    BY <1>1, <1>2, <1>4, FrontMoves
  <2>4. Foremost(p)'
    BY <1>1, <1>4, <2>3, FrontMoves
  <2>5. ASSUME NEW c \in Channels
        PROVE  EndsIn(Host!Stream(c), Host!Marks(c), c, p)'
    BY <2>1, <2>3, GapStays DEF Ends
  <2> QED BY <1>3, <2>2, <2>4, <2>5 DEF Ends
<1>5. CASE ~Host!Stale(wire[i])
  <2>1. ASSUME NEW c \in Channels
        PROVE  /\ MarksHoles(Host!Stream(c), Host!Marks(c))'
               /\ EndsIn(Host!Stream(c), Host!Marks(c), c, i)'
    <3> DEFINE s == Host!Stream(c)
               m == Host!Marks(c)
               n == IF Breaks(wire[i]) /\ s # <<>> THEN m \cup {Len(s)} ELSE m
    <3>1. PICK t : Adds(i, c, t)
      BY <1>1, <1>5, Kept
    <3>2. Host!Stream(c)' = s \o t /\ Host!Marks(c)' = n
      BY <1>1, <1>5, <3>1, SamplesStep DEF Adds
    <3>3. MarksHoles(s, m)
      BY <1>2
    <3>4. /\ s = Host!Stream(c) /\ m = Host!Marks(c)
          /\ n = IF Breaks(wire[i]) /\ s # <<>> THEN m \cup {Len(s)} ELSE m
      OBVIOUS
    <3> HIDE DEF s, m, n
    <3>5. MarksHoles(s \o t, n) /\ EndsIn(s \o t, n, c, i)
      <4>1. CASE NoFront
        BY <3>1, <3>3, <3>4, <4>1, GapFirst
      <4>2. CASE \E p \in DOMAIN wire : Foremost(p) /\ Ends(p)
        <5>1. PICK p \in DOMAIN wire : Foremost(p) /\ Ends(p)
          BY <4>2
        <5>2. wire[p].epoch <= wire[i].epoch
          BY <5>1 DEF Foremost
        <5>3. p < i
          BY <1>5, <5>1, <5>2, KeptIsNewer
        <5> QED BY <1>2, <1>5, <3>1, <3>3, <3>4, <5>1, <5>3, GapChannel
      <4> QED BY <1>2, <4>1, <4>2
    <3>6. \A w : Fresh(w)' <=> Fresh(w)
      BY <1>3 DEF Fresh, ToSet
    <3> DEFINE v == s \o t
    <3>7. Host!Stream(c)' = v /\ MarksHoles(v, n) /\ EndsIn(v, n, c, i)
      BY <3>2, <3>5
    <3> HIDE DEF v
    <3>8. MarksHoles(Host!Stream(c), Host!Marks(c))'
      BY <3>2, <3>6, <3>7 DEF MarksHoles
    <3>9. EndsIn(Host!Stream(c), Host!Marks(c), c, i)'
      BY <1>3, <3>2, <3>6, <3>7 DEF EndsIn, OldWord, WordOf, Last
    <3> QED BY <3>8, <3>9
  <2>2. Foremost(i)'
    BY <1>1, <1>5, FrontMoves
  <2> QED BY <1>3, <2>1, <2>2 DEF Ends
<1> QED BY <1>4, <1>5

(* And so does every step.                                                  *)
LEMMA GapStep ==
  ASSUME RecvInv, RecvInv', Received, GapInv, PktLen >= 3, [BusNext]_busVars
  PROVE  GapInv'
<1>1. TypeOK /\ HostTypeOK /\ WireInv /\ DeliveredInv /\ FrontInv
  BY DEF RecvInv, WireInv
<1>2. [Next]_vars
  BY DEF BusNext, busVars, Deliver, DrainBlock
<1> SUFFICES ASSUME s_overflows' = 0, EpochsInOrder'
             PROVE  /\ last_ovf' \in {-1, 0}
                    /\ \A c \in Channels :
                         MarksHoles(Host!Stream(c), Host!Marks(c))'
                    /\ \/ NoFront'
                       \/ \E p \in DOMAIN wire' : Foremost(p)' /\ Ends(p)'
  BY DEF GapInv
<1>3. s_overflows = 0 /\ EpochsInOrder
  BY <1>1, <1>2, OverflowStep, EpochsStep DEF WireInv
<1>4. /\ last_ovf \in {-1, 0}
      /\ \A c \in Channels : MarksHoles(Host!Stream(c), Host!Marks(c))
      /\ NoFront \/ \E p \in DOMAIN wire : Foremost(p) /\ Ends(p)
  BY <1>3 DEF GapInv
<1>5. ASSUME Quiet, \/ UNCHANGED delivered
                    \/ \E i \in DOMAIN wire : delivered' = Append(delivered, i)
      PROVE  /\ last_ovf' \in {-1, 0}
             /\ \A c \in Channels : MarksHoles(Host!Stream(c), Host!Marks(c))'
             /\ NoFront' \/ \E p \in DOMAIN wire' : Foremost(p)' /\ Ends(p)'
  <2>1. \A c \in Channels : /\ Host!Stream(c)' = Host!Stream(c)
                            /\ Host!Marks(c)' = Host!Marks(c)
    BY <1>5 DEF Quiet
  <2>2. last_ovf' = last_ovf
    BY <1>5 DEF Quiet
  <2>3. ASSUME NEW c \in Channels
        PROVE  MarksHoles(Host!Stream(c), Host!Marks(c))'
    BY <1>2, <1>4, <2>1, GapStays
  <2>4. ASSUME NEW p \in DOMAIN wire, Foremost(p), Ends(p)
        PROVE  p \in DOMAIN wire' /\ Foremost(p)' /\ Ends(p)'
    <3>1. p \in DOMAIN wire'
      BY <1>1, <1>2, WireStep DEF WireInv, OrderInv
    <3>2. Foremost(p)'
      BY <1>1, <1>2, <1>5, <2>4, QuietFront
    <3>3. ASSUME NEW c \in Channels
          PROVE  EndsIn(Host!Stream(c), Host!Marks(c), c, p)'
      BY <1>2, <2>1, <2>4, GapStays DEF Ends
    <3> QED BY <3>1, <3>2, <3>3 DEF Ends
  <2>5. NoFront => NoFront'
    BY <1>1, <1>2, <1>5, QuietFront
  <2> QED BY <1>4, <2>2, <2>3, <2>4, <2>5
<1>6. ASSUME NEW i \in DOMAIN wire, Deliver(i), IsSamples(wire[i])
      PROVE  /\ last_ovf' \in {-1, 0}
             /\ \A c \in Channels : MarksHoles(Host!Stream(c), Host!Marks(c))'
             /\ NoFront' \/ \E p \in DOMAIN wire' : Foremost(p)' /\ Ends(p)'
  <2>1. delivered' = Append(delivered, i)
    BY <1>6 DEF Deliver
  <2>2. \A p \in Arrived : IsSamples(wire[p]) =>
          wire[p].epoch <= wire[i].epoch
    BY <1>6, <2>1, EpochsStep
  <2> QED BY <1>2, <1>3, <1>6, <2>2, GapDeliver
<1> QED BY <1>1, <1>5, <1>6, BusStep

(* GapInv holds when a packet has room for one turn of the pattern.         *)
LEMMA GapAlways ==
  ASSUME PktLen >= 3
  PROVE  BusSpec => []GapInv
<1>1. BusInit => GapInv
  <2> SUFFICES ASSUME BusInit PROVE GapInv
    OBVIOUS
  <2>1. last_ovf = -1 /\ epoch = -1 /\ next_index = -1
    BY SameProtocol DEF BusInit, Host!Init
  <2>2. ASSUME NEW c \in Channels
        PROVE  Host!Stream(c) = <<>> /\ Host!Marks(c) = {}
    <3>1. /\ drained[c] = <<>> /\ chunks[c] = <<>> /\ gaps[c] = <<>>
          /\ drained_gaps[c] = {}
      BY SameProtocol DEF BusInit, Host!Init
    <3>2. <<>> \o <<>> = <<>> /\ DOMAIN <<>> = {}
      OBVIOUS
    <3> QED BY <3>1, <3>2 DEF Host!Stream, Host!Marks, Host!ToSet
  <2>3. ASSUME NEW c \in Channels
        PROVE  MarksHoles(Host!Stream(c), Host!Marks(c))
    <3>1. 1..(Len(<<>>) - 1) = {}
      OBVIOUS
    <3> QED BY <2>2, <3>1 DEF MarksHoles
  <2> QED BY <2>1, <2>2, <2>3 DEF GapInv, NoFront
<1>2. RecvInv /\ RecvInv' /\ Received /\ GapInv /\ [BusNext]_busVars
        => GapInv'
  BY GapStep
<1> QED BY <1>1, <1>2, RecvAlways, ReceivedAlways, PTL DEF BusSpec

(* The gap marks are exactly the holes between fresh samples, as long as    *)
(* the ADC's pool has not overflowed and no packet of an older epoch comes  *)
(* late: "gaps[name] holds indices k where samples were lost between sample *)
(* k-1 and sample k" (record.py:37-39), whatever datagrams the network      *)
(* loses or repeats.  A packet must have room for one turn of the pattern   *)
(* (protocol.h:40: 686 samples), or a packet could pass in which a channel  *)
(* has no sample and its gap mark would stay at the end.                    *)
THEOREM GapsAreMarked ==
  ASSUME PktLen >= 3
  PROVE  BusSpec => []GapsAreExactInTransit
<1>1. GapInv => GapsAreExactInTransit
  BY DEF GapInv, GapsAreExactInTransit, MarksHoles, Unsure
<1> QED BY <1>1, GapAlways, PTL

-----------------------------------------------------------------------------
(* The system implements GappedStream.                                      *)

(* Where the next block of a channel starts: drain moves it to the end of   *)
(* what was received, and nothing else moves it.                            *)
LEMMA BlockStartStep ==
  ASSUME TypeOK, HostTypeOK, [BusNext]_busVars
  PROVE  \/ \A c \in Channels : Host!BlockStart(c)' = Host!BlockStart(c)
         \/ /\ DrainBlock
            /\ \A c \in Channels :
                 Host!BlockStart(c)' = Len(Host!Stream(c))
<1>1. ASSUME NEW c \in Channels
      PROVE  /\ total[c] \in Nat /\ total[c] = Len(Host!Stream(c))
             /\ chunks[c] \in Seq(Word) /\ Len(chunks[c]) \in Nat
  <2>1. chunks[c] \in Seq(Word)
    BY SameProtocol DEF HostTypeOK, Host!TypeOK
  <2> QED BY <2>1, SameProtocol DEF HostTypeOK, Host!TypeOK
<1>2. CASE UNCHANGED hostVars
  BY <1>2 DEF hostVars, Host!BlockStart
<1>3. ASSUME NEW i \in DOMAIN wire, Deliver(i), NEW c \in Channels
      PROVE  Host!BlockStart(c)' = Host!BlockStart(c)
  <2> DEFINE d == wire[i]
             n == Len(split_words(d.words, c))
  <2>1. CASE Host!HandleInfo(d)
    BY <2>1 DEF Host!HandleInfo, Host!BlockStart
  <2>2. CASE Host!HandleSamples(d)
    <3>1. split_words(d.words, c) \in Seq(Word)
      BY WireType, SplitType
    <3>2. n \in Nat
      BY <3>1
    <3>3. CASE Host!Stale(d)
      BY <2>2, <3>3 DEF Host!HandleSamples, Host!BlockStart
    <3>4. CASE ~Host!Stale(d)
      <4>1. /\ chunks'[c] = chunks[c] \o split_words(d.words, c)
            /\ total'[c] = total[c] + n
        BY <2>2, <3>4, SameProtocol DEF Host!HandleSamples
      <4>2. Len(chunks'[c]) = Len(chunks[c]) + n
        BY <1>1, <3>1, <4>1
      <4> HIDE DEF n
      <4>3. (total[c] + n) - (Len(chunks[c]) + n) = total[c] - Len(chunks[c])
        BY <1>1, <3>2
      <4> QED BY <4>1, <4>2, <4>3 DEF Host!BlockStart
    <3> QED BY <3>3, <3>4
  <2> QED BY <1>3, <2>1, <2>2, DeliverCases
<1>4. ASSUME DrainBlock, NEW c \in Channels
      PROVE  Host!BlockStart(c)' = Len(Host!Stream(c))
  <2>1. total' = total /\ chunks'[c] = <<>>
    BY <1>4, SameProtocol DEF DrainBlock, Host!Drain
  <2>2. total[c] - Len(<<>>) = total[c]
    BY <1>1
  <2> QED BY <1>1, <2>1, <2>2 DEF Host!BlockStart
<1> QED BY <1>2, <1>3, <1>4 DEF BusNext, busVars

(* A list and what is joined to it. *)
LEMMA JoinedIsPrefix ==
  ASSUME NEW s \in Seq(Word), NEW t \in Seq(Word)
  PROVE  Promise!IsPrefix(s, s \o t)
<1>1. Len(s \o t) = Len(s) + Len(t) /\ Len(s) \in Nat /\ Len(t) \in Nat
  OBVIOUS
<1>2. Len(s) <= Len(s \o t)
  BY <1>1
<1>3. SubSeq(s \o t, 1, Len(s)) = s
  OBVIOUS
<1> QED BY <1>2, <1>3 DEF Promise!IsPrefix

(* A stream that stays as it is stays as sure as it is.                     *)
LEMMA UnsureStays ==
  ASSUME RecvInv, RecvInv', Received, [Next]_vars, NEW c \in Channels,
         Host!Stream(c)' = Host!Stream(c)
  PROVE  Unsure(c)' = Unsure(c)
<1>1. WireInv /\ WireInv' /\ HostTypeOK
  BY DEF RecvInv
<1> DEFINE s == Host!Stream(c)
<1>2. s' = s /\ s \in Seq(Word)
  BY <1>1, SameProtocol DEF HostTypeOK, Host!TypeOK, Host!Stream
<1>3. \A w \in ToSet(s) : Fresh(w)' <=> Fresh(w)
  BY <1>1, FreshStays DEF Received
<1>4. Unsure(c) = {k \in 1..(Len(s) - 1) : ~(Fresh(s[k]) /\ Fresh(s[k + 1]))}
  BY DEF Unsure
<1>5. Unsure(c)'
        = {k \in 1..(Len(s') - 1) : ~(Fresh(s[k])' /\ Fresh(s[k + 1])')}
  BY DEF Unsure
<1> HIDE DEF s
<1>6. \A k \in DOMAIN s : Fresh(s[k])' <=> Fresh(s[k])
  BY <1>2, <1>3 DEF ToSet, Fresh
<1>7. \A k \in 1..(Len(s) - 1) : k \in DOMAIN s /\ k + 1 \in DOMAIN s
  BY <1>2
<1> QED BY <1>2, <1>4, <1>5, <1>6, <1>7

(* Trust once lost is lost.                                                 *)
LEMMA TrustStep ==
  ASSUME RecvInv, [BusNext]_busVars
  PROVE  /\ s_overflows' = 0 => s_overflows = 0
         /\ EpochsInOrder' => EpochsInOrder
<1>1. [Next]_vars
  BY DEF BusNext, busVars, Deliver, DrainBlock
<1> QED BY <1>1, OverflowStep, EpochsStep DEF RecvInv, WireInv

(* What a delivered packet does to the streams is what GappedStream allows, *)
(* as long as they are trusted                                              *)
LEMMA DeliverExtends ==
  ASSUME RecvInv, RecvInv', Received, GapInv, GapInv', [BusNext]_busVars,
         s_overflows' = 0, EpochsInOrder', NEW i \in DOMAIN wire, Deliver(i),
         IsSamples(wire[i]), NEW c \in Channels
  PROVE  LET old == Host!Stream(c)
             new == Host!Stream(c)'
             m   == Host!Marks(c)'
             u   == Unsure(c)'
         IN  \/ new = old /\ m = Host!Marks(c) /\ u = Unsure(c)
             \/ /\ Promise!IsPrefix(old, new)
                /\ Host!Marks(c) \subseteq m /\ Unsure(c) \subseteq u
                /\ \A k \in (m \ Host!Marks(c)) \cup (u \ Unsure(c)) :
                     k >= Len(old)
                /\ m \ ({Len(new)} \cup u) = Promise!Holes(new) \ u
<1>1. TypeOK /\ HostTypeOK
  BY DEF RecvInv, WireInv
<1>2. [Next]_vars /\ wire' = wire /\ s_overflows = 0 /\ EpochsInOrder
  BY TrustStep DEF Deliver, vars
<1>3. CASE Host!Stale(wire[i])
  <2>1. Host!Stream(c)' = Host!Stream(c) /\ Host!Marks(c)' = Host!Marks(c)
    BY <1>2, <1>3, StaleIsQuiet
  <2> QED BY <1>2, <2>1, UnsureStays
<1>4. CASE ~Host!Stale(wire[i])
  <2> DEFINE s == Host!Stream(c)
             m == Host!Marks(c)
             t == split_words(wire[i].words, c)
             v == s \o t
             n == Host!Marks(c)'
             In(q) == {k \in 1..(Len(q) - 1) : ~(Fresh(q[k]) /\ Fresh(q[k + 1]))}
  <2>1. s \in Seq(Word) /\ t \in Seq(Word)
    <3>1. s \in Seq(Word)
      BY <1>1, SameProtocol DEF HostTypeOK, Host!TypeOK, Host!Stream
    <3>2. t \in Seq(Word)
      BY <1>1, WireType, SplitType
    <3> QED BY <3>1, <3>2
  <2>2. /\ Host!Stream(c)' = v
        /\ n = m \/ n = m \cup {Len(s)}
    BY <1>1, <1>4, SamplesStep
  <2>3. MarksHoles(Host!Stream(c), Host!Marks(c))'
    BY DEF GapInv
  <2>4. \A w : Fresh(w)' <=> Fresh(w)
    BY <1>2 DEF Fresh, ToSet
  <2>5. Unsure(c) = In(s)
    BY DEF Unsure
  <2> HIDE DEF s, m, n, t
  <2>6. Unsure(c)' = In(v)
    <3> HIDE DEF v
    <3> QED BY <2>2, <2>4 DEF Unsure
  <2>7. Promise!IsPrefix(s, v)
    BY <2>1, JoinedIsPrefix
  <2>8. /\ v \in Seq(Word) /\ Len(v) \in Nat /\ Len(s) \in Nat
        /\ Len(s) <= Len(v) /\ \A k \in 1..Len(s) : v[k] = s[k]
    BY <2>1
  <2>9. MarksHoles(v, n)
    <3> HIDE DEF v
    <3> QED BY <2>2, <2>3, <2>4 DEF MarksHoles, n
  <2> HIDE DEF v
  <2>10. In(s) \subseteq In(v) /\ \A k \in In(v) \ In(s) : k >= Len(s)
    <3>1. ASSUME NEW k \in 1..(Len(s) - 1)
          PROVE  /\ k \in 1..(Len(v) - 1) /\ v[k] = s[k] /\ v[k + 1] = s[k + 1]
      BY <2>8, SMTT(30)
    <3>2. \A k \in 1..(Len(v) - 1) : k \in 1..(Len(s) - 1) \/ k >= Len(s)
      BY <2>8
    <3> QED BY <3>1, <3>2
  <2>11. n \ ({Len(v)} \cup In(v)) = Promise!Holes(v) \ In(v)
    <3>1. ASSUME NEW k \in n \ ({Len(v)} \cup In(v))
          PROVE  k \in Promise!Holes(v) \ In(v)
      <4>1. k \in 1..(Len(v) - 1)
        BY <2>8, <2>9 DEF MarksHoles
      <4>2. ~Seamless(v[k], v[k + 1])
        BY <2>9, <4>1 DEF MarksHoles
      <4> QED BY <4>1, <4>2 DEF Promise!Holes
    <3>2. ASSUME NEW k \in Promise!Holes(v) \ In(v)
          PROVE  k \in n \ ({Len(v)} \cup In(v))
      <4>1. k \in 1..(Len(v) - 1) /\ ~Seamless(v[k], v[k + 1])
        BY DEF Promise!Holes
      <4>2. k \in n /\ k # Len(v)
        BY <2>8, <2>9, <4>1 DEF MarksHoles
      <4> QED BY <4>2
    <3> QED BY <3>1, <3>2
  <2>12. m \subseteq n /\ \A k \in n \ m : k >= Len(s)
    BY <2>2, <2>8
  <2> HIDE DEF In
  <2> QED BY <2>2, <2>5, <2>6, <2>7, <2>10, <2>11, <2>12 DEF s, m, n
<1> QED BY <1>3, <1>4

(* (without trust they still only grow).                                    *)
LEMMA StreamsGrow ==
  ASSUME TypeOK, HostTypeOK, NEW c \in Channels,
         \/ Host!Stream(c)' = Host!Stream(c)
         \/ \E i \in DOMAIN wire : Deliver(i) /\ IsSamples(wire[i])
  PROVE  Promise!IsPrefix(Host!Stream(c), Host!Stream(c)')
<1> DEFINE s == Host!Stream(c)
<1>1. s \in Seq(Word)
  BY SameProtocol DEF HostTypeOK, Host!TypeOK, Host!Stream
<1>2. CASE Host!Stream(c)' = s
  <2> HIDE DEF s
  <2>1. <<>> \in Seq(Word) /\ s \o <<>> = s
    BY <1>1
  <2>2. Promise!IsPrefix(s, s \o <<>>)
    BY <1>1, <2>1, JoinedIsPrefix
  <2> QED BY <1>2, <2>1, <2>2 DEF s
<1>3. ASSUME NEW i \in DOMAIN wire, Deliver(i), IsSamples(wire[i]),
             Host!Stream(c)' # s
      PROVE  Promise!IsPrefix(s, Host!Stream(c)')
  <2> DEFINE t == split_words(wire[i].words, c)
  <2>1. t \in Seq(Word)
    BY WireType, SplitType
  <2>2. Host!Stream(c)' = s \o t
    BY <1>3, SamplesStep
  <2> HIDE DEF s, t
  <2> QED BY <1>1, <2>1, <2>2, JoinedIsPrefix
<1> QED BY <1>2, <1>3

(* Every step of the system is one of GappedStream, or changes nothing      *)
(* there.                                                                   *)
LEMMA PromiseStep ==
  ASSUME RecvInv, RecvInv', Received, GapInv, GapInv', [BusNext]_busVars
  PROVE  [Promise!Next]_(Promise!vars)
<1>1. TypeOK /\ HostTypeOK /\ WireInv /\ [Next]_vars
  BY DEF RecvInv, WireInv, BusNext, busVars, Deliver, DrainBlock
<1> DEFINE Trusted == s_overflows = 0 /\ EpochsInOrder
           Same == \A c \in Channels : /\ Host!Stream(c)' = Host!Stream(c)
                                       /\ Host!Marks(c)' = Host!Marks(c)
                                       /\ Unsure(c)' = Unsure(c)
           Held == \A c \in Channels : Host!BlockStart(c)' = Host!BlockStart(c)
<1>2. Trusted' => Trusted
  BY TrustStep
<1>3. \/ Same
      \/ \E i \in DOMAIN wire : Deliver(i) /\ IsSamples(wire[i])
  <2>1. Quiet => Same
    BY <1>1, UnsureStays DEF Quiet
  <2> QED BY <1>1, <2>1, QuietStep
<1>4. \/ Held
      \/ /\ DrainBlock
         /\ \A c \in Channels : Host!BlockStart(c)' = Len(Host!Stream(c))
  BY <1>1, BlockStartStep
<1>5. CASE Held /\ ~Trusted'
  <2>1. \A c \in Channels :
          Promise!IsPrefix(Host!Stream(c), Host!Stream(c)')
    BY <1>1, <1>3, StreamsGrow
  <2>2. Trusted' = FALSE
    BY <1>5
  <2>3. Promise!ExtendUnmarked
    BY <1>5, <2>1, <2>2 DEF Promise!ExtendUnmarked
  <2> QED BY <2>3 DEF Promise!Next
<1>6. CASE Held /\ Trusted' /\ Same
  <2>1. UNCHANGED <<[c \in Channels |-> Host!Stream(c)],
                    [c \in Channels |-> Host!Marks(c)],
                    [c \in Channels |-> Host!BlockStart(c)],
                    [c \in Channels |-> Unsure(c)]>>
    BY <1>6
  <2>2. Trusted' = Trusted
    BY <1>2, <1>6
  <2> QED BY <2>1, <2>2 DEF Promise!vars
<1>7. ASSUME Held, Trusted', NEW i \in DOMAIN wire, Deliver(i),
             IsSamples(wire[i])
      PROVE  Promise!Next
  <2>1. Trusted /\ Trusted' = Trusted
    BY <1>2, <1>7
  <2>2. Promise!Extend
    BY <1>7, <2>1, DeliverExtends DEF Promise!Extend
  <2> QED BY <2>2 DEF Promise!Next
<1>8. CASE /\ DrainBlock
           /\ \A c \in Channels : Host!BlockStart(c)' = Len(Host!Stream(c))
  <2>1. delivered' = delivered /\ s_overflows' = s_overflows
    BY <1>8 DEF DrainBlock, vars, shared
  <2>2. ASSUME NEW i \in DOMAIN wire, Deliver(i) PROVE FALSE
    <3>1. delivered \in Seq(Nat) /\ i \in Nat /\ delivered = Append(delivered, i)
      BY <1>1, <2>1, <2>2 DEF Deliver, RecvInv, DeliveredInv, TypeOK
    <3>2. Len(delivered) = Len(delivered) + 1 /\ Len(delivered) \in Nat
      BY <3>1
    <3> QED BY <3>2
  <2>3. Same
    BY <1>3, <2>2
  <2>4. Trusted' = Trusted
    BY <2>1, EpochsStep
  <2>5. Promise!HandOut
    BY <1>8, <2>3, <2>4 DEF Promise!HandOut
  <2> QED BY <2>5 DEF Promise!Next
<1> QED BY <1>3, <1>4, <1>5, <1>6, <1>7, <1>8

(* The system keeps the promise made to whoever reads the blocks, at every  *)
(* step and for every number of hosts, packet length and bound, whatever    *)
(* the network does: the streams only ever grow at their ends and the       *)
(* blocks that drain hands out tile them; and as long as the pool has not   *)
(* overflowed and the epochs come in order, a hole between fresh samples is *)
(* marked in the step that opens it and no mark is taken back               *)
(* (record.py:35-43, 177-188).                                              *)
THEOREM SystemKeepsItsPromise ==
  ASSUME PktLen >= 3
  PROVE  BusSpec => KeepsItsPromise
<1>1. BusInit => Promise!Init
  <2> SUFFICES ASSUME BusInit PROVE Promise!Init
    OBVIOUS
  <2>1. s_overflows = 0 /\ EpochsInOrder
    BY DEF BusInit, Init, EpochsInOrder
  <2>2. ASSUME NEW c \in Channels
        PROVE  /\ Host!Stream(c) = <<>> /\ Host!Marks(c) = {}
               /\ Host!BlockStart(c) = 0 /\ Unsure(c) = {}
    <3>1. /\ drained[c] = <<>> /\ chunks[c] = <<>> /\ gaps[c] = <<>>
          /\ drained_gaps[c] = {} /\ total[c] = 0
      BY SameProtocol DEF BusInit, Host!Init
    <3>2. <<>> \o <<>> = <<>> /\ DOMAIN <<>> = {} /\ 1..(Len(<<>>) - 1) = {}
      OBVIOUS
    <3>3. Len(<<>>) = 0 /\ 0 - 0 = 0
      OBVIOUS
    <3>4. Host!Stream(c) = <<>>
      BY <3>1, <3>2 DEF Host!Stream
    <3>5. Unsure(c) = {}
      BY <3>2, <3>4 DEF Unsure
    <3> QED BY <3>1, <3>2, <3>3, <3>4, <3>5
            DEF Host!Marks, Host!ToSet, Host!BlockStart
  <2> QED BY <2>1, <2>2 DEF Promise!Init
<1>2. RecvInv /\ RecvInv' /\ Received /\ GapInv /\ GapInv'
        /\ [BusNext]_busVars => [Promise!Next]_(Promise!vars)
  BY PromiseStep
<1> QED BY <1>1, <1>2, RecvAlways, ReceivedAlways, GapAlways, PTL
        DEF BusSpec, KeepsItsPromise, Promise!Spec
=============================================================================
