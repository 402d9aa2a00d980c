---------------------------- MODULE SessionProofs ---------------------------
(***************************************************************************)
(* What a recording session against the stand-in firmware guarantees, for   *)
(* every capture, every drop_every and every pace of the replay: the        *)
(* receiver's count of lost datagrams is the number of those dropped, and   *)
(* the segments of a recorded channel are its stretches between two losses. *)
(*                                                                          *)
(* The count: a sequence number is either on the wire or dropped, and the   *)
(* wire is in order, so the numbers between two neighbours of the wire are  *)
(* exactly those dropped between them.                                      *)
(*                                                                          *)
(* The segments, from the wire to the capture file:                         *)
(*   1. words are sent in turns, so two neighbours of one channel are a     *)
(*      turn apart unless a word between them was not sent, and a datagram  *)
(*      is at least a turn long;                                            *)
(*   2. the samples datagrams of the wire are in order and whole, and two   *)
(*      neighbours are adjacent or have a dropped one between them          *)
(*      (Spaced);                                                           *)
(*   3. what the receiver keeps of a channel, drained or not, is its words  *)
(*      of the datagrams taken, and it marks a gap exactly where two of     *)
(*      them are not a turn apart (HearInv: Holes);                         *)
(*   4. the track holds what was drained since it began, with the marks     *)
(*      moved to its own indices (TrackInv: Records);                       *)
(*   5. segments cuts at its marks and nowhere else (SegmentsKeepTogether). *)
(***************************************************************************)
EXTENDS Session, ProtocolProofs

(* What the stand-in can send. *)
Sendable == {InfoAs(s) : s \in Nat} \cup {SamplesAs(s, f) : s, f \in Nat}

(* w is in order, D was dropped, and together they are the first n numbers. *)
Numbered(w, D, n) ==
  /\ w \in Seq(Sendable) /\ n \in Nat /\ D \subseteq 0..(n - 1)
  /\ w = <<>> => n = 0
  /\ w # <<>> => w[1].seq = 0 /\ (w[Len(w)].seq + 1)..(n - 1) \subseteq D
  /\ \A i \in 1..Len(w) : w[i].seq \in 0..(n - 1) /\ w[i].seq \notin D
  /\ \A i \in 1..(Len(w) - 1) :
       /\ w[i].seq < w[i + 1].seq
       /\ (w[i].seq + 1)..(w[i + 1].seq - 1) \subseteq D

(* The stand-in's counters and clocks; a stream that has not begun has sent *)
(* nothing.                                                                 *)
Serving ==
  /\ now \in 0..MaxNow /\ stream_t0 \in (0..now) \cup {NONE}
  /\ sent \in Nat /\ seq \in Nat
  /\ client # NoClient => stream_t0 # NONE
  /\ stream_t0 = NONE => wire = <<>> /\ seq = 0 /\ dropped = {}
  /\ stream_t0 # NONE => seq # 0

DroppedBefore(D, s) == {m \in D : m < s}

(* Where the receiver is in the wire, and what it has counted until then.   *)
Follows ==
  /\ arrived \in Nat /\ arrived <= Len(wire)
  /\ "datagrams_lost" \in DOMAIN stats
  /\ arrived = 0 => next_seq = -1 /\ stats.datagrams_lost = 0
  /\ arrived > 0 =>
       /\ next_seq = Wrap(wire[arrived].seq + 1)
       /\ stats.datagrams_lost =
            Cardinality(DroppedBefore(dropped, wire[arrived].seq))

(* Until the stand-in's counter would leave the 32 bits of its header.      *)
LossInv ==
  /\ Serving
  /\ seq <= W32 => Numbered(wire, dropped, seq) /\ Follows

-----------------------------------------------------------------------------
(* The numbers of the wire *)

(* A number of the counter's range is what a header carries of it. *)
LEMMA WrapSmall ==
  ASSUME NEW n \in Nat, n < W32
  PROVE  Wrap(n) = n
BY W32Assumption DEF Wrap

(* What is sent, and its number. *)
LEMMA SendableParts ==
  /\ \A s \in Nat : InfoAs(s) \in Sendable
  /\ \A s, f \in Nat : SamplesAs(s, f) \in Sendable
  /\ \A s \in Nat : s < W32 =>
       InfoAs(s).seq = s /\ \A f \in Nat : SamplesAs(s, f).seq = s
<1>1. \A s \in Nat : InfoAs(s).seq = Wrap(s)
  BY DEF InfoAs, Info
<1>2. \A s, f \in Nat : SamplesAs(s, f).seq = Wrap(s)
  BY DEF SamplesAs, Samples
<1> QED BY <1>1, <1>2, WrapSmall DEF Sendable

(* The next number goes to the wire, *)
LEMMA NumberSent ==
  ASSUME NEW w, NEW D, NEW n, Numbered(w, D, n),
         NEW x \in Sendable, x.seq = n
  PROVE  Numbered(Append(w, x), D, n + 1)
<1> DEFINE v == Append(w, x)
<1>1. /\ w \in Seq(Sendable) /\ n \in Nat /\ Len(w) \in Nat
      /\ D \subseteq 0..(n - 1) /\ (w = <<>> <=> Len(w) = 0)
  BY DEF Numbered
<1>2. /\ v \in Seq(Sendable) /\ v # <<>> /\ Len(v) = Len(w) + 1
      /\ v[Len(w) + 1] = x /\ \A i \in 1..Len(w) : v[i] = w[i]
  <2>1. v \in Seq(Sendable) /\ Len(v) = Len(w) + 1
    BY <1>1
  <2>2. v[Len(w) + 1] = x /\ \A i \in 1..Len(w) : v[i] = w[i]
    BY <1>1
  <2>3. v # <<>>
    BY <1>1, <2>1
  <2> QED BY <2>1, <2>2, <2>3
<1> HIDE DEF v
<1>3. D \subseteq 0..(n + 1 - 1) /\ n \notin D
  BY <1>1
<1>4. v[1].seq = 0
  <2>1. CASE w = <<>>
    BY <1>1, <1>2, <2>1 DEF Numbered
  <2>2. CASE w # <<>>
    <3>1. 1 \in 1..Len(w)
      BY <1>1, <2>2
    <3> QED BY <1>2, <2>2, <3>1 DEF Numbered
  <2> QED BY <2>1, <2>2
<1>5. (v[Len(v)].seq + 1)..(n + 1 - 1) = {}
  BY <1>1, <1>2
<1>6. \A i \in 1..Len(w) : w[i].seq \in 0..(n - 1) /\ w[i].seq \notin D
  BY DEF Numbered
<1>7. \A i \in 1..Len(v) : i \in 1..Len(w) \/ i = Len(w) + 1
  BY <1>1, <1>2
<1>8. \A i \in 1..Len(v) : v[i].seq \in 0..(n + 1 - 1) /\ v[i].seq \notin D
  <2>1. \A i \in 1..Len(w) :
          v[i].seq \in 0..(n + 1 - 1) /\ v[i].seq \notin D
    BY <1>1, <1>2, <1>6
  <2>2. v[Len(w) + 1].seq \in 0..(n + 1 - 1) /\ v[Len(w) + 1].seq \notin D
    BY <1>1, <1>2, <1>3
  <2> QED BY <1>7, <2>1, <2>2
<1>9. ASSUME NEW i \in 1..(Len(v) - 1)
      PROVE  /\ v[i].seq < v[i + 1].seq
             /\ (v[i].seq + 1)..(v[i + 1].seq - 1) \subseteq D
  <2>1. i \in 1..Len(w) /\ v[i] = w[i]
    BY <1>1, <1>2
  <2>2. CASE i = Len(w)
    <3>1. v[i + 1].seq = n /\ w # <<>>
      BY <1>1, <1>2, <2>1, <2>2
    <3>2. (w[i].seq + 1)..(n - 1) \subseteq D
      BY <2>2, <3>1 DEF Numbered
    <3>3. w[i].seq < n
      BY <1>1, <1>6, <2>1
    <3> QED BY <2>1, <3>1, <3>2, <3>3
  <2>3. CASE i # Len(w)
    <3>1. i \in 1..(Len(w) - 1) /\ i + 1 \in 1..Len(w)
      BY <1>1, <2>1, <2>3
    <3>2. v[i + 1] = w[i + 1]
      BY <1>2, <3>1
    <3> QED BY <2>1, <3>1, <3>2 DEF Numbered
  <2> QED BY <2>2, <2>3
<1> QED BY <1>1, <1>2, <1>3, <1>4, <1>5, <1>8, <1>9 DEF Numbered, v

(* or is dropped.                                                           *)
LEMMA NumberDropped ==
  ASSUME NEW w, NEW D, NEW n, Numbered(w, D, n), n # 0
  PROVE  Numbered(w, D \cup {n}, n + 1)
<1> DEFINE E == D \cup {n}
<1>1. /\ w \in Seq(Sendable) /\ n \in Nat /\ Len(w) \in Nat
      /\ D \subseteq 0..(n - 1) /\ w # <<>>
  BY DEF Numbered
<1>2. E \subseteq 0..(n + 1 - 1)
  BY <1>1
<1>3. \A i \in 1..Len(w) : w[i].seq \in 0..(n - 1) /\ w[i].seq \notin D
  BY DEF Numbered
<1>4. \A i \in 1..Len(w) : w[i].seq \in 0..(n + 1 - 1) /\ w[i].seq \notin E
  BY <1>1, <1>3
<1>5. (w[Len(w)].seq + 1)..(n + 1 - 1) \subseteq E
  <2>1. (w[Len(w)].seq + 1)..(n - 1) \subseteq D
    BY <1>1 DEF Numbered
  <2>2. Len(w) \in 1..Len(w)
    BY <1>1
  <2>3. w[Len(w)].seq \in Nat
    BY <1>1, <1>3, <2>2
  <2> QED BY <1>1, <2>1, <2>3
<1> QED BY <1>1, <1>2, <1>4, <1>5 DEF Numbered

(* The datagrams on the wire stay where they are while more are sent.       *)
Extends(v, w) ==
  Len(w) <= Len(v) /\ \A i \in 1..Len(w) : v[i] = w[i]

-----------------------------------------------------------------------------
(* The burst of one pass *)

(* One turn of the loop, burst being the function built so far.             *)
BurstStep(s, infos, burst, i) ==
  IF i = 0 THEN wire \o infos
  ELSE IF Drops(s + (i - 1)) THEN burst[i - 1]
  ELSE Append(burst[i - 1],
              SamplesAs(SeqAfter(s, i - 1), sent + (i - 1) * PktLen))

Bursts(s, infos, burst, k) ==
  burst = [i \in 0..k |-> BurstStep(s, infos, burst, i)]

(* How many datagrams a pass numbers. *)
DueNow == IF Packets <= Left THEN Packets ELSE Left

(* There is such a function for every number of turns. *)
LEMMA BurstExists ==
  ASSUME NEW s, NEW infos, NEW k \in Nat
  PROVE  \E burst : Bursts(s, infos, burst, k)
<1> DEFINE Bad == {m \in Nat : ~ \E burst : Bursts(s, infos, burst, m)}
<1> SUFFICES ASSUME k \in Bad PROVE FALSE
  OBVIOUS
<1>1. PICK m \in Bad : \A j \in Bad : m <= j
  <2>1. Bad \subseteq Nat /\ Bad # {}
    OBVIOUS
  <2> HIDE DEF Bad
  <2> QED BY <2>1, Smallest
<1>2. m \in Nat /\ ~ \E burst : Bursts(s, infos, burst, m)
  OBVIOUS
<1>3. CASE m = 0
  <2> DEFINE burst == [i \in 0..0 |-> wire \o infos]
  <2>1. Bursts(s, infos, burst, 0)
    BY DEF Bursts, BurstStep
  <2> QED BY <1>2, <1>3, <2>1
<1>4. CASE m # 0
  <2>1. m - 1 \in Nat /\ m - 1 \notin Bad
    BY <1>1, <1>2, <1>4
  <2>2. PICK old : Bursts(s, infos, old, m - 1)
    BY <2>1
  <2> DEFINE burst == [i \in 0..m |-> IF i < m THEN old[i]
                                      ELSE BurstStep(s, infos, old, m)]
  <2>3. \A i \in 0..m : burst[i] = BurstStep(s, infos, burst, i)
    <3> SUFFICES ASSUME NEW i \in 0..m
                 PROVE  burst[i] = BurstStep(s, infos, burst, i)
      OBVIOUS
    <3>1. i # 0 => i - 1 \in 0..m /\ i - 1 < m
      BY <1>2
    <3>2. i # 0 => burst[i - 1] = old[i - 1]
      BY <3>1
    <3> HIDE DEF burst
    <3>3. BurstStep(s, infos, old, i) = BurstStep(s, infos, burst, i)
      BY <3>2 DEF BurstStep
    <3>4. i < m => i \in 0..(m - 1)
      BY <1>2
    <3>5. i < m => old[i] = BurstStep(s, infos, old, i)
      BY <2>2, <3>4 DEF Bursts
    <3>6. ~(i < m) => i = m
      BY <1>2
    <3>7. burst[i] = IF i < m THEN old[i] ELSE BurstStep(s, infos, old, m)
      BY DEF burst
    <3> QED BY <3>3, <3>5, <3>6, <3>7
  <2>4. Bursts(s, infos, burst, m)
    BY <2>3 DEF Bursts
  <2> QED BY <1>2, <2>4
<1> QED BY <1>3, <1>4

(* What Stream does, with the function of its loop named. *)
LEMMA StreamBursts ==
  ASSUME NEW s \in Nat, NEW infos, Stream(s, infos), DueNow \in Nat
  PROVE  \E burst : /\ Bursts(s, infos, burst, DueNow)
                    /\ wire' = burst[DueNow]
<1> DEFINE burst == CHOOSE f : Bursts(s, infos, f, DueNow)
<1>1. Bursts(s, infos, burst, DueNow)
  BY BurstExists, Zenon
<1>2. wire' = burst[DueNow]
  BY DEF Stream, Bursts, BurstStep, DueNow
<1> QED BY <1>1, <1>2

(* How many numbers a pass uses is never negative, however the clock, the   *)
(* pace of the replay and the end of the capture fall.                      *)
LEMMA DueType ==
  ASSUME Serving, stream_t0 # NONE
  PROVE  DueNow \in Nat
<1>1. sent \in Nat /\ PktLen \in Nat \ {0} /\ now - stream_t0 \in 0..MaxNow
  BY PktLenAssumption, FakeEspAssumption DEF Serving
<1>2. Due[now - stream_t0] \in Nat
  BY <1>1, FakeEspAssumption
<1>3. Packets \in Nat
  <2> DEFINE due == Due[now - stream_t0]
  <2>1. CASE due < sent
    BY <2>1 DEF Packets
  <2>2. CASE ~(due < sent)
    <3>1. due - sent \in Nat
      BY <1>1, <1>2, <2>2
    <3>2. (due - sent) \div PktLen \in Nat
      BY <1>1, <3>1
    <3> QED BY <2>2, <3>2 DEF Packets
  <2> QED BY <2>1, <2>2
<1>4. Length \in Nat
  <2>1. names \subseteq 0..2
    BY FakeEspAssumption DEF Channels
  <2>2. IsFiniteSet(0..2)
    <3>1. 0 \in Int /\ 2 \in Int
      OBVIOUS
    <3> QED BY <3>1, FS_Interval, Zenon
  <2>3. IsFiniteSet(names)
    BY <2>1, <2>2, FS_Subset
  <2>4. Cardinality(names) \in Nat
    BY <2>3, FS_CardinalityType
  <2> QED BY <2>4, FakeEspAssumption DEF Length
<1>5. Left \in Nat
  <2>1. CASE loop \/ sent > Length
    BY <1>3, <2>1 DEF Left
  <2>2. CASE ~loop /\ ~(sent > Length)
    <3>1. Length - sent \in Nat
      BY <1>1, <1>4, <2>2
    <3>2. (Length - sent) \div PktLen \in Nat
      BY <1>1, <3>1
    <3> QED BY <2>2, <3>2 DEF Left
  <2> QED BY <2>1, <2>2
<1> QED BY <1>3, <1>5 DEF DueNow

(* The numbers a burst of k drops. *)
Lost(s, k) == {n \in s..(s + k - 1) : Drops(n)}

(* What a burst leaves is in order and complete. *)
LEMMA BurstNumbered ==
  ASSUME NEW s \in Nat \ {0}, NEW infos, NEW k \in Nat, s + k <= W32,
         NEW burst, Bursts(s, infos, burst, k), sent \in Nat,
         Numbered(wire \o infos, dropped, s)
  PROVE  /\ Numbered(burst[k], dropped \cup Lost(s, k), s + k)
         /\ Extends(burst[k], wire \o infos)
<1> DEFINE w == wire \o infos
           Good(i) == /\ Numbered(burst[i], dropped \cup Lost(s, i), s + i)
                      /\ Extends(burst[i], w)
           Bad == {i \in 0..k : ~Good(i)}
<1>1. SUFFICES ASSUME Bad # {} PROVE FALSE
  <2>1. k \in 0..k
    OBVIOUS
  <2>2. k \notin Bad => Good(k)
    BY <2>1
  <2> QED BY <2>2
<1>2. PICK i \in Bad : \A j \in Bad : i <= j
  <2>1. Bad \subseteq Nat
    OBVIOUS
  <2> HIDE DEF Bad
  <2> QED BY <1>1, <2>1, Smallest
<1>3. i \in 0..k /\ ~Good(i)
  OBVIOUS
<1>4. \A j \in 0..k : j < i => Good(j)
  <2> HIDE DEF Good
  <2> QED BY <1>2, <1>3
<1> HIDE DEF Bad
<1>5. burst[i] = BurstStep(s, infos, burst, i)
  BY <1>3 DEF Bursts
<1>6. CASE i = 0
  <2>1. burst[0] = w
    BY <1>5, <1>6 DEF BurstStep
  <2>2. Lost(s, 0) = {}
    BY DEF Lost
  <2>3. w \in Seq(Sendable)
    BY DEF Numbered
  <2>4. Extends(w, w)
    BY <2>3 DEF Extends
  <2>5. s + 0 = s /\ dropped \cup Lost(s, 0) = dropped
    BY <2>2
  <2> QED BY <1>3, <1>6, <2>1, <2>4, <2>5
<1>7. CASE i # 0
  <2> DEFINE n == s + (i - 1)
             v == burst[i - 1]
             D == dropped \cup Lost(s, i - 1)
  <2>1. /\ i - 1 \in 0..k /\ i - 1 < i /\ n \in Nat \ {0} /\ n < W32
        /\ n + 1 = s + i
    BY <1>3, <1>7, W32Assumption
  <2>2. Good(i - 1)
    BY <1>4, <2>1
  <2>3. Numbered(v, D, n) /\ Extends(v, w)
    BY <2>2
  <2>4. Lost(s, i) = IF Drops(n) THEN Lost(s, i - 1) \cup {n}
                     ELSE Lost(s, i - 1)
    <3>1. \A m : m \in s..(s + i - 1)
                    <=> m \in s..(s + (i - 1) - 1) \/ m = n
      BY <1>3, <1>7
    <3> QED BY <3>1 DEF Lost
  <2>5. burst[i] = IF Drops(n) THEN v
                   ELSE Append(v, SamplesAs(n, sent + (i - 1) * PktLen))
    BY <1>5, <1>7 DEF BurstStep, SeqAfter
  <2>6. v \in Seq(Sendable)
    BY <2>3 DEF Numbered
  <2> HIDE DEF v
  <2>7. CASE Drops(n)
    <3>1. dropped \cup Lost(s, i) = D \cup {n}
      BY <2>4, <2>7
    <3> HIDE DEF D, n
    <3>2. Numbered(v, D \cup {n}, n + 1)
      BY <2>1, <2>3, NumberDropped
    <3> QED BY <1>3, <2>1, <2>3, <2>5, <2>7, <3>1, <3>2
  <2>8. CASE ~Drops(n)
    <3> DEFINE f == sent + (i - 1) * PktLen
               x == SamplesAs(n, f)
    <3>1. f \in Nat
      <4>1. (i - 1) * PktLen \in Nat
        BY <2>1, PktLenAssumption
      <4> QED BY <4>1
    <3>2. x \in Sendable /\ x.seq = n
      BY <2>1, <3>1, SendableParts
    <3>3. dropped \cup Lost(s, i) = D
      BY <2>4, <2>8
    <3>4. burst[i] = Append(v, x)
      BY <2>5, <2>8
    <3> HIDE DEF D, n, x
    <3>5. Numbered(Append(v, x), D, n + 1)
      BY <2>3, <3>2, NumberSent
    <3>6. Extends(Append(v, x), w)
      <4>1. w \in Seq(Sendable) /\ Len(w) \in Nat /\ Len(v) \in Nat
        BY <2>6 DEF Numbered
      <4>2. /\ Len(Append(v, x)) = Len(v) + 1
            /\ \A j \in 1..Len(v) : Append(v, x)[j] = v[j]
        BY <2>6, <3>2
      <4> QED BY <2>3, <4>1, <4>2 DEF Extends
    <3> QED BY <1>3, <2>1, <3>3, <3>4, <3>5, <3>6
  <2> QED BY <2>7, <2>8
<1> QED BY <1>6, <1>7

-----------------------------------------------------------------------------
(* The stand-in's steps *)

(* The receiver stands still while datagrams are sent or dropped behind it. *)
LEMMA FollowsStays ==
  ASSUME Numbered(wire, dropped, seq), Follows, Extends(wire', wire),
         dropped \subseteq dropped', \A m \in dropped' \ dropped : m >= seq,
         UNCHANGED <<arrived, next_seq, stats>>
  PROVE  Follows'
<1>1. arrived \in Nat /\ arrived <= Len(wire) /\ Len(wire) \in Nat
  BY DEF Follows, Numbered
<1>2. Len(wire) <= Len(wire')
  BY DEF Extends
<1>3. CASE arrived = 0
  BY <1>1, <1>2, <1>3 DEF Follows
<1>4. CASE arrived > 0
  <2>1. arrived \in 1..Len(wire)
    BY <1>1, <1>4
  <2>2. wire'[arrived] = wire[arrived] /\ wire[arrived].seq \in 0..(seq - 1)
    BY <2>1 DEF Extends, Numbered
  <2> DEFINE e == wire[arrived].seq
  <2>3. DroppedBefore(dropped', e) = DroppedBefore(dropped, e)
    <3>1. \A m \in dropped' : m < e => m \in dropped
      BY <2>2 DEF Numbered
    <3> QED BY <3>1 DEF DroppedBefore
  <2>4. wire'[arrived].seq = e
    BY <2>2
  <2> QED BY <1>1, <1>2, <1>4, <2>3, <2>4 DEF Follows
<1> QED BY <1>1, <1>3, <1>4

(* A pass, with or without an INFO first. *)
LEMMA StreamNumbers ==
  ASSUME LossInv, stream_t0 # NONE, NEW s \in Nat, NEW infos,
         \/ s = seq /\ infos = <<>>
         \/ s = seq + 1 /\ infos = <<InfoAs(seq)>>,
         Stream(s, infos), UNCHANGED <<arrived, next_seq, stats>>
  PROVE  /\ sent' \in Nat /\ seq' \in Nat \ {0}
         /\ seq' <= W32 => Numbered(wire', dropped', seq') /\ Follows'
<1> DEFINE k == DueNow
<1>1. k \in Nat /\ seq \in Nat /\ sent \in Nat /\ s # 0
  BY DueType DEF LossInv, Serving
<1>2. /\ seq' = s + k /\ sent' = sent + k * PktLen
      /\ dropped' = dropped \cup Lost(s, k)
  BY DEF Stream, SeqAfter, Lost, DueNow
<1>3. PICK burst : Bursts(s, infos, burst, k) /\ wire' = burst[k]
  BY <1>1, StreamBursts
<1> HIDE DEF k
<1>4. sent' \in Nat /\ seq' \in Nat \ {0}
  <2>1. k * PktLen \in Nat
    BY <1>1, PktLenAssumption
  <2> QED BY <1>1, <1>2, <2>1
<1>5. ASSUME seq' <= W32
      PROVE  Numbered(wire', dropped', seq') /\ Follows'
  <2>1. seq <= W32 /\ s + k <= W32 /\ seq <= s
    BY <1>1, <1>2, <1>5, W32Assumption
  <2>2. Numbered(wire, dropped, seq) /\ Follows
    BY <2>1 DEF LossInv
  <2>3. wire \in Seq(Sendable) /\ Len(wire) \in Nat
    BY <2>2 DEF Numbered
  <2>4. Numbered(wire \o infos, dropped, s) /\ Extends(wire \o infos, wire)
    <3>1. CASE s = seq /\ infos = <<>>
      <4>1. wire \o infos = wire
        BY <2>3, <3>1
      <4> QED BY <2>2, <2>3, <3>1, <4>1 DEF Extends
    <3>2. CASE s = seq + 1 /\ infos = <<InfoAs(seq)>>
      <4>1. seq < W32
        BY <1>1, <1>2, <1>5, <3>2, W32Assumption
      <4>2. InfoAs(seq) \in Sendable /\ InfoAs(seq).seq = seq
        BY <1>1, <4>1, SendableParts
      <4> DEFINE x == InfoAs(seq)
      <4> HIDE DEF x
      <4>3. x \in Sendable /\ x.seq = seq /\ infos = <<x>>
        BY <3>2, <4>2 DEF x
      <4>4. wire \o infos = Append(wire, x)
        BY <2>3, <4>3
      <4>5. Numbered(Append(wire, x), dropped, seq + 1)
        BY <2>2, <4>3, NumberSent
      <4>6. Extends(Append(wire, x), wire)
        BY <2>3, <4>3 DEF Extends
      <4> QED BY <3>2, <4>4, <4>5, <4>6
    <3> QED BY <3>1, <3>2
  <2>5. /\ Numbered(burst[k], dropped \cup Lost(s, k), s + k)
        /\ Extends(burst[k], wire \o infos)
    BY <1>1, <1>3, <2>1, <2>4, BurstNumbered
  <2>6. Extends(wire', wire)
    <3>1. Len(wire \o infos) \in Nat /\ Len(wire') \in Nat
      <4>1. wire \o infos \in Seq(Sendable) /\ burst[k] \in Seq(Sendable)
        BY <2>4, <2>5 DEF Numbered
      <4> QED BY <1>3, <4>1
    <3> QED BY <1>3, <2>3, <2>4, <2>5, <3>1 DEF Extends
  <2>7. \A m \in dropped' \ dropped : m >= seq
    BY <1>1, <1>2, <2>1 DEF Lost
  <2>8. Follows'
    BY <1>2, <2>2, <2>6, <2>7, FollowsStays
  <2> QED BY <1>2, <1>3, <2>5, <2>8
<1> QED BY <1>4, <1>5

(* The first HELLO's INFO is number 0. *)
LEMMA FirstHelloNumbers ==
  ASSUME LossInv, ServeFirstHello, UNCHANGED <<arrived, next_seq, stats>>
  PROVE  LossInv'
<1>1. /\ wire = <<>> /\ seq = 0 /\ dropped = {} /\ seq' = 1
      /\ wire' = Append(wire, InfoAs(0)) /\ dropped' = {} /\ 0 <= W32
      /\ 0 < W32
  BY W32Assumption DEF LossInv, Serving, ServeFirstHello
<1>2. Serving'
  BY <1>1, FakeEspAssumption DEF LossInv, Serving, ServeFirstHello, NONE
<1> DEFINE x == InfoAs(seq)
<1>3. x \in Sendable /\ x.seq = seq
  BY <1>1, SendableParts
<1>4. Numbered(wire, dropped, seq) /\ Follows
  BY <1>1 DEF LossInv
<1>5. wire' = Append(wire, x) /\ dropped' = dropped /\ seq' = seq + 1
  BY <1>1
<1> HIDE DEF x
<1>6. Numbered(wire', dropped', seq')
  BY <1>3, <1>4, <1>5, NumberSent
<1>7. Extends(wire', wire)
  BY <1>1, <1>3, <1>5 DEF Extends
<1>8. Follows'
  BY <1>1, <1>4, <1>7, FollowsStays
<1> QED BY <1>2, <1>6, <1>8 DEF LossInv

(* A pass for a HELLO, or for the lease still running.                      *)
LEMMA PassNumbers ==
  ASSUME LossInv, ServeHello \/ Serve,
         UNCHANGED <<arrived, next_seq, stats>>
  PROVE  LossInv'
<1>1. /\ stream_t0 # NONE /\ UNCHANGED <<now, stream_t0>>
      /\ seq \in Nat
  BY DEF LossInv, Serving, ServeHello, Serve, Leased
<1>2. \E s \in Nat : \E infos :
        /\ \/ s = seq /\ infos = <<>>
           \/ s = seq + 1 /\ infos = <<InfoAs(seq)>>
        /\ Stream(s, infos)
  <2>1. CASE ServeHello
    <3>1. seq + 1 \in Nat /\ Stream(seq + 1, <<InfoAs(seq)>>)
      BY <1>1, <2>1 DEF ServeHello
    <3> QED BY <3>1
  <2>2. CASE Serve
    <3> DEFINE timely == now - last_info > InfoPeriod
    <3>1. Stream(IF timely THEN seq + 1 ELSE seq,
                 IF timely THEN <<InfoAs(seq)>> ELSE <<>>)
      BY <2>2 DEF Serve
    <3> HIDE DEF timely
    <3>2. CASE timely
      <4>1. seq + 1 \in Nat /\ Stream(seq + 1, <<InfoAs(seq)>>)
        BY <1>1, <3>1, <3>2
      <4> QED BY <4>1
    <3>3. CASE ~timely
      <4>1. Stream(seq, <<>>)
        BY <3>1, <3>3
      <4> QED BY <1>1, <4>1
    <3> QED BY <3>2, <3>3
  <2> QED BY <2>1, <2>2
<1>3. PICK s \in Nat : \E infos :
        /\ \/ s = seq /\ infos = <<>>
           \/ s = seq + 1 /\ infos = <<InfoAs(seq)>>
        /\ Stream(s, infos)
  BY <1>2
<1>4. PICK infos :
        /\ \/ s = seq /\ infos = <<>>
           \/ s = seq + 1 /\ infos = <<InfoAs(seq)>>
        /\ Stream(s, infos)
  BY <1>3
<1>5. /\ sent' \in Nat /\ seq' \in Nat \ {0}
      /\ seq' <= W32 => Numbered(wire', dropped', seq') /\ Follows'
  BY <1>1, <1>4, StreamNumbers
<1>6. Serving'
  BY <1>1, <1>5 DEF LossInv, Serving
<1> QED BY <1>5, <1>6 DEF LossInv

(* An instant passes. *)
LEMMA TickNumbers ==
  ASSUME LossInv, Tick, UNCHANGED <<arrived, next_seq, stats>>
  PROVE  LossInv'
<1>1. now' = now + 1 /\ now < MaxNow
      /\ UNCHANGED <<client, stream_t0, sent, seq, dropped, wire>>
  BY DEF Tick
<1>2. Serving'
  <2>1. now \in 0..MaxNow /\ MaxNow \in Nat
    BY FakeEspAssumption DEF LossInv, Serving
  <2>2. now' \in 0..MaxNow
    BY <1>1, <2>1
  <2>3. stream_t0' \in (0..now') \cup {NONE}
    BY <1>1, <2>1 DEF LossInv, Serving
  <2> QED BY <1>1, <2>2, <2>3 DEF LossInv, Serving
<1>3. ASSUME seq' <= W32 PROVE Numbered(wire', dropped', seq') /\ Follows'
  <2>1. Numbered(wire, dropped, seq) /\ Follows
    BY <1>1, <1>3 DEF LossInv
  <2>2. Follows'
    BY <1>1, <2>1 DEF Follows
  <2> QED BY <1>1, <2>1, <2>2
<1> QED BY <1>2, <1>3 DEF LossInv

-----------------------------------------------------------------------------
(* The receiver's steps *)

(* The Receiver's protocol is the stand-in's. *)
LEMMA SameProtocol ==
  /\ Host!NONE = -1 /\ \A n : Host!Wrap(n) = Wrap(n)
  /\ Host!Channels = Channels /\ Host!Word = Word
  /\ \A words, c : Host!split_words(words, c) = split_words(words, c)
  /\ \A s : Host!ToSet(s) = ToSet(s)
<1>1. Host!NONE = -1 /\ \A n : Host!Wrap(n) = Wrap(n)
  BY DEF Host!NONE, Host!Wrap, Wrap
<1>2. Host!Channels = Channels
  BY DEF Host!Channels, Channels
<1>3. Host!Word = Word
  BY <1>2 DEF Host!Word, Word, Host!Config, Config
<1>4. \A words, c : Host!split_words(words, c) = split_words(words, c)
  BY DEF Host!split_words, split_words
<1>5. \A s : Host!ToSet(s) = ToSet(s)
  BY DEF Host!ToSet, ToSet
<1> QED BY <1>1, <1>2, <1>3, <1>4, <1>5

(* What a datagram does to the count. *)
LEMMA HandleCounts ==
  ASSUME NEW d, Host!Handle(d), "datagrams_lost" \in DOMAIN stats
  PROVE  /\ next_seq' = Wrap(d.seq + 1)
         /\ "datagrams_lost" \in DOMAIN stats'
         /\ stats'.datagrams_lost =
              stats.datagrams_lost + Host!Skipped(d.seq)
<1>1. CASE Host!HandleInfo(d)
  <2>1. next_seq' = Wrap(d.seq + 1)
    BY <1>1, SameProtocol DEF Host!HandleInfo
  <2> DEFINE lost == Host!Skipped(d.seq)
  <2>2. stats' = [stats EXCEPT !.datagrams_lost = @ + lost]
    BY <1>1 DEF Host!HandleInfo
  <2> HIDE DEF lost
  <2>3. /\ "datagrams_lost" \in DOMAIN stats'
        /\ stats'.datagrams_lost = stats.datagrams_lost + lost
    BY <2>2
  <2> QED BY <2>1, <2>3 DEF lost
<1>2. CASE Host!HandleSamples(d)
  <2>1. next_seq' = Wrap(d.seq + 1)
    BY <1>2, SameProtocol DEF Host!HandleSamples
  <2> DEFINE lost == Host!Skipped(d.seq)
  <2>2. /\ "datagrams_lost" \in DOMAIN stats'
        /\ stats'.datagrams_lost = stats.datagrams_lost + lost
    BY <1>2 DEF Host!HandleSamples
  <2> QED BY <2>1, <2>2
<1> QED BY <1>1, <1>2 DEF Host!Handle

(* How many were dropped between two numbers of which all in between were.  *)
LEMMA DroppedBetween ==
  ASSUME NEW n \in Nat, NEW D \in SUBSET (0..(n - 1)),
         NEW a \in 0..(n - 1), NEW b \in 0..(n - 1), a < b, a \notin D,
         (a + 1)..(b - 1) \subseteq D
  PROVE  Cardinality(DroppedBefore(D, b)) =
           Cardinality(DroppedBefore(D, a)) + (b - a - 1)
<1> DEFINE A == DroppedBefore(D, a)
           B == (a + 1)..(b - 1)
<1>1. DroppedBefore(D, b) = A \cup B /\ A \cap B = {}
  <2>1. \A m \in D : m \in Int
    OBVIOUS
  <2>2. \A m \in D : m < b <=> m < a \/ m \in B
    BY <2>1
  <2>3. \A m \in B : m \in D /\ ~(m < a) /\ m < b
    OBVIOUS
  <2> HIDE DEF B
  <2> QED BY <2>2, <2>3 DEF DroppedBefore
<1>2. IsFiniteSet(0..(n - 1))
  <2>1. 0 \in Int /\ n - 1 \in Int
    OBVIOUS
  <2> QED BY <2>1, FS_Interval, Zenon
<1>3. A \subseteq 0..(n - 1)
  BY DEF DroppedBefore
<1>4. IsFiniteSet(A)
  <2> HIDE DEF A
  <2> QED BY <1>2, <1>3, FS_Subset
<1>5. IsFiniteSet(B) /\ Cardinality(B) = b - a - 1
  <2>1. a + 1 \in Int /\ b - 1 \in Int
    OBVIOUS
  <2>2. /\ IsFiniteSet(B)
        /\ Cardinality(B) = IF a + 1 > b - 1 THEN 0
                            ELSE (b - 1) - (a + 1) + 1
    BY <2>1, FS_Interval, Zenon
  <2>3. (IF a + 1 > b - 1 THEN 0 ELSE (b - 1) - (a + 1) + 1) = b - a - 1
    OBVIOUS
  <2> QED BY <2>2, <2>3
<1> HIDE DEF A, B
<1>6. Cardinality(A \cup B) =
        Cardinality(A) + Cardinality(B) - Cardinality(A \cap B)
  BY <1>4, <1>5, FS_Union
<1>7. Cardinality(A \cap B) = 0 /\ Cardinality(A) \in Nat
  BY <1>1, <1>4, FS_EmptySet, FS_CardinalityType
<1>8. Cardinality(A \cup B) = Cardinality(A) + (b - a - 1)
  BY <1>5, <1>6, <1>7
<1> QED BY <1>1, <1>8 DEF A

(* A datagram arrives. *)
LEMMA DeliverCounts ==
  ASSUME LossInv, Deliver
  PROVE  LossInv'
<1>1. /\ UNCHANGED vars /\ arrived' = arrived + 1 /\ arrived < Len(wire)
      /\ Host!Handle(wire[arrived + 1])
  BY DEF Deliver
<1>2. Serving'
  BY <1>1 DEF LossInv, Serving, vars
<1>3. ASSUME seq' <= W32 PROVE Numbered(wire', dropped', seq') /\ Follows'
  <2>1. /\ Numbered(wire, dropped, seq) /\ Follows /\ seq \in Nat
        /\ seq <= W32 /\ W32 \in Nat \ {0}
        /\ Numbered(wire', dropped', seq')
    BY <1>1, <1>3, W32Assumption DEF LossInv, Serving, vars
  <2> DEFINE d == wire[arrived + 1]
             e == wire[arrived]
  <2>2. /\ arrived \in Nat /\ Len(wire) \in Nat
        /\ arrived + 1 \in 1..Len(wire) /\ wire # <<>>
    BY <1>1, <2>1 DEF Follows, Numbered
  <2>3. d.seq \in 0..(seq - 1) /\ d.seq \notin dropped
    BY <2>1, <2>2 DEF Numbered
  <2>4. /\ next_seq' = Wrap(d.seq + 1)
        /\ "datagrams_lost" \in DOMAIN stats'
        /\ stats'.datagrams_lost =
             stats.datagrams_lost + Host!Skipped(d.seq)
    BY <1>1, <2>1, HandleCounts DEF Follows
  <2>5. CASE arrived = 0
    <3>1. d.seq = 0 /\ next_seq = -1 /\ stats.datagrams_lost = 0
      BY <2>1, <2>2, <2>5 DEF Numbered, Follows
    <3>2. Host!Skipped(d.seq) = 0
      BY <3>1, SameProtocol DEF Host!Skipped
    <3>3. DroppedBefore(dropped, d.seq) = {}
      <4>1. \A m \in dropped : ~(m < 0)
        BY <2>1 DEF Numbered
      <4> QED BY <3>1, <4>1 DEF DroppedBefore
    <3>4. Cardinality({}) = 0
      BY FS_EmptySet
    <3>5. stats'.datagrams_lost
            = Cardinality(DroppedBefore(dropped, d.seq))
      BY <2>4, <3>1, <3>2, <3>3, <3>4
    <3> HIDE DEF d
    <3> QED BY <1>1, <2>1, <2>2, <2>4, <3>5 DEF Follows, vars, d
  <2>6. CASE arrived # 0
    <3>1. arrived \in 1..(Len(wire) - 1) /\ arrived \in 1..Len(wire)
      BY <2>2, <2>6
    <3>2. /\ e.seq \in 0..(seq - 1) /\ e.seq \notin dropped
          /\ e.seq < d.seq /\ (e.seq + 1)..(d.seq - 1) \subseteq dropped
      BY <2>1, <3>1 DEF Numbered
    <3>3. next_seq = e.seq + 1
      <4>1. next_seq = Wrap(e.seq + 1)
        BY <2>1, <2>2, <2>6 DEF Follows
      <4>2. e.seq + 1 \in Nat /\ e.seq + 1 < W32
        BY <2>1, <2>3, <3>2
      <4> QED BY <4>1, <4>2, WrapSmall
    <3>4. Host!Skipped(d.seq) = d.seq - e.seq - 1
      <4> DEFINE n == d.seq - next_seq
      <4>1. n \in Nat /\ n < W32 /\ n = d.seq - e.seq - 1
            /\ next_seq # -1
        BY <2>1, <2>3, <3>2, <3>3
      <4>2. Wrap(n) = n
        <5> HIDE DEF n
        <5> QED BY <4>1, WrapSmall
      <4>3. d.seq = next_seq => n = 0
        BY <2>3, <3>2, <3>3
      <4>4. Host!Skipped(d.seq) = IF d.seq # next_seq THEN Wrap(n) ELSE 0
        BY <4>1, SameProtocol DEF Host!Skipped
      <4> QED BY <4>1, <4>2, <4>3, <4>4
    <3>5. stats.datagrams_lost
            = Cardinality(DroppedBefore(dropped, e.seq))
      BY <2>1, <2>2, <2>6 DEF Follows
    <3>6. Cardinality(DroppedBefore(dropped, d.seq)) =
            Cardinality(DroppedBefore(dropped, e.seq)) + (d.seq - e.seq - 1)
      <4>1. dropped \in SUBSET (0..(seq - 1))
        BY <2>1 DEF Numbered
      <4> HIDE DEF d, e
      <4> QED BY <2>1, <2>3, <3>2, <4>1, DroppedBetween
    <3>7. stats'.datagrams_lost
            = Cardinality(DroppedBefore(dropped, d.seq))
      BY <2>4, <3>4, <3>5, <3>6
    <3> HIDE DEF d, e
    <3> QED BY <1>1, <2>1, <2>2, <2>4, <3>7 DEF Follows, vars, d
  <2> QED BY <2>5, <2>6
<1> QED BY <1>2, <1>3 DEF LossInv

-----------------------------------------------------------------------------
(* The theorem *)

(* It holds at the start, *)
LEMMA LossInit ==
  ASSUME SessionInit
  PROVE  LossInv
<1>1. Serving
  BY FakeEspAssumption DEF SessionInit, Init, Serving, NONE
<1>2. Numbered(wire, dropped, seq)
  BY DEF SessionInit, Init, Numbered
<1>3. Follows
  BY SameProtocol DEF SessionInit, Init, Host!Init, Follows
<1> QED BY <1>1, <1>2, <1>3 DEF LossInv

(* and after every step.                                                    *)
LEMMA LossStep ==
  ASSUME LossInv, [SessionNext]_sessionVars
  PROVE  LossInv'
<1> DEFINE still == UNCHANGED <<arrived, next_seq, stats>>
<1>1. CASE Next /\ UNCHANGED <<hostVars, arrived, track, drains>>
  <2>1. still
    BY <1>1 DEF hostVars
  <2>2. CASE ServeFirstHello
    BY <2>1, <2>2, FirstHelloNumbers
  <2>3. CASE ServeHello \/ Serve
    BY <2>1, <2>3, PassNumbers
  <2>4. CASE Tick
    BY <2>1, <2>4, TickNumbers
  <2> QED BY <1>1, <2>2, <2>3, <2>4 DEF Next
<1>2. CASE Deliver
  BY <1>2, DeliverCounts
<1>3. CASE StartRecording \/ AddBlock \/ UNCHANGED sessionVars
  <2>1. UNCHANGED vars /\ still
    BY <1>3 DEF StartRecording, AddBlock, Host!Drain, sessionVars, hostVars
  <2>2. /\ UNCHANGED <<now, stream_t0, client, sent, seq, wire, dropped>>
        /\ UNCHANGED <<arrived, next_seq, stats>>
    BY <2>1 DEF vars
  <2> QED BY <2>2 DEF LossInv, Serving, Numbered, Follows
<1> QED BY <1>1, <1>2, <1>3 DEF SessionNext

(* Nothing counts as lost but what was dropped, over INFOs, lapsed leases   *)
(* and bursts, as long as the numbers fit the header (record.py:28,         *)
(* fake_esp.py:82; after that the stand-in cannot build a datagram).        *)
THEOREM OnlyDroppedIsLost ==
  SessionSpec => [](seq <= W32 => LostIsDropped)
<1>1. LossInv => (seq <= W32 => LostIsDropped)
  BY DEF LossInv, Follows, LostIsDropped, DroppedBefore
<1> QED BY <1>1, LossInit, LossStep, PTL DEF SessionSpec
-----------------------------------------------------------------------------
(* The turns of the channels *)

Turn == Cardinality(names)
Chan(k) == Sent(k).ch

(* The stand-in sends words.                                                *)
LEMMA SentIsWord ==
  /\ Turn \in 1..3
  /\ \A k \in Nat : Sent(k) \in Word /\ Sent(k).at = k
                    /\ Chan(k) = Pattern(names)[1 + (k % Turn)]
                    /\ Chan(k) \in names
<1>1. names \in (SUBSET Channels) \ {{}} /\ PerChannel \in Nat \ {0}
  BY FakeEspAssumption
<1> DEFINE P == Pattern(names)
<1>2. /\ Turn = Len(P) /\ Turn \in 1..3
      /\ \A a \in 1..Turn : P[a] \in names
  BY <1>1, PatternLength, PatternTurns DEF Turn
<1> HIDE DEF P
<1>3. ASSUME NEW k \in Nat
      PROVE  Replayed(k) % Turn = k % Turn /\ k % Turn \in 0..(Turn - 1)
  <2> DEFINE n == Turn
             L == PerChannel * n
             q == k \div L
             r == k % L
             z == PerChannel * q
  <2>1. n \in {1, 2, 3} /\ PerChannel \in Nat /\ PerChannel > 0
    BY <1>1, <1>2
  <2>2. L \in Nat /\ L > 0
    BY <2>1
  <2> HIDE DEF L
  <2>3. q \in Int /\ r \in Nat /\ k = L * q + r
    BY <2>2
  <2> HIDE DEF q, r
  <2>4. z \in Int
    BY <2>1, <2>3
  <2>5. L * q = n * z
    BY <2>1, <2>3 DEF L
  <2> HIDE DEF z
  <2>6. k = n * z + r
    BY <2>3, <2>5
  <2>7. r % n = k % n /\ k % n \in 0..(n - 1)
    <3>1. CASE n = 1
      BY <2>3, <3>1
    <3>2. CASE n = 2
      BY <2>3, <2>4, <2>6, <3>2
    <3>3. CASE n = 3
      BY <2>3, <2>4, <2>6, <3>3
    <3> QED BY <2>1, <3>1, <3>2, <3>3
  <2> QED BY <2>7 DEF r, L, Replayed, Length, Turn
<1>4. ASSUME NEW k \in Nat
      PROVE  /\ Chan(k) = P[1 + (k % Turn)] /\ Chan(k) \in names
             /\ Sent(k) \in Word /\ Sent(k).at = k
  <2> DEFINE a == k % Turn
  <2>0. Replayed(k) % Turn = a /\ a \in 0..(Turn - 1)
    BY <1>3
  <2> HIDE DEF a
  <2>1. Replayed(k) % Turn = k % Turn /\ 1 + (k % Turn) \in 1..Turn
    <3>1. 1 + a \in 1..Turn
      BY <1>2, <2>0
    <3> QED BY <2>0, <3>1 DEF a
  <2>2. Sent(k) = [ch |-> P[1 + (k % Turn)], at |-> k, cfg |-> cfg,
                   run |-> 1]
    BY <2>1 DEF Sent, P, Turn
  <2>3. P[1 + (k % Turn)] \in names /\ names \subseteq Channels
    BY <1>1, <1>2, <2>1
  <2>4. cfg \in Config
    BY <1>1 DEF cfg, Config
  <2> QED BY <2>2, <2>3, <2>4 DEF Word, Chan
<1> QED BY <1>2, <1>4 DEF P

(* A turn later it is the same channel's turn, and no sooner; and every     *)
(* channel of the capture has its turn among as many words.                 *)
LEMMA TurnsRepeat ==
  /\ \A k \in Nat : Chan(k + Turn) = Chan(k)
  /\ \A j, k \in Nat : j < k /\ Chan(j) = Chan(k) => j + Turn <= k
  /\ \A c \in names : \A j \in Nat : \E k \in Nat :
       j <= k /\ k < j + Turn /\ Chan(k) = c
<1> DEFINE n == Turn
           P == Pattern(names)
<1>1. n \in {1, 2, 3} /\ \A k \in Nat : Chan(k) = P[1 + (k % n)]
  BY SentIsWord
<1>2. /\ Len(P) = n /\ \A a, b \in 1..n : P[a] = P[b] => a = b
      /\ \A c \in names : \E a \in 1..n : P[a] = c
  BY FakeEspAssumption, PatternLength, PatternTurns DEF Turn
<1> HIDE DEF n, P
<1>3. \A k \in Nat : k % n \in 0..(n - 1)
  BY <1>1
<1>4. \A j, k \in Nat : Chan(j) = Chan(k) <=> j % n = k % n
  <2> TAKE j, k \in Nat
  <2> DEFINE a == j % n
             b == k % n
  <2>1. Chan(j) = P[1 + a] /\ Chan(k) = P[1 + b]
    BY <1>1
  <2>2. a \in 0..(n - 1) /\ b \in 0..(n - 1)
    BY <1>3
  <2> HIDE DEF a, b
  <2>3. 1 + a \in 1..n /\ 1 + b \in 1..n /\ a \in Int /\ b \in Int
    BY <1>1, <2>2
  <2>4. P[1 + a] = P[1 + b] => 1 + a = 1 + b
    BY <1>2, <2>3
  <2>5. Chan(j) = Chan(k) <=> a = b
    BY <2>1, <2>3, <2>4
  <2> QED BY <2>5 DEF a, b
<1>5. \A k \in Nat : Chan(k + n) = Chan(k)
  <2> SUFFICES ASSUME NEW k \in Nat PROVE (k + n) % n = k % n
    BY <1>1, <1>4
  <2>1. CASE n = 1
    BY <2>1
  <2>2. CASE n = 2
    BY <2>2
  <2>3. CASE n = 3
    BY <2>3
  <2> QED BY <1>1, <2>1, <2>2, <2>3
<1>6. \A j, k \in Nat : j < k /\ Chan(j) = Chan(k) => j + n <= k
  <2> SUFFICES ASSUME NEW j \in Nat, NEW k \in Nat, j < k, j % n = k % n
               PROVE  j + n <= k
    BY <1>4
  <2>1. CASE n = 1
    BY <2>1
  <2>2. CASE n = 2
    BY <2>2
  <2>3. CASE n = 3
    BY <2>3
  <2> QED BY <1>1, <2>1, <2>2, <2>3
<1>7. ASSUME NEW c \in names, NEW j \in Nat
      PROVE  \E k \in Nat : j <= k /\ k < j + n /\ Chan(k) = c
  <2>1. PICK a \in 1..n : P[a] = c
    BY <1>2
  <2>2. \E k \in Nat : j <= k /\ k < j + n /\ 1 + (k % n) = a
    <3>1. CASE n = 1
      <4>1. a = 1 /\ 1 + (j % 1) = 1
        BY <3>1
      <4> QED BY <3>1, <4>1
    <3>2. CASE n = 2
      <4>1. 1 + (j % 2) = a \/ 1 + ((j + 1) % 2) = a
        BY <3>2
      <4>2. j + 1 \in Nat /\ j <= j + 1 /\ j + 1 < j + 2 /\ j < j + 2
        OBVIOUS
      <4> QED BY <3>2, <4>1, <4>2
    <3>3. CASE n = 3
      <4>1. \/ 1 + (j % 3) = a \/ 1 + ((j + 1) % 3) = a
            \/ 1 + ((j + 2) % 3) = a
        BY <3>3
      <4>2. /\ j + 1 \in Nat /\ j <= j + 1 /\ j + 1 < j + 3 /\ j < j + 3
            /\ j + 2 \in Nat /\ j <= j + 2 /\ j + 2 < j + 3
        OBVIOUS
      <4> QED BY <3>3, <4>1, <4>2
    <3> QED BY <1>1, <3>1, <3>2, <3>3
  <2> QED BY <1>1, <2>1, <2>2
<1> QED BY <1>5, <1>6, <1>7 DEF n

-----------------------------------------------------------------------------
(* A packet of one channel *)

(* The places of a stream behind which samples are missing. *)
Holes(s) == {k \in 1..(Len(s) - 1) : s[k + 1].at # s[k].at + Turn}

(* The last word of s is the channel's last one before index n. *)
EndsBefore(s, n, c) ==
  /\ s # <<>>
  /\ LET a == s[Len(s)].at IN n - Turn <= a /\ a < n /\ Chan(a) = c

(* The first word of s is the channel's first one from index n on. *)
BeginsAt(s, n, c) ==
  /\ s # <<>>
  /\ LET a == s[1].at IN n <= a /\ a < n + Turn /\ Chan(a) = c

Packet(f) == [k \in 1..PktLen |-> Sent(f + k - 1)]

(* Of a packet a channel gets every word that is its own: it begins and     *)
(* ends with the packet and has no hole.                                    *)
LEMMA PacketOfChannel ==
  ASSUME NEW f \in Nat, NEW c \in Channels, PktLen >= Turn
  PROVE  LET t == split_words(Packet(f), c) IN
         /\ t \in Seq(Word) /\ Holes(t) = {}
         /\ c \notin names => t = <<>>
         /\ c \in names => BeginsAt(t, f, c) /\ EndsBefore(t, f + PktLen, c)
<1> DEFINE words == Packet(f)
           t == split_words(words, c)
<1>1. PktLen \in Nat /\ Turn \in Nat /\ Turn >= 1
  BY PktLenAssumption, SentIsWord
<1>2. \A k \in 1..PktLen : f + k - 1 \in Nat
  OBVIOUS
<1>3. \A k \in 1..PktLen : /\ words[k] \in Word /\ words[k].at = f + k - 1
                           /\ words[k].ch = Chan(f + k - 1)
  BY <1>2, SentIsWord DEF Packet, Chan
<1>4. words \in Seq(Word) /\ Len(words) = PktLen
  <2>1. words \in [1..PktLen -> Word]
    BY <1>3 DEF Packet
  <2> QED BY <1>1, <2>1
<1> HIDE DEF words
<1>5. PICK pos : Picks(words, c, PktLen, t, pos)
  BY <1>4, SplitPicks
<1> HIDE DEF t
<1>6. t \in Seq(Word) /\ Len(t) \in Nat
  BY <1>5 DEF Picks
<1>7. \A i \in 1..Len(t) : pos[i] \in 1..PktLen
  BY <1>5 DEF Picks
<1>8. \A i \in 1..Len(t) :
        /\ t[i].at = f + pos[i] - 1 /\ t[i].at \in Nat
        /\ f <= t[i].at /\ t[i].at < f + PktLen /\ Chan(t[i].at) = c
  <2> SUFFICES ASSUME NEW i \in 1..Len(t)
               PROVE  /\ t[i].at = f + pos[i] - 1 /\ t[i].at \in Nat
                      /\ f <= t[i].at /\ t[i].at < f + PktLen
                      /\ Chan(t[i].at) = c
    OBVIOUS
  <2>1. t[i] = words[pos[i]] /\ t[i].ch = c
    BY <1>5 DEF Picks
  <2> DEFINE p == pos[i]
  <2>2. p \in 1..PktLen
    BY <1>7
  <2> HIDE DEF p
  <2>3. f + p - 1 \in Nat /\ f <= f + p - 1 /\ f + p - 1 < f + PktLen
    BY <1>1, <2>2
  <2>4. t[i].at = f + p - 1 /\ Chan(f + p - 1) = c
    BY <1>3, <2>1, <2>2 DEF p
  <2> QED BY <2>3, <2>4 DEF p
<1>9. \A i, j \in 1..Len(t) : i < j => t[i].at < t[j].at
  <2> SUFFICES ASSUME NEW i \in 1..Len(t), NEW j \in 1..Len(t), i < j
               PROVE  t[i].at < t[j].at
    OBVIOUS
  <2>1. pos[i] < pos[j]
    BY <1>5 DEF Picks
  <2> QED BY <1>7, <1>8, <2>1
<1>10. ASSUME NEW k \in Nat, f <= k, k < f + PktLen, Chan(k) = c
       PROVE  \E i \in 1..Len(t) : t[i].at = k
  <2>1. k - f + 1 \in 1..PktLen /\ f + (k - f + 1) - 1 = k
    BY <1>1, <1>10
  <2>2. words[k - f + 1].ch = c
    BY <1>3, <1>10, <2>1
  <2>3. PICK i \in 1..Len(t) : pos[i] = k - f + 1
    BY <1>5, <2>1, <2>2 DEF Picks
  <2> QED BY <1>8, <2>1, <2>3
<1>11. ASSUME c \notin names PROVE t = <<>>
  <2>1. 1 \notin 1..Len(t)
    BY <1>8, <1>11, SentIsWord
  <2> QED BY <1>6, <2>1
<1>12. ASSUME c \in names
       PROVE  BeginsAt(t, f, c) /\ EndsBefore(t, f + PktLen, c)
  <2>1. PICK k \in Nat : f <= k /\ k < f + Turn /\ Chan(k) = c
    BY <1>12, TurnsRepeat
  <2>2. PICK i \in 1..Len(t) : t[i].at = k
    BY <1>1, <1>10, <2>1
  <2>3. f + PktLen - Turn \in Nat
    BY <1>1
  <2>4. PICK l \in Nat : /\ f + PktLen - Turn <= l
                         /\ l < (f + PktLen - Turn) + Turn /\ Chan(l) = c
    BY <1>12, <2>3, TurnsRepeat
  <2>5. PICK j \in 1..Len(t) : t[j].at = l
    BY <1>1, <1>10, <2>4
  <2>6. 1 \in 1..Len(t) /\ Len(t) \in 1..Len(t) /\ t # <<>>
    BY <1>6, <2>2
  <2>7. t[1].at <= k
    <3>1. i = 1 \/ 1 < i
      OBVIOUS
    <3> QED BY <1>8, <1>9, <2>2, <2>6, <3>1
  <2>8. l <= t[Len(t)].at
    <3>1. j = Len(t) \/ j < Len(t)
      BY <1>6
    <3> QED BY <1>8, <1>9, <2>5, <2>6, <3>1
  <2>9. f <= t[1].at /\ t[Len(t)].at < f + PktLen
    BY <1>8, <2>6
  <2>10. t[1].at \in Nat /\ t[Len(t)].at \in Nat /\ Chan(t[1].at) = c
           /\ Chan(t[Len(t)].at) = c
    BY <1>8, <2>6
  <2> QED BY <1>1, <2>1, <2>4, <2>6, <2>7, <2>8, <2>9, <2>10
          DEF BeginsAt, EndsBefore
<1>13. ASSUME NEW j \in 1..(Len(t) - 1) PROVE t[j + 1].at = t[j].at + Turn
  <2>1. j \in 1..Len(t) /\ j + 1 \in 1..Len(t) /\ j < j + 1
    BY <1>6
  <2> DEFINE a == t[j].at
             b == t[j + 1].at
  <2>2. a \in Nat /\ b \in Nat /\ a < b /\ Chan(a) = c /\ Chan(b) = c
    BY <1>8, <1>9, <2>1
  <2>3. f <= a /\ b < f + PktLen
    BY <1>8, <2>1
  <2> HIDE DEF a, b
  <2>4. a + Turn <= b /\ Chan(a + Turn) = c /\ a + Turn \in Nat
    BY <1>1, <2>2, TurnsRepeat
  <2>5. CASE a + Turn < b
    <3>1. PICK i \in 1..Len(t) : t[i].at = a + Turn
      BY <1>1, <1>10, <2>2, <2>3, <2>4, <2>5
    <3>2. i <= j \/ j + 1 <= i
      OBVIOUS
    <3>3. i <= j => t[i].at <= a
      <4>1. i < j => t[i].at < a
        BY <1>9, <2>1 DEF a
      <4> QED BY <1>8, <2>1, <2>2, <4>1 DEF a
    <3>4. j + 1 <= i => b <= t[i].at
      <4>1. j + 1 < i => b < t[i].at
        BY <1>9, <2>1 DEF b
      <4> QED BY <1>8, <2>1, <2>2, <4>1 DEF b
    <3> QED BY <1>1, <2>2, <2>5, <3>1, <3>2, <3>3, <3>4
  <2> QED BY <1>1, <2>2, <2>4, <2>5 DEF a, b
<1>14. Holes(t) = {}
  BY <1>13 DEF Holes
<1> QED BY <1>6, <1>11, <1>12, <1>14 DEF t, words

(* The next packet goes on where the stream ends; one further on does not. *)
LEMMA NextPacket ==
  ASSUME NEW s \in Seq(Word), NEW t \in Seq(Word), NEW c, PktLen >= Turn,
         NEW n \in Nat, NEW f \in Nat, EndsBefore(s, n, c), BeginsAt(t, f, c)
  PROVE  /\ f = n => t[1].at = s[Len(s)].at + Turn
         /\ f >= n + PktLen => t[1].at # s[Len(s)].at + Turn
<1> DEFINE a == s[Len(s)].at
           b == t[1].at
<1>1. a \in Nat /\ b \in Nat /\ Turn \in Nat /\ Turn >= 1
  <2>1. Len(s) \in 1..Len(s) /\ 1 \in 1..Len(t)
    BY DEF EndsBefore, BeginsAt
  <2>2. s[Len(s)] \in Word /\ t[1] \in Word
    BY <2>1
  <2>3. a \in Nat /\ b \in Nat
    BY <2>2 DEF Word
  <2> QED BY <2>3, SentIsWord
<1>2. /\ n - Turn <= a /\ a < n /\ Chan(a) = c
      /\ f <= b /\ b < f + Turn /\ Chan(b) = c
  BY DEF EndsBefore, BeginsAt
<1> HIDE DEF a, b
<1>3. f = n => b = a + Turn
  <2> SUFFICES ASSUME f = n PROVE b = a + Turn
    OBVIOUS
  <2>1. a < b /\ a + Turn <= b
    <3>1. a < b
      BY <1>1, <1>2
    <3> QED BY <1>1, <1>2, <3>1, TurnsRepeat
  <2>2. a + Turn \in Nat /\ Chan(a + Turn) = c
    BY <1>1, <1>2, TurnsRepeat
  <2>3. ~(a + Turn < b)
    <3>1. a + Turn < b => (a + Turn) + Turn <= b
      BY <1>1, <1>2, <2>2, TurnsRepeat
    <3> QED BY <1>1, <1>2, <3>1
  <2> QED BY <1>1, <2>1, <2>3
<1>4. f >= n + PktLen => b # a + Turn
  BY <1>1, <1>2, PktLenAssumption
<1> QED BY <1>3, <1>4 DEF a, b

(* The holes of a stream and of what is joined to it. *)
LEMMA HolesJoined ==
  ASSUME NEW s \in Seq(Word), NEW t \in Seq(Word), s # <<>>, t # <<>>,
         Holes(t) = {}
  PROVE  /\ s \o t \in Seq(Word) /\ s \o t # <<>>
         /\ Len(s \o t) = Len(s) + Len(t)
         /\ (s \o t)[Len(s \o t)] = t[Len(t)]
         /\ Holes(s \o t) =
              IF t[1].at = s[Len(s)].at + Turn THEN Holes(s)
              ELSE Holes(s) \cup {Len(s)}
<1> DEFINE u == s \o t
           m == Len(s)
           n == Len(t)
<1>1. /\ m \in Nat /\ n \in Nat /\ m >= 1 /\ n >= 1
      /\ u \in Seq(Word) /\ Len(u) = m + n
      /\ \A k \in 1..(m + n) : u[k] = IF k <= m THEN s[k] ELSE t[k - m]
  OBVIOUS
<1> HIDE DEF u
<1>2. u # <<>> /\ u[Len(u)] = t[n]
  BY <1>1
<1>3. \A k \in 1..(n - 1) : t[k + 1].at = t[k].at + Turn
  BY DEF Holes
<1> DEFINE whole(k) == u[k + 1].at = u[k].at + Turn
<1>4. \A k \in 1..(m - 1) : whole(k) <=> s[k + 1].at = s[k].at + Turn
  BY <1>1
<1>5. whole(m) <=> t[1].at = s[m].at + Turn
  BY <1>1
<1>6. \A k \in (m + 1)..(m + n - 1) : whole(k)
  <2> SUFFICES ASSUME NEW k \in (m + 1)..(m + n - 1) PROVE whole(k)
    OBVIOUS
  <2>1. k - m \in 1..(n - 1) /\ k \in 1..(m + n) /\ k + 1 \in 1..(m + n)
          /\ ~(k <= m) /\ ~(k + 1 <= m) /\ (k + 1) - m = (k - m) + 1
    BY <1>1
  <2>2. u[k] = t[k - m] /\ u[k + 1] = t[(k - m) + 1]
    BY <1>1, <2>1
  <2> QED BY <1>3, <2>1, <2>2
<1>7. Holes(u) = {k \in 1..(m + n - 1) : ~whole(k)}
  BY <1>1 DEF Holes
<1>8. Holes(s) = {k \in 1..(m - 1) : ~whole(k)}
  BY <1>4 DEF Holes
<1>9. \A k \in 1..(m + n - 1) :
        k \in 1..(m - 1) \/ k = m \/ k \in (m + 1)..(m + n - 1)
  BY <1>1
<1>10. \A k \in 1..(m - 1) : k \in 1..(m + n - 1)
  BY <1>1
<1>11. m \in 1..(m + n - 1)
  BY <1>1
<1> HIDE DEF whole, m, n
<1>12. Holes(u) = IF whole(m) THEN Holes(s) ELSE Holes(s) \cup {m}
  BY <1>6, <1>7, <1>8, <1>9, <1>10, <1>11
<1> QED BY <1>1, <1>2, <1>5, <1>12 DEF u, m, n

-----------------------------------------------------------------------------
(* The packets on the wire *)

IsSamples(d) == d.type = "SAMPLES"

(* A packet that begins at b follows one that begins at a.                  *)
Follow(a, b) == b = a + PktLen \/ b >= a + 2 * PktLen

(* The packets of w follow one another, and one that begins at n may come.  *)
Spaced(w, n) ==
  /\ w \in Seq(Sendable) /\ n \in Nat
  /\ \A i \in 1..Len(w) : IsSamples(w[i]) => Follow(w[i].first_index, n)
  /\ \A i, j \in 1..Len(w) :
       i < j /\ IsSamples(w[i]) /\ IsSamples(w[j])
         => Follow(w[i].first_index, w[j].first_index)

(* What a datagram of the stand-in carries. *)
LEMMA SendableFields ==
  /\ \A s \in Nat : InfoAs(s) \in Sendable /\ ~IsSamples(InfoAs(s))
  /\ \A s, f \in Nat : LET d == SamplesAs(s, f) IN
       /\ d \in Sendable /\ IsSamples(d)
       /\ d.first_index = f /\ d.words = Packet(f)
       /\ d.epoch = 1 /\ d.overflow_count = 0
<1>1. \A s \in Nat : InfoAs(s).type = "INFO"
  BY DEF InfoAs, Info
<1>2. \A s, f \in Nat : LET d == SamplesAs(s, f) IN
        /\ d.type = "SAMPLES" /\ d.first_index = f /\ d.words = Packet(f)
        /\ d.epoch = 1 /\ d.overflow_count = 0
  BY DEF SamplesAs, Samples, Packet
<1> QED BY <1>1, <1>2, SendableParts DEF IsSamples

(* The fields of a samples datagram that the receiver looks at. *)
LEMMA SamplesFields ==
  ASSUME NEW d \in Sendable, IsSamples(d)
  PROVE  /\ d.first_index \in Nat /\ d.words = Packet(d.first_index)
         /\ d.epoch = 1 /\ d.overflow_count = 0
<1>1. PICK s \in Nat, f \in Nat : d = InfoAs(s) \/ d = SamplesAs(s, f)
  <2>1. 0 \in Nat
    OBVIOUS
  <2> QED BY <2>1 DEF Sendable
<1>2. d = SamplesAs(s, f)
  BY <1>1, SendableFields
<1> QED BY <1>2, SendableFields

(* A datagram more; its number does not matter here. *)
LEMMA AppendParts ==
  ASSUME NEW w \in Seq(Sendable), NEW x \in Sendable
  PROVE  /\ Append(w, x) \in Seq(Sendable) /\ Len(w) \in Nat
         /\ Len(Append(w, x)) = Len(w) + 1
         /\ \A i \in 1..Len(w) : Append(w, x)[i] = w[i]
         /\ Append(w, x)[Len(w) + 1] = x
         /\ \A i \in 1..(Len(w) + 1) : i \in 1..Len(w) \/ i = Len(w) + 1
         /\ Extends(Append(w, x), w)
<1>1. /\ Append(w, x) \in Seq(Sendable) /\ Len(w) \in Nat
      /\ Len(Append(w, x)) = Len(w) + 1
      /\ \A i \in 1..Len(w) : Append(w, x)[i] = w[i]
      /\ Append(w, x)[Len(w) + 1] = x
      /\ \A i \in 1..(Len(w) + 1) : i \in 1..Len(w) \/ i = Len(w) + 1
  OBVIOUS
<1> QED BY <1>1 DEF Extends

(* A packet is dropped, *)
LEMMA SpacedSkips ==
  ASSUME NEW w, NEW n, Spaced(w, n)
  PROVE  Spaced(w, n + PktLen)
<1>1. PktLen \in Nat /\ n \in Nat
  BY PktLenAssumption DEF Spaced
<1>2. ASSUME NEW i \in 1..Len(w), IsSamples(w[i])
      PROVE  Follow(w[i].first_index, n + PktLen)
  <2>1. w[i] \in Sendable
    BY DEF Spaced
  <2>2. w[i].first_index \in Nat
    BY <1>2, <2>1, SamplesFields
  <2>3. Follow(w[i].first_index, n)
    BY <1>2 DEF Spaced
  <2> QED BY <1>1, <2>2, <2>3 DEF Follow
<1> QED BY <1>1, <1>2 DEF Spaced

(* an INFO is sent,                                                         *)
LEMMA SpacedInfo ==
  ASSUME NEW w, NEW n, Spaced(w, n), NEW s \in Nat
  PROVE  Spaced(Append(w, InfoAs(s)), n)
<1> DEFINE x == InfoAs(s)
           v == Append(w, x)
<1>1. w \in Seq(Sendable) /\ n \in Nat /\ x \in Sendable /\ ~IsSamples(x)
  BY SendableFields DEF Spaced
<1> HIDE DEF x
<1>2. /\ v \in Seq(Sendable) /\ Len(v) = Len(w) + 1
      /\ \A i \in 1..Len(w) : v[i] = w[i]
      /\ v[Len(w) + 1] = x
      /\ \A i \in 1..(Len(w) + 1) : i \in 1..Len(w) \/ i = Len(w) + 1
  BY <1>1, AppendParts
<1> HIDE DEF v
<1>3. \A i \in 1..Len(v) : IsSamples(v[i]) => i \in 1..Len(w) /\ v[i] = w[i]
  BY <1>1, <1>2
<1>4. Spaced(v, n)
  BY <1>1, <1>2, <1>3 DEF Spaced
<1> QED BY <1>4 DEF v, x

(* or a packet is.                                                          *)
LEMMA SpacedPacket ==
  ASSUME NEW w, NEW n, Spaced(w, n), NEW s \in Nat
  PROVE  Spaced(Append(w, SamplesAs(s, n)), n + PktLen)
<1> DEFINE x == SamplesAs(s, n)
           v == Append(w, x)
<1>1. /\ w \in Seq(Sendable) /\ n \in Nat /\ x \in Sendable
      /\ x.first_index = n
  BY SendableFields DEF Spaced
<1> HIDE DEF x
<1>2. /\ v \in Seq(Sendable) /\ Len(v) = Len(w) + 1 /\ Len(w) \in Nat
      /\ \A i \in 1..Len(w) : v[i] = w[i]
      /\ v[Len(w) + 1] = x
      /\ \A i \in 1..(Len(w) + 1) : i \in 1..Len(w) \/ i = Len(w) + 1
  BY <1>1, AppendParts
<1> HIDE DEF v
<1>3. \A i \in 1..Len(w) :
        IsSamples(w[i]) => /\ Follow(w[i].first_index, n)
                           /\ Follow(w[i].first_index, n + PktLen)
  BY SpacedSkips DEF Spaced
<1>4. Follow(n, n + PktLen) /\ n + PktLen \in Nat
  BY <1>1, PktLenAssumption DEF Follow
<1>5. \A i \in 1..Len(v) :
        IsSamples(v[i]) => Follow(v[i].first_index, n + PktLen)
  BY <1>1, <1>2, <1>3, <1>4
<1>6. ASSUME NEW i \in 1..Len(v), NEW j \in 1..Len(v), i < j,
             IsSamples(v[i]), IsSamples(v[j])
      PROVE  Follow(v[i].first_index, v[j].first_index)
  <2>1. i \in 1..Len(w) /\ v[i] = w[i]
    BY <1>2, <1>6
  <2>2. CASE j \in 1..Len(w)
    BY <1>2, <1>6, <2>1, <2>2 DEF Spaced
  <2>3. CASE j = Len(w) + 1
    BY <1>1, <1>2, <1>3, <1>6, <2>1, <2>3
  <2> QED BY <1>2, <2>2, <2>3
<1>7. Spaced(v, n + PktLen)
  BY <1>2, <1>4, <1>5, <1>6 DEF Spaced
<1> QED BY <1>7 DEF v, x

(* A burst of them. *)
LEMMA BurstSpaced ==
  ASSUME NEW s \in Nat, NEW infos, NEW k \in Nat, NEW burst,
         Bursts(s, infos, burst, k), Spaced(wire \o infos, sent)
  PROVE  /\ Spaced(burst[k], sent + k * PktLen)
         /\ Extends(burst[k], wire \o infos)
<1> DEFINE w == wire \o infos
           Good(i) == /\ Spaced(burst[i], sent + i * PktLen)
                      /\ Extends(burst[i], w)
           Bad == {i \in 0..k : ~Good(i)}
<1>1. SUFFICES ASSUME Bad # {} PROVE FALSE
  <2>1. k \in 0..k
    OBVIOUS
  <2>2. k \notin Bad => Good(k)
    BY <2>1
  <2> QED BY <2>2
<1>2. PICK i \in Bad : \A j \in Bad : i <= j
  <2>1. Bad \subseteq Nat
    OBVIOUS
  <2> HIDE DEF Bad
  <2> QED BY <1>1, <2>1, Smallest
<1>3. i \in 0..k /\ ~Good(i)
  OBVIOUS
<1>4. \A j \in 0..k : j < i => Good(j)
  <2> HIDE DEF Good
  <2> QED BY <1>2, <1>3
<1> HIDE DEF Bad
<1>5. burst[i] = BurstStep(s, infos, burst, i)
  BY <1>3 DEF Bursts
<1>6. w \in Seq(Sendable) /\ sent \in Nat /\ PktLen \in Nat
  BY PktLenAssumption DEF Spaced
<1>7. CASE i = 0
  <2>1. burst[0] = w
    BY <1>5, <1>7 DEF BurstStep
  <2>2. sent + 0 * PktLen = sent
    BY <1>6
  <2>3. Extends(w, w)
    BY <1>6 DEF Extends
  <2> HIDE DEF w
  <2> QED BY <1>3, <1>7, <2>1, <2>2, <2>3 DEF w
<1>8. CASE i # 0
  <2> DEFINE v == burst[i - 1]
             n == sent + (i - 1) * PktLen
             q == s + (i - 1)
  <2>1. i - 1 \in 0..k /\ i - 1 < i /\ q \in Nat
    BY <1>3, <1>8
  <2>2. Spaced(v, n) /\ Extends(v, w)
    BY <1>4, <2>1
  <2>3. n + PktLen = sent + i * PktLen
    <3>1. i * PktLen = (i - 1) * PktLen + PktLen
      BY <1>3, <1>6
    <3>2. (i - 1) * PktLen \in Nat
      BY <1>6, <2>1
    <3> QED BY <1>6, <3>1, <3>2
  <2>4. burst[i] = IF Drops(q) THEN v ELSE Append(v, SamplesAs(q, n))
    BY <1>5, <1>8 DEF BurstStep, SeqAfter
  <2> HIDE DEF v, n, q
  <2>5. Spaced(v, n + PktLen)
    BY <2>2, SpacedSkips
  <2>6. Spaced(Append(v, SamplesAs(q, n)), n + PktLen)
    BY <2>1, <2>2, SpacedPacket
  <2>7. Extends(Append(v, SamplesAs(q, n)), w)
    <3> DEFINE x == SamplesAs(q, n)
    <3>1. v \in Seq(Sendable) /\ x \in Sendable
      BY <2>1, <2>2, SendableFields DEF Spaced
    <3> HIDE DEF x
    <3>2. /\ Len(Append(v, x)) = Len(v) + 1 /\ Len(v) \in Nat
          /\ \A j \in 1..Len(v) : Append(v, x)[j] = v[j]
      BY <3>1, AppendParts
    <3>3. Len(w) \in Nat
      BY <1>6
    <3>4. Extends(Append(v, x), w)
      BY <2>2, <3>2, <3>3 DEF Extends
    <3> QED BY <3>4 DEF x
  <2> QED BY <1>3, <2>2, <2>3, <2>4, <2>5, <2>6, <2>7
<1> QED BY <1>7, <1>8

(* The stand-in's packets follow one another, and what is on the wire       *)
(* stays.                                                                   *)
LEMMA SpacedStep ==
  ASSUME LossInv, Spaced(wire, sent), [SessionNext]_sessionVars
  PROVE  Spaced(wire, sent)' /\ Extends(wire', wire)
<1>1. Extends(wire, wire) /\ wire \in Seq(Sendable)
  BY DEF Spaced, Extends
<1>2. CASE UNCHANGED <<wire, sent>>
  BY <1>1, <1>2
<1>3. CASE ServeFirstHello
  <2> DEFINE x == InfoAs(seq)
  <2>1. seq \in Nat /\ wire' = Append(wire, x) /\ sent' = sent
    BY <1>3 DEF ServeFirstHello, LossInv, Serving
  <2>2. Spaced(Append(wire, x), sent) /\ x \in Sendable
    BY <2>1, SpacedInfo, SendableFields
  <2> HIDE DEF x
  <2>3. Extends(Append(wire, x), wire)
    BY <1>1, <2>2, AppendParts
  <2> QED BY <2>1, <2>2, <2>3
<1>4. CASE ServeHello \/ Serve
  <2>1. PICK s \in Nat : \E infos :
          /\ infos = <<>> \/ infos = <<InfoAs(seq)>>
          /\ Stream(s, infos)
    <3>1. seq \in Nat /\ seq + 1 \in Nat
      BY DEF LossInv, Serving
    <3>2. CASE ServeHello
      BY <3>1, <3>2 DEF ServeHello
    <3>3. CASE Serve
      <4> DEFINE timely == now - last_info > InfoPeriod
      <4>1. Stream(IF timely THEN seq + 1 ELSE seq,
                   IF timely THEN <<InfoAs(seq)>> ELSE <<>>)
        BY <3>3 DEF Serve
      <4> HIDE DEF timely
      <4>2. CASE timely
        BY <3>1, <4>1, <4>2
      <4>3. CASE ~timely
        BY <3>1, <4>1, <4>3
      <4> QED BY <4>2, <4>3
    <3> QED BY <1>4, <3>2, <3>3
  <2>2. PICK infos : /\ infos = <<>> \/ infos = <<InfoAs(seq)>>
                     /\ Stream(s, infos)
    BY <2>1
  <2>3. stream_t0 # NONE /\ Serving /\ seq \in Nat
    BY <1>4 DEF LossInv, Serving, ServeHello, Serve, Leased
  <2> DEFINE k == DueNow
  <2>4. k \in Nat
    BY <2>3, DueType
  <2>5. PICK burst : Bursts(s, infos, burst, k) /\ wire' = burst[k]
    BY <2>2, <2>4, StreamBursts
  <2>6. sent' = sent + k * PktLen
    BY <2>2 DEF Stream, DueNow
  <2> HIDE DEF k
  <2>7. Spaced(wire \o infos, sent) /\ Extends(wire \o infos, wire)
    <3>1. CASE infos = <<>>
      <4>1. wire \o infos = wire
        BY <1>1, <3>1
      <4> QED BY <1>1, <4>1
    <3>2. CASE infos = <<InfoAs(seq)>>
      <4> DEFINE x == InfoAs(seq)
      <4>1. Spaced(Append(wire, x), sent) /\ x \in Sendable
        BY <2>3, SpacedInfo, SendableFields
      <4>2. infos = <<x>>
        BY <3>2
      <4> HIDE DEF x
      <4>3. wire \o infos = Append(wire, x)
        BY <1>1, <4>1, <4>2
      <4>4. Extends(Append(wire, x), wire)
        BY <1>1, <4>1, AppendParts
      <4> QED BY <4>1, <4>3, <4>4
    <3> QED BY <2>2, <3>1, <3>2
  <2>8. /\ Spaced(burst[k], sent + k * PktLen)
        /\ Extends(burst[k], wire \o infos)
    BY <2>4, <2>5, <2>7, BurstSpaced
  <2>9. Extends(wire', wire)
    <3>1. Len(wire) \in Nat /\ Len(wire \o infos) \in Nat /\ Len(wire') \in Nat
      <4>1. wire \o infos \in Seq(Sendable) /\ wire' \in Seq(Sendable)
        BY <2>5, <2>7, <2>8 DEF Spaced
      <4> QED BY <1>1, <4>1
    <3> QED BY <2>5, <2>7, <2>8, <3>1 DEF Extends
  <2> QED BY <2>5, <2>6, <2>8, <2>9
<1> QED BY <1>2, <1>3, <1>4 DEF SessionNext, Next, Tick, sessionVars, vars,
          Deliver, StartRecording, AddBlock

-----------------------------------------------------------------------------
(* What the receiver has heard *)

Ascending(g) == \A i, j \in 1..Len(g) : i < j => g[i] <= g[j]

(* A list stays in order when nothing smaller is appended. *)
LEMMA AscendingAppend ==
  ASSUME NEW g \in Seq(Nat), Ascending(g), NEW x \in Nat,
         \A m \in ToSet(g) : m <= x
  PROVE  /\ Append(g, x) \in Seq(Nat) /\ Ascending(Append(g, x))
         /\ ToSet(Append(g, x)) = ToSet(g) \cup {x}
<1> DEFINE h == Append(g, x)
           n == Len(g)
<1>1. /\ h \in Seq(Nat) /\ Len(h) = n + 1 /\ n \in Nat /\ h[n + 1] = x
      /\ \A i \in 1..n : h[i] = g[i] /\ g[i] \in Nat
      /\ DOMAIN g = 1..n /\ DOMAIN h = 1..(n + 1)
      /\ \A i \in 1..(n + 1) : i \in 1..n \/ i = n + 1
      /\ \A i \in 1..n : i \in 1..(n + 1)
      /\ n + 1 \in 1..(n + 1)
  OBVIOUS
<1> HIDE DEF h
<1>2. \A i \in 1..n : g[i] <= x
  BY <1>1 DEF ToSet
<1> HIDE DEF n
<1>3. ToSet(h) = ToSet(g) \cup {x}
  BY <1>1 DEF ToSet
<1>4. ASSUME NEW i \in 1..(n + 1), NEW j \in 1..(n + 1), i < j
      PROVE  h[i] <= h[j]
  <2>1. i \in 1..n
    BY <1>1, <1>4
  <2>2. j \in 1..n => h[i] <= h[j]
    BY <1>1, <1>4, <2>1 DEF Ascending, n
  <2> QED BY <1>1, <1>2, <2>1, <2>2
<1>5. Ascending(h)
  BY <1>1, <1>4 DEF Ascending
<1> QED BY <1>1, <1>3, <1>5 DEF h

(* One channel's stream, dr drained and ch not, its marks, dg drained and g *)
(* not, and n, the index expected next: the marks are the holes, and the    *)
(* stream goes up to n.                                                     *)
Hears(c, dr, ch, g, dg, n) ==
  /\ dr \in Seq(Word) /\ ch \in Seq(Word) /\ g \in Seq(Nat) /\ Ascending(g)
  /\ dg \cup ToSet(g) = Holes(dr \o ch)
  /\ \A m \in dg : m < Len(dr)
  /\ \A m \in ToSet(g) : Len(dr) <= m
  /\ IF c \in names /\ n # -1 THEN EndsBefore(dr \o ch, n, c)
     ELSE dr \o ch = <<>>

(* Words joined to the pending ones are joined to all that was heard. *)
LEMMA Joined ==
  ASSUME NEW a \in Seq(Word), NEW b \in Seq(Word), NEW t \in Seq(Word)
  PROVE  /\ b \o t \in Seq(Word) /\ a \o (b \o t) = (a \o b) \o t
         /\ Len(a \o (b \o t)) = Len(a \o b) + Len(t)
<1>1. a \o (b \o t) = (a \o b) \o t
  BY ConcatAssociative
<1> QED BY <1>1

(* The words of two lists joined, by their index. *)
LEMMA JoinedWords ==
  ASSUME NEW a \in Seq(Word), NEW b \in Seq(Word)
  PROVE  /\ a \o b \in Seq(Word) /\ Len(a \o b) = Len(a) + Len(b)
         /\ Len(a) \in Nat /\ Len(b) \in Nat
         /\ \A k \in 1..(Len(a) + Len(b)) :
              (a \o b)[k] = IF k <= Len(a) THEN a[k] ELSE b[k - Len(a)]
OBVIOUS

(* A packet comes, and the end of the stream is marked before it if it does *)
(* not begin where it is expected.                                          *)
LEMMA HearsPacket ==
  ASSUME NEW c \in Channels, NEW dr, NEW ch, NEW g, NEW dg, NEW n,
         Hears(c, dr, ch, g, dg, n), PktLen >= Turn, NEW f \in Nat,
         n = -1 \/ (n \in Nat /\ (f = n \/ f >= n + PktLen)),
         NEW h, h = IF n # -1 /\ f # n /\ dr \o ch # <<>>
                    THEN Append(g, Len(dr \o ch)) ELSE g
  PROVE  Hears(c, dr, ch \o split_words(Packet(f), c), h, dg, f + PktLen)
<1> DEFINE s == dr \o ch
           t == split_words(Packet(f), c)
<1>1. /\ dr \in Seq(Word) /\ ch \in Seq(Word) /\ g \in Seq(Nat) /\ Ascending(g)
      /\ dg \cup ToSet(g) = Holes(s)
      /\ \A m \in dg : m < Len(dr)
      /\ \A m \in ToSet(g) : Len(dr) <= m
      /\ IF c \in names /\ n # -1 THEN EndsBefore(s, n, c) ELSE s = <<>>
  BY DEF Hears
<1>2. /\ t \in Seq(Word) /\ Holes(t) = {}
      /\ c \notin names => t = <<>>
      /\ c \in names => BeginsAt(t, f, c) /\ EndsBefore(t, f + PktLen, c)
  BY PacketOfChannel
<1> HIDE DEF t
<1>3. dr \o (ch \o t) = s \o t /\ ch \o t \in Seq(Word)
  <2>1. dr \in Seq(Word) /\ ch \in Seq(Word) /\ t \in Seq(Word)
    BY <1>1, <1>2
  <2> QED BY ONLY <2>1, Joined
<1>4. s \in Seq(Word) /\ Len(s) = Len(dr) + Len(ch) /\ Len(dr) \in Nat
        /\ Len(ch) \in Nat /\ Len(s) \in Nat
  BY <1>1
<1>5. f + PktLen # -1 /\ PktLen \in Nat
  BY PktLenAssumption
<1> HIDE DEF s
<1>6. CASE s = <<>>
  <2>1. h = g /\ s \o t = t
    BY <1>2, <1>6 DEF s
  <2>2. Holes(s) = {}
    BY <1>6 DEF Holes
  <2>3. c \in names => EndsBefore(t, f + PktLen, c)
    BY <1>2
  <2>4. c \notin names => t = <<>>
    BY <1>2
  <2>5. Hears(c, dr, ch \o t, g, dg, f + PktLen)
    BY <1>1, <1>2, <1>3, <1>5, <2>1, <2>2, <2>3, <2>4 DEF Hears
  <2> QED BY <2>1, <2>5 DEF t
<1>7. CASE s # <<>>
  <2>1. c \in names /\ n \in Nat /\ EndsBefore(s, n, c)
    BY <1>1, <1>7
  <2>2. BeginsAt(t, f, c) /\ EndsBefore(t, f + PktLen, c) /\ t # <<>>
    BY <1>2, <2>1 DEF BeginsAt
  <2>3. /\ Len(s \o t) = Len(s) + Len(t)
        /\ (s \o t)[Len(s \o t)] = t[Len(t)] /\ s \o t # <<>>
        /\ Holes(s \o t) = IF t[1].at = s[Len(s)].at + Turn THEN Holes(s)
                           ELSE Holes(s) \cup {Len(s)}
    BY <1>2, <1>4, <1>7, <2>2, HolesJoined
  <2>4. EndsBefore(s \o t, f + PktLen, c)
    BY <2>2, <2>3 DEF EndsBefore
  <2>5. CASE f = n
    <3>1. h = g /\ t[1].at = s[Len(s)].at + Turn
      BY <1>2, <1>4, <2>1, <2>2, <2>5, NextPacket
    <3>2. dg \cup ToSet(g) = Holes(s \o t)
      BY <1>1, <2>3, <3>1
    <3>3. Hears(c, dr, ch \o t, g, dg, f + PktLen)
      BY <1>1, <1>3, <1>5, <2>1, <2>4, <3>2 DEF Hears
    <3> QED BY <3>1, <3>3 DEF t
  <2>6. CASE f # n
    <3> DEFINE e == Append(g, Len(s))
    <3>0. f >= n + PktLen
      BY <2>1, <2>6
    <3>1. h = e /\ t[1].at # s[Len(s)].at + Turn
      <4>1. t[1].at # s[Len(s)].at + Turn
        BY <1>2, <1>4, <2>1, <2>2, <3>0, NextPacket
      <4>2. h = e
        BY <1>7, <2>1, <2>6 DEF s
      <4> QED BY <4>1, <4>2
    <3>2. \A m \in ToSet(g) : m <= Len(s)
      <4>1. \A m \in Holes(s) : m <= Len(s)
        BY <1>4 DEF Holes
      <4> QED BY <1>1, <4>1
    <3>3. e \in Seq(Nat) /\ Ascending(e) /\ ToSet(e) = ToSet(g) \cup {Len(s)}
      BY <1>1, <1>4, <3>2, AscendingAppend
    <3> HIDE DEF e
    <3>4. dg \cup ToSet(e) = Holes(s \o t)
      BY <1>1, <2>3, <3>1, <3>3
    <3>5. \A m \in ToSet(e) : Len(dr) <= m
      BY <1>1, <1>4, <3>3
    <3>6. Hears(c, dr, ch \o t, e, dg, f + PktLen)
      BY <1>1, <1>3, <1>5, <2>1, <2>4, <3>3, <3>4, <3>5 DEF Hears
    <3> QED BY <3>1, <3>6 DEF t
  <2> QED BY <2>5, <2>6
<1> QED BY <1>6, <1>7

(* What waits is drained. *)
LEMMA HearsDrain ==
  ASSUME NEW c, NEW dr, NEW ch, NEW g, NEW dg, NEW n,
         Hears(c, dr, ch, g, dg, n)
  PROVE  Hears(c, dr \o ch, <<>>, <<>>, dg \cup ToSet(g), n)
<1> DEFINE s == dr \o ch
           e == dg \cup ToSet(g)
<1>1. /\ s \in Seq(Word) /\ e = Holes(s)
      /\ IF c \in names /\ n # -1 THEN EndsBefore(s, n, c) ELSE s = <<>>
  BY DEF Hears
<1>2. s \o <<>> = s /\ <<>> \in Seq(Word) /\ <<>> \in Seq(Nat)
  BY <1>1
<1> HIDE DEF s, e
<1>3. \A m \in Holes(s) : m < Len(s)
  BY <1>1 DEF Holes
<1>4. Ascending(<<>>) /\ ToSet(<<>>) = {}
  BY DEF Ascending, ToSet
<1>5. Hears(c, s, <<>>, <<>>, e, n)
  BY <1>1, <1>2, <1>3, <1>4 DEF Hears
<1> QED BY <1>5 DEF s, e

(* The receiver has handled what arrived, and expects what follows the last *)
(* packet.                                                                  *)
HearInv ==
  /\ arrived \in 0..Len(wire)
  /\ \/ next_index = -1 /\ epoch = -1 /\ last_ovf = -1
     \/ /\ epoch = 1 /\ last_ovf = 0
        /\ \E p \in 1..arrived : /\ IsSamples(wire[p])
                                 /\ next_index = wire[p].first_index + PktLen
  /\ \A c \in Channels :
       /\ total[c] = Len(drained[c] \o chunks[c])
       /\ Hears(c, drained[c], chunks[c], gaps[c], drained_gaps[c], next_index)

(* At the start nothing is heard; *)
LEMMA HearInit ==
  ASSUME SessionInit
  PROVE  HearInv /\ Spaced(wire, sent)
<1>1. wire = <<>> /\ sent = 0 /\ arrived = 0 /\ Host!Init
  BY DEF SessionInit, Init
<1>2. /\ next_index = -1 /\ epoch = -1 /\ last_ovf = -1
      /\ \A c \in Channels :
           /\ total[c] = 0 /\ drained[c] = <<>> /\ chunks[c] = <<>>
           /\ gaps[c] = <<>> /\ drained_gaps[c] = {}
  BY <1>1, SameProtocol DEF Host!Init
<1>3. <<>> \o <<>> = <<>> /\ Len(<<>>) = 0 /\ <<>> \in Seq(Word)
        /\ <<>> \in Seq(Nat) /\ <<>> \in Seq(Sendable)
  OBVIOUS
<1>4. Ascending(<<>>) /\ ToSet(<<>>) = {} /\ Holes(<<>>) = {}
  BY DEF Ascending, ToSet, Holes
<1>5. \A c : Hears(c, <<>>, <<>>, <<>>, {}, -1)
  BY <1>3, <1>4 DEF Hears
<1>6. Spaced(<<>>, 0)
  BY <1>3 DEF Spaced
<1>7. \A c \in Channels :
        /\ total[c] = Len(drained[c] \o chunks[c])
        /\ Hears(c, drained[c], chunks[c], gaps[c], drained_gaps[c],
                 next_index)
  BY <1>2, <1>3, <1>5
<1>8. arrived \in 0..Len(wire)
  BY <1>1, <1>3
<1> QED BY <1>1, <1>2, <1>6, <1>7, <1>8 DEF HearInv

(* What a packet makes of the receiver.                                     *)
LEMMA SamplesHandled ==
  ASSUME NEW d \in Sendable, IsSamples(d), Host!HandleSamples(d),
         \/ next_index = -1 /\ epoch = -1 /\ last_ovf = -1
         \/ /\ epoch = 1 /\ last_ovf = 0 /\ next_index \in Nat
            /\ d.first_index >= next_index,
         NEW c \in Channels, total[c] = Len(drained[c] \o chunks[c]),
         Hears(c, drained[c], chunks[c], gaps[c], drained_gaps[c], next_index)
  PROVE  LET f == d.first_index IN
         /\ epoch' = 1 /\ last_ovf' = 0 /\ next_index' = f + PktLen
         /\ chunks'[c] = chunks[c] \o split_words(Packet(f), c)
         /\ total'[c] = total[c] + Len(split_words(Packet(f), c))
         /\ drained' = drained /\ drained_gaps' = drained_gaps
         /\ gaps'[c] = IF next_index # -1 /\ f # next_index
                            /\ drained[c] \o chunks[c] # <<>>
                       THEN Append(gaps[c], Len(drained[c] \o chunks[c]))
                       ELSE gaps[c]
<1> DEFINE f == d.first_index
           s == drained[c] \o chunks[c]
           g == gaps[c]
<1>1. /\ f \in Nat /\ d.words = Packet(f) /\ d.epoch = 1
      /\ d.overflow_count = 0
  BY SamplesFields
<1>2. Len(d.words) = PktLen
  BY <1>1, PktLenAssumption DEF Packet
<1>3. ~Host!Reopens(d) /\ ~Host!Overflowed(d)
  BY <1>1, SameProtocol DEF Host!Reopens, Host!Overflowed
<1>4. ~Host!Stale(d) /\ (Host!Jumps(d) <=> next_index # -1 /\ f # next_index)
  <2>1. CASE next_index = -1 /\ epoch = -1
    BY <1>1, <2>1, SameProtocol DEF Host!Stale, Host!Jumps, Host!Expected
  <2>2. CASE epoch = 1 /\ next_index \in Nat /\ f >= next_index
    BY <1>1, <2>2, SameProtocol DEF Host!Stale, Host!Jumps, Host!Expected
  <2> QED BY <2>1, <2>2
<1>5. epoch' = 1 /\ last_ovf' = 0
  BY <1>1 DEF Host!HandleSamples
<1>6. /\ next_index' = f + PktLen
      /\ chunks' = [k \in Channels |-> chunks[k] \o split_words(d.words, k)]
      /\ total' = [k \in Channels |->
                     total[k] + Len(split_words(d.words, k))]
      /\ drained' = drained /\ drained_gaps' = drained_gaps
  BY <1>2, <1>4, SameProtocol DEF Host!HandleSamples
<1>7. gaps'[c] = IF Host!Jumps(d) /\ total[c] # 0
                      /\ (g = <<>> \/ Host!Last(g) # total[c])
                 THEN Append(g, total[c]) ELSE g
  BY <1>3, SameProtocol DEF Host!HandleSamples, Host!mark_gap
<1>8. total[c] = Len(s) /\ s \in Seq(Word) /\ g \in Seq(Nat)
        /\ ToSet(g) \subseteq Holes(s)
  BY DEF Hears
<1> HIDE DEF s, g
<1>9. total[c] = 0 <=> s = <<>>
  BY <1>8
<1>10. g # <<>> => Host!Last(g) # total[c]
  <2>1. g # <<>> => g[Len(g)] \in ToSet(g)
    BY <1>8 DEF ToSet
  <2>2. \A m \in Holes(s) : m # Len(s)
    BY <1>8 DEF Holes
  <2> QED BY <1>8, <2>1, <2>2 DEF Host!Last
<1>11. gaps'[c] = IF next_index # -1 /\ f # next_index /\ s # <<>>
                  THEN Append(g, Len(s)) ELSE g
  BY <1>4, <1>7, <1>8, <1>9, <1>10
<1> QED BY <1>1, <1>5, <1>6, <1>11 DEF s, g

(* a datagram of the wire is heard after those before it,                   *)
LEMMA HearDeliver ==
  ASSUME Spaced(wire, sent), HearInv, PktLen >= Turn, Deliver
  PROVE  HearInv'
<1> DEFINE i == arrived + 1
           d == wire[i]
           f == d.first_index
<1>1. /\ wire' = wire /\ arrived' = i /\ Host!Handle(d)
      /\ arrived < Len(wire)
  BY DEF Deliver, vars
<1>2. /\ wire \in Seq(Sendable) /\ Len(wire) \in Nat /\ arrived \in Nat
      /\ i \in 1..Len(wire) /\ i \in 0..Len(wire) /\ d \in Sendable
      /\ \A p \in 1..arrived : p \in 1..i /\ p \in 1..Len(wire) /\ p < i
  BY <1>1 DEF Spaced, HearInv
<1>3. CASE ~IsSamples(d)
  <2>1. UNCHANGED <<epoch, next_index, last_ovf, chunks, total, gaps,
                    drained, drained_gaps>>
    BY <1>1, <1>3 DEF Host!Handle, Host!HandleInfo, Host!HandleSamples,
                      IsSamples
  <2> HIDE DEF i, d
  <2> QED BY <1>1, <1>2, <2>1 DEF HearInv
<1>4. CASE IsSamples(d)
  <2>1. Host!HandleSamples(d) /\ f \in Nat
    BY <1>1, <1>2, <1>4, SamplesFields
       DEF Host!Handle, Host!HandleInfo, IsSamples
  <2>2. \/ next_index = -1 /\ epoch = -1 /\ last_ovf = -1
        \/ /\ epoch = 1 /\ last_ovf = 0 /\ next_index \in Nat
           /\ f >= next_index /\ (f = next_index \/ f >= next_index + PktLen)
    <3>1. CASE next_index = -1 /\ epoch = -1 /\ last_ovf = -1
      BY <3>1
    <3>2. ASSUME NEW p \in 1..arrived, IsSamples(wire[p]), epoch = 1,
                 last_ovf = 0, next_index = wire[p].first_index + PktLen
          PROVE  /\ next_index \in Nat /\ f >= next_index
                 /\ f = next_index \/ f >= next_index + PktLen
      <4>1. wire[p] \in Sendable /\ p \in 1..Len(wire) /\ p < i
        BY <1>2
      <4>2. wire[p].first_index \in Nat
        BY <3>2, <4>1, SamplesFields
      <4>3. Follow(wire[p].first_index, f)
        BY <1>2, <1>4, <3>2, <4>1 DEF Spaced
      <4> HIDE DEF f
      <4> QED BY <2>1, <3>2, <4>2, <4>3, PktLenAssumption DEF Follow
    <3> QED BY <3>1, <3>2 DEF HearInv
  <2>3. next_index = -1 \/ (next_index \in Nat
                              /\ (f = next_index \/ f >= next_index + PktLen))
    BY <2>2
  <2>4. ASSUME NEW c \in Channels
        PROVE  /\ epoch' = 1 /\ last_ovf' = 0 /\ next_index' = f + PktLen
               /\ total'[c] = Len(drained'[c] \o chunks'[c])
               /\ Hears(c, drained'[c], chunks'[c], gaps'[c],
                        drained_gaps'[c], next_index')
    <3> DEFINE t == split_words(Packet(f), c)
               s == drained[c] \o chunks[c]
    <3>1. /\ total[c] = Len(s)
          /\ Hears(c, drained[c], chunks[c], gaps[c], drained_gaps[c],
                   next_index)
      BY DEF HearInv
    <3>2. /\ epoch' = 1 /\ last_ovf' = 0 /\ next_index' = f + PktLen
          /\ chunks'[c] = chunks[c] \o t
          /\ total'[c] = total[c] + Len(t)
          /\ drained' = drained /\ drained_gaps' = drained_gaps
          /\ gaps'[c] = IF next_index # -1 /\ f # next_index /\ s # <<>>
                        THEN Append(gaps[c], Len(s)) ELSE gaps[c]
      <4> HIDE DEF d, i
      <4> QED BY <1>2, <1>4, <2>1, <2>2, <3>1, SamplesHandled
    <3>3. Hears(c, drained[c], chunks[c] \o t, gaps'[c], drained_gaps[c],
                f + PktLen)
      <4> DEFINE h == gaps'[c]
      <4>1. h = IF next_index # -1 /\ f # next_index /\ s # <<>>
                THEN Append(gaps[c], Len(s)) ELSE gaps[c]
        BY <3>2
      <4> HIDE DEF h, f
      <4> QED BY <2>1, <2>3, <3>1, <4>1, HearsPacket DEF h
    <3>4. t \in Seq(Word)
      BY <2>1, PacketOfChannel
    <3> HIDE DEF t
    <3>5. Len(drained[c] \o (chunks[c] \o t)) = Len(s) + Len(t)
      <4>1. drained[c] \in Seq(Word) /\ chunks[c] \in Seq(Word)
        BY <3>1 DEF Hears
      <4>2. \A x, y, z \in Seq(Word) :
              Len(x \o (y \o z)) = Len(x \o y) + Len(z)
        BY ONLY Joined
      <4> QED BY ONLY <3>4, <4>1, <4>2, Zenon DEF s
    <3> QED BY <3>1, <3>2, <3>3, <3>5
  <2>5. 0 \in Channels
    BY DEF Channels
  <2>6. epoch' = 1 /\ last_ovf' = 0 /\ next_index' = f + PktLen
    BY <2>4, <2>5
  <2>7. \E p \in 1..arrived' : /\ IsSamples(wire'[p])
                               /\ next_index' = wire'[p].first_index + PktLen
    <3>1. i \in 1..arrived' /\ wire'[i] = d
      BY <1>1, <1>2
    <3> QED BY <1>4, <2>6, <3>1
  <2> QED BY <1>1, <1>2, <2>4, <2>6, <2>7 DEF HearInv
<1> QED BY <1>3, <1>4

(* and nothing else disturbs the receiver.                                  *)
LEMMA HearStep ==
  ASSUME LossInv, Spaced(wire, sent), HearInv, PktLen >= Turn,
         [SessionNext]_sessionVars
  PROVE  HearInv'
<1>1. CASE Deliver
  BY <1>1, HearDeliver
<1>2. CASE Host!Drain /\ UNCHANGED <<vars, arrived>>
  <2>1. UNCHANGED <<wire, arrived, epoch, last_ovf, next_index, total>>
    BY <1>2 DEF vars, Host!Drain
  <2>2. ASSUME NEW c \in Channels
        PROVE  /\ total'[c] = Len(drained'[c] \o chunks'[c])
               /\ Hears(c, drained'[c], chunks'[c], gaps'[c],
                        drained_gaps'[c], next_index')
    <3> DEFINE s == drained[c] \o chunks[c]
               e == drained_gaps[c] \cup ToSet(gaps[c])
    <3>1. /\ drained'[c] = s /\ chunks'[c] = <<>> /\ gaps'[c] = <<>>
          /\ drained_gaps'[c] = e
      BY <1>2, SameProtocol DEF Host!Drain, Host!Block
    <3>2. /\ total[c] = Len(s)
          /\ Hears(c, drained[c], chunks[c], gaps[c], drained_gaps[c],
                   next_index)
      BY DEF HearInv
    <3>3. Hears(c, s, <<>>, <<>>, e, next_index)
      BY <3>2, HearsDrain
    <3>4. s \o <<>> = s
      BY <3>2 DEF Hears
    <3> HIDE DEF s, e
    <3> QED BY <2>1, <3>1, <3>2, <3>3, <3>4
  <2> QED BY <2>1, <2>2 DEF HearInv
<1>3. CASE UNCHANGED <<hostVars, arrived>>
  <2>1. Extends(wire', wire) /\ wire' \in Seq(Sendable)
    BY SpacedStep DEF Spaced
  <2>2. UNCHANGED <<epoch, next_index, last_ovf, chunks, total, gaps,
                    drained, drained_gaps, arrived>>
    BY <1>3 DEF hostVars
  <2>3. /\ arrived \in 0..Len(wire) /\ Len(wire) <= Len(wire')
        /\ Len(wire') \in Nat /\ Len(wire) \in Nat
    BY <2>1 DEF HearInv, Extends, Spaced
  <2>4. arrived' \in 0..Len(wire')
    BY <2>2, <2>3
  <2>5. \A p \in 1..arrived : wire'[p] = wire[p]
    BY <2>1, <2>3 DEF Extends
  <2> QED BY <2>2, <2>4, <2>5 DEF HearInv
<1> QED BY <1>1, <1>2, <1>3 DEF SessionNext, StartRecording, AddBlock,
           sessionVars

-----------------------------------------------------------------------------
(* What the track has recorded *)

(* The Track's protocol is the stand-in's, too. *)
LEMMA SameTrack ==
  Recording!NONE = -1 /\ Recording!Channels = Channels
BY DEF Recording!NONE, Recording!Channels, Channels

(* One turn of the loop of JoinGaps. *)
JoinStep(g, more, b, joined, n) ==
  IF n = 0 THEN g
  ELSE LET rel == more[n] - b
           o   == joined[n - 1]
       IN  IF rel > 0 /\ (o = <<>> \/ o[Len(o)] # rel)
           THEN Append(o, rel) ELSE o

Joins(g, more, b, joined, n) ==
  joined = [k \in 0..n |-> JoinStep(g, more, b, joined, k)]

(* There is a function that JoinGaps' recursion describes. *)
LEMMA JoinExists ==
  ASSUME NEW g, NEW more, NEW b, NEW n \in Nat
  PROVE  \E joined : Joins(g, more, b, joined, n)
<1> DEFINE Bad == {m \in Nat : ~ \E joined : Joins(g, more, b, joined, m)}
<1> SUFFICES ASSUME n \in Bad PROVE FALSE
  OBVIOUS
<1>1. PICK m \in Bad : \A k \in Bad : m <= k
  <2>1. Bad \subseteq Nat /\ Bad # {}
    OBVIOUS
  <2> HIDE DEF Bad
  <2> QED BY <2>1, Smallest
<1>2. m \in Nat /\ ~ \E joined : Joins(g, more, b, joined, m)
  OBVIOUS
<1>3. CASE m = 0
  <2> DEFINE joined == [k \in 0..0 |-> g]
  <2>1. Joins(g, more, b, joined, 0)
    BY DEF Joins, JoinStep
  <2> QED BY <1>2, <1>3, <2>1
<1>4. CASE m # 0
  <2>1. m - 1 \in Nat /\ m - 1 \notin Bad
    BY <1>1, <1>2, <1>4
  <2>2. PICK old : Joins(g, more, b, old, m - 1)
    BY <2>1
  <2> DEFINE joined == [k \in 0..m |-> IF k < m THEN old[k]
                                       ELSE JoinStep(g, more, b, old, m)]
  <2>3. \A k \in 0..m : joined[k] = JoinStep(g, more, b, joined, k)
    <3> SUFFICES ASSUME NEW k \in 0..m
                 PROVE  joined[k] = JoinStep(g, more, b, joined, k)
      OBVIOUS
    <3>1. k # 0 => k - 1 \in 0..m /\ k - 1 < m
      BY <1>2
    <3>2. k # 0 => joined[k - 1] = old[k - 1]
      BY <3>1
    <3>3. joined[k] = IF k < m THEN old[k] ELSE JoinStep(g, more, b, old, m)
      OBVIOUS
    <3> HIDE DEF joined
    <3>4. JoinStep(g, more, b, old, k) = JoinStep(g, more, b, joined, k)
      BY <3>2 DEF JoinStep
    <3>5. k < m => k \in 0..(m - 1)
      BY <1>2
    <3>6. k < m => old[k] = JoinStep(g, more, b, old, k)
      BY <2>2, <3>5 DEF Joins
    <3>7. ~(k < m) => k = m
      BY <1>2
    <3> QED BY <3>3, <3>4, <3>6, <3>7
  <2>4. Joins(g, more, b, joined, m)
    BY <2>3 DEF Joins
  <2> QED BY <1>2, <2>4
<1> QED BY <1>3, <1>4

(* JoinGaps is the last value of that function. *)
LEMMA JoinIs ==
  ASSUME NEW g, NEW more \in Seq(Nat), NEW b
  PROVE  \E joined : /\ Joins(g, more, b, joined, Len(more))
                     /\ Recording!JoinGaps(g, more, b) = joined[Len(more)]
<1> DEFINE joined == CHOOSE f : Joins(g, more, b, f, Len(more))
<1>1. Joins(g, more, b, joined, Len(more))
  <2>1. Len(more) \in Nat
    OBVIOUS
  <2> QED BY <2>1, JoinExists, Zenon
<1>2. Recording!JoinGaps(g, more, b) = joined[Len(more)]
  BY DEF Recording!JoinGaps, Joins, JoinStep, Recording!Relative,
         Recording!Last
<1> QED BY <1>1, <1>2

(* The marks of M behind a recording's base, from there.                    *)
From(M, b) == {m - b : m \in {x \in M : x > b}}

(* The gaps of a block, all behind those of the track, are joined to them.  *)
LEMMA GapsJoined ==
  ASSUME NEW g \in Seq(Nat), Ascending(g), NEW more \in Seq(Nat),
         Ascending(more), NEW b \in Nat,
         \A x \in ToSet(g) : \A y \in ToSet(more) : x + b <= y
  PROVE  LET h == Recording!JoinGaps(g, more, b) IN
         /\ h \in Seq(Nat) /\ Ascending(h)
         /\ ToSet(h) = ToSet(g) \cup From(ToSet(more), b)
<1> DEFINE l == Len(more)
<1>1. PICK joined : /\ Joins(g, more, b, joined, l)
                    /\ Recording!JoinGaps(g, more, b) = joined[l]
  BY JoinIs
<1>2. /\ l \in Nat /\ DOMAIN more = 1..l
      /\ \A i \in 1..l : more[i] \in Nat /\ more[i] \in ToSet(more)
  BY DEF ToSet
<1> DEFINE Seen(n) == {more[i] : i \in 1..n}
           Good(n) == /\ joined[n] \in Seq(Nat) /\ Ascending(joined[n])
                      /\ ToSet(joined[n]) = ToSet(g) \cup From(Seen(n), b)
           Bad == {n \in 0..l : ~Good(n)}
<1>3. ASSUME Bad # {} PROVE FALSE
  <2>1. PICK n \in Bad : \A k \in Bad : n <= k
    <3>1. Bad \subseteq Nat
      BY <1>2
    <3> HIDE DEF Bad
    <3> QED BY <1>3, <3>1, Smallest
  <2>2. n \in 0..l /\ ~Good(n)
    OBVIOUS
  <2>3. joined[n] = JoinStep(g, more, b, joined, n)
    BY <1>1, <2>2 DEF Joins
  <2>4. CASE n = 0
    <3>1. joined[n] = g
      BY <2>3, <2>4 DEF JoinStep
    <3>2. From(Seen(0), b) = {}
      BY DEF From
    <3> QED BY <2>2, <2>4, <3>1, <3>2
  <2>5. CASE n # 0
    <3> DEFINE o == joined[n - 1]
               rel == more[n] - b
    <3>1. n - 1 \in 0..l /\ n - 1 < n /\ n \in 1..l
      BY <1>2, <2>2, <2>5
    <3>2. Good(n - 1)
      <4>1. n - 1 \notin Bad
        <5> HIDE DEF Bad
        <5> QED BY <2>1, <2>2, <3>1
      <4> QED BY <3>1, <4>1
    <3>3. /\ o \in Seq(Nat) /\ Ascending(o)
          /\ ToSet(o) = ToSet(g) \cup From(Seen(n - 1), b)
      BY <3>2
    <3>4. Seen(n) = Seen(n - 1) \cup {more[n]}
      <4>1. \A i : i \in 1..n <=> i \in 1..(n - 1) \/ i = n
        BY <3>1
      <4> QED BY <4>1
    <3>5. /\ more[n] \in Nat /\ more[n] \in ToSet(more) /\ b \in Nat
          /\ \A m \in Seen(n - 1) : m \in Nat /\ m <= more[n]
      <4>1. ASSUME NEW i \in 1..(n - 1)
            PROVE  more[i] \in Nat /\ more[i] <= more[n]
        <5>1. i \in 1..l /\ i < n
          BY <1>2, <3>1
        <5> QED BY <1>2, <3>1, <5>1 DEF Ascending
      <4> QED BY <1>2, <3>1, <4>1
    <3>6. joined[n] = IF rel > 0 /\ (o = <<>> \/ o[Len(o)] # rel)
                      THEN Append(o, rel) ELSE o
      BY <2>3, <2>5 DEF JoinStep
    <3> HIDE DEF Seen
    <3>7. From(Seen(n), b) = IF rel > 0 THEN From(Seen(n - 1), b) \cup {rel}
                             ELSE From(Seen(n - 1), b)
      <4>1. rel > 0 <=> more[n] > b
        BY <3>5
      <4>2. {x \in Seen(n) : x > b} =
              IF more[n] > b THEN {x \in Seen(n - 1) : x > b} \cup {more[n]}
              ELSE {x \in Seen(n - 1) : x > b}
        BY <3>4
      <4> QED BY <4>1, <4>2 DEF From
    <3>8. \A m \in ToSet(o) : m \in Nat /\ m <= rel
      <4>1. \A m \in ToSet(g) : m \in Nat
        BY DEF ToSet
      <4>2. \A m \in ToSet(g) : m + b <= more[n]
        BY <3>5
      <4>3. \A m \in ToSet(g) : m <= rel
        BY <3>5, <4>1, <4>2
      <4>4. \A m \in From(Seen(n - 1), b) : m \in Nat /\ m <= rel
        BY <3>5 DEF From
      <4> QED BY <3>3, <4>1, <4>3, <4>4
    <3>9. rel \in Int /\ (o # <<>> => o[Len(o)] \in ToSet(o))
      BY <3>3, <3>5 DEF ToSet
    <3> HIDE DEF o, rel
    <3>10. CASE rel > 0 /\ (o = <<>> \/ o[Len(o)] # rel)
      <4>1. rel \in Nat
        BY <3>9, <3>10
      <4>2. /\ Append(o, rel) \in Seq(Nat) /\ Ascending(Append(o, rel))
            /\ ToSet(Append(o, rel)) = ToSet(o) \cup {rel}
        BY <3>3, <3>8, <4>1, AscendingAppend
      <4> QED BY <2>2, <3>3, <3>6, <3>7, <3>10, <4>2
    <3>11. CASE ~(rel > 0 /\ (o = <<>> \/ o[Len(o)] # rel))
      <4>1. rel > 0 => rel \in ToSet(o)
        BY <3>9, <3>11
      <4> QED BY <2>2, <3>3, <3>6, <3>7, <3>11, <4>1
    <3> QED BY <3>10, <3>11
  <2> QED BY <2>4, <2>5
<1>4. Good(l)
  <2>1. l \in 0..l
    BY <1>2
  <2> QED BY <1>3, <2>1
<1>5. Seen(l) = ToSet(more)
  BY <1>2 DEF ToSet
<1> QED BY <1>1, <1>4, <1>5

(* A channel's part of the track, from its base b on, when dr and the marks *)
(* dg have been drained; -1 as long as the channel was not heard.           *)
Records(dr, dg, b, raw, g) ==
  IF b = -1 THEN raw = <<>> /\ g = <<>>
  ELSE /\ b \in 0..Len(dr) /\ raw \in Seq(Word) /\ Len(raw) = Len(dr) - b
       /\ \A k \in 1..Len(raw) : raw[k] = dr[b + k]
       /\ g \in Seq(Nat) /\ Ascending(g) /\ ToSet(g) = From(dg, b)

TrackInv ==
  track # NoTrack =>
    \A c \in Channels :
      Records(drained[c], drained_gaps[c], track.base[c], track.raw[c],
              track.gaps[c])

(* A block more of a channel whose base is known. *)
LEMMA RecordsBlock ==
  ASSUME NEW c, NEW dr, NEW ch, NEW m, NEW dg, NEW n,
         Hears(c, dr, ch, m, dg, n), NEW b \in Nat, NEW raw, NEW g,
         Records(dr, dg, b, raw, g)
  PROVE  Records(dr \o ch, dg \cup ToSet(m), b, raw \o ch,
                 Recording!JoinGaps(g, m, b))
<1>1. /\ dr \in Seq(Word) /\ ch \in Seq(Word) /\ m \in Seq(Nat)
      /\ Ascending(m) /\ dg \cup ToSet(m) = Holes(dr \o ch)
      /\ \A x \in dg : x < Len(dr)
      /\ \A x \in ToSet(m) : Len(dr) <= x
  BY DEF Hears
<1>2. /\ b \in 0..Len(dr) /\ raw \in Seq(Word) /\ Len(raw) = Len(dr) - b
      /\ \A k \in 1..Len(raw) : raw[k] = dr[b + k]
      /\ g \in Seq(Nat) /\ Ascending(g) /\ ToSet(g) = From(dg, b)
  BY DEF Records
<1>3. /\ dr \o ch \in Seq(Word) /\ Len(dr \o ch) = Len(dr) + Len(ch)
      /\ raw \o ch \in Seq(Word) /\ Len(raw \o ch) = Len(raw) + Len(ch)
      /\ Len(dr) \in Nat /\ Len(ch) \in Nat /\ Len(raw) \in Nat
      /\ \A k \in 1..(Len(dr) + Len(ch)) :
           (dr \o ch)[k] = IF k <= Len(dr) THEN dr[k] ELSE ch[k - Len(dr)]
      /\ \A k \in 1..(Len(raw) + Len(ch)) :
           (raw \o ch)[k] = IF k <= Len(raw) THEN raw[k] ELSE ch[k - Len(raw)]
  BY <1>1, <1>2, JoinedWords
<1>4. ASSUME NEW k \in 1..(Len(raw) + Len(ch))
      PROVE  (raw \o ch)[k] = (dr \o ch)[b + k]
  <2>1. /\ b + k \in 1..(Len(dr) + Len(ch))
        /\ b + k <= Len(dr) <=> k <= Len(raw)
        /\ (b + k) - Len(dr) = k - Len(raw)
    BY <1>2, <1>3
  <2>2. ASSUME k <= Len(raw) PROVE raw[k] = dr[b + k]
    <3>1. k \in 1..Len(raw)
      BY <1>3, <2>2
    <3>2. \A i \in 1..Len(raw) : raw[i] = dr[b + i]
      BY <1>2
    <3> QED BY <3>1, <3>2
  <2> QED BY <1>3, <2>1, <2>2
<1>5. \A x \in ToSet(g) : \A y \in ToSet(m) : x + b <= y
  <2>1. \A x \in From(dg, b) : x + b < Len(dr)
    <3>1. \A x \in dg : x \in Int
      BY <1>1 DEF Holes
    <3> QED BY <1>1, <3>1 DEF From
  <2>2. \A y \in ToSet(m) : y \in Nat
    BY <1>1 DEF ToSet
  <2>3. \A x \in ToSet(g) : x \in Nat
    BY <1>2 DEF ToSet
  <2> QED BY <1>1, <1>2, <1>3, <2>1, <2>2, <2>3
<1> DEFINE h == Recording!JoinGaps(g, m, b)
<1>6. /\ h \in Seq(Nat) /\ Ascending(h)
      /\ ToSet(h) = ToSet(g) \cup From(ToSet(m), b)
  BY <1>1, <1>2, <1>5, GapsJoined
<1>7. ToSet(h) = From(dg \cup ToSet(m), b)
  BY <1>2, <1>6 DEF From
<1>8. b \in 0..Len(dr \o ch) /\ Len(raw \o ch) = Len(dr \o ch) - b /\ b # -1
  BY <1>2, <1>3
<1> HIDE DEF h
<1>9. Records(dr \o ch, dg \cup ToSet(m), b, raw \o ch, h)
  BY <1>3, <1>4, <1>6, <1>7, <1>8 DEF Records
<1> QED BY <1>9 DEF h

(* What add makes of the channels. *)
LEMMA TrackAdds ==
  ASSUME NEW c \in Channels,
         track' = Recording!add(track, Host!Block)
  PROVE  LET b == IF track.base[c] = -1
                       /\ (total[c] - Len(chunks[c])) + Len(chunks[c]) > 0
                  THEN total[c] - Len(chunks[c]) ELSE track.base[c]
         IN  /\ track'.base[c] = b /\ track'.raw[c] = track.raw[c] \o chunks[c]
             /\ track'.gaps[c] =
                  Recording!JoinGaps(track.gaps[c], gaps[c], b)
<1> DEFINE blk == Host!Block
           base == [k \in Channels |->
                      IF track.base[k] = -1 /\ Recording!Listed(blk, k)
                      THEN blk.start[k] ELSE track.base[k]]
<1>1. /\ blk.raw = chunks /\ blk.gaps = gaps
      /\ blk.start = [k \in Channels |-> total[k] - Len(chunks[k])]
  BY SameProtocol DEF Host!Block, Host!BlockStart
<1>2. track' = [raw  |-> [k \in Channels |-> track.raw[k] \o blk.raw[k]],
                gaps |-> [k \in Channels |->
                            Recording!JoinGaps(track.gaps[k], blk.gaps[k],
                                               base[k])],
                base |-> base]
  BY SameTrack DEF Recording!add
<1>3. Recording!Listed(blk, c) <=>
        (total[c] - Len(chunks[c])) + Len(chunks[c]) > 0
  BY <1>1 DEF Recording!Listed
<1>4. base[c] = IF track.base[c] = -1
                     /\ (total[c] - Len(chunks[c])) + Len(chunks[c]) > 0
                THEN total[c] - Len(chunks[c]) ELSE track.base[c]
  BY <1>1, <1>3
<1> HIDE DEF blk, base
<1>5. /\ track'.raw = [k \in Channels |-> track.raw[k] \o blk.raw[k]]
      /\ track'.gaps = [k \in Channels |->
                          Recording!JoinGaps(track.gaps[k], blk.gaps[k],
                                             base[k])]
      /\ track'.base = base
  BY <1>2
<1>6. track'.raw[c] = track.raw[c] \o chunks[c]
  BY <1>1, <1>5
<1>7. track'.gaps[c] = Recording!JoinGaps(track.gaps[c], gaps[c], base[c])
  BY <1>1, <1>5
<1> QED BY <1>4, <1>5, <1>6, <1>7

(* A block is added to the track. *)
LEMMA TrackAddBlock ==
  ASSUME HearInv, TrackInv, AddBlock
  PROVE  TrackInv'
<1>1. track # NoTrack /\ Host!Drain /\ track' = Recording!add(track, Host!Block)
  BY DEF AddBlock
<1> SUFFICES ASSUME NEW c \in Channels
             PROVE  Records(drained'[c], drained_gaps'[c], track'.base[c],
                            track'.raw[c], track'.gaps[c])
  BY DEF TrackInv
<1> DEFINE dr == drained[c]
           ch == chunks[c]
           m == gaps[c]
           dg == drained_gaps[c]
           start == total[c] - Len(ch)
           b == IF track.base[c] = -1 /\ start + Len(ch) > 0 THEN start
                ELSE track.base[c]
<1>2. /\ track'.base[c] = b /\ track'.raw[c] = track.raw[c] \o ch
      /\ track'.gaps[c] = Recording!JoinGaps(track.gaps[c], m, b)
  BY <1>1, TrackAdds
<1>3. drained'[c] = dr \o ch /\ drained_gaps'[c] = dg \cup ToSet(m)
  BY <1>1, SameProtocol DEF Host!Drain, Host!Block
<1>4. total[c] = Len(dr \o ch) /\ Hears(c, dr, ch, m, dg, next_index)
  BY DEF HearInv
<1>5. Records(dr, dg, track.base[c], track.raw[c], track.gaps[c])
  BY <1>1 DEF TrackInv
<1> HIDE DEF dr, ch, m, dg
<1>6. /\ dr \in Seq(Word) /\ ch \in Seq(Word) /\ Len(dr) \in Nat
      /\ Len(ch) \in Nat /\ Len(dr \o ch) = Len(dr) + Len(ch)
      /\ start = Len(dr) /\ m \in Seq(Nat)
  <2>1. dr \in Seq(Word) /\ ch \in Seq(Word) /\ m \in Seq(Nat)
    BY <1>4 DEF Hears
  <2> QED BY <1>4, <2>1
<1>7. CASE track.base[c] # -1
  <2>1. b = track.base[c] /\ b \in Nat
    BY <1>5, <1>6, <1>7 DEF Records
  <2> HIDE DEF b
  <2>2. Records(dr \o ch, dg \cup ToSet(m), b, track.raw[c] \o ch,
                Recording!JoinGaps(track.gaps[c], m, b))
    BY <1>4, <1>5, <2>1, RecordsBlock
  <2> QED BY <1>2, <1>3, <2>2
<1>8. CASE track.base[c] = -1 /\ start + Len(ch) > 0
  <2>1. b = Len(dr) /\ b \in Nat /\ track.raw[c] = <<>> /\ track.gaps[c] = <<>>
    BY <1>5, <1>6, <1>8 DEF Records
  <2> HIDE DEF b
  <2>2. Records(dr, dg, b, <<>>, <<>>)
    <3>1. From(dg, b) = {}
      <4>1. \A x \in dg : x < Len(dr) /\ x \in Int
        BY <1>4 DEF Hears, Holes
      <4> QED BY <1>6, <2>1, <4>1 DEF From
    <3>2. /\ <<>> \in Seq(Word) /\ <<>> \in Seq(Nat) /\ Len(<<>>) = 0
          /\ Ascending(<<>>) /\ ToSet(<<>>) = {}
      BY DEF Ascending, ToSet
    <3>3. b \in 0..Len(dr) /\ Len(dr) - b = 0 /\ b # -1
      BY <1>6, <2>1
    <3> QED BY <3>1, <3>2, <3>3 DEF Records
  <2>3. Records(dr \o ch, dg \cup ToSet(m), b, <<>> \o ch,
                Recording!JoinGaps(<<>>, m, b))
    BY <1>4, <2>1, <2>2, RecordsBlock
  <2> QED BY <1>2, <1>3, <2>1, <2>3
<1>9. CASE track.base[c] = -1 /\ ~(start + Len(ch) > 0)
  <2>1. b = -1 /\ track.raw[c] = <<>> /\ track.gaps[c] = <<>>
    BY <1>5, <1>9 DEF Records
  <2>2. ch = <<>> /\ dr = <<>>
    BY <1>6, <1>9
  <2>3. m = <<>>
    <3>1. ToSet(m) \subseteq Holes(<<>>)
      BY <1>4, <2>2 DEF Hears
    <3>2. ToSet(m) = {}
      BY <3>1 DEF Holes
    <3>3. m # <<>> => m[1] \in ToSet(m)
      <4>1. m # <<>> => 1 \in DOMAIN m
        BY <1>6
      <4> QED BY <4>1 DEF ToSet
    <3> QED BY <3>2, <3>3
  <2>4. Recording!JoinGaps(<<>>, <<>>, -1) = <<>>
    <3>1. <<>> \in Seq(Nat) /\ Len(<<>>) = 0
      OBVIOUS
    <3>2. PICK joined : /\ Joins(<<>>, <<>>, -1, joined, 0)
                        /\ Recording!JoinGaps(<<>>, <<>>, -1) = joined[0]
      BY <3>1, JoinIs
    <3> QED BY <3>2 DEF Joins, JoinStep
  <2>5. track'.base[c] = -1 /\ track'.raw[c] = <<>> /\ track'.gaps[c] = <<>>
    <3> HIDE DEF b
    <3> QED BY <1>2, <2>1, <2>2, <2>3, <2>4
  <2> QED BY <2>5 DEF Records
<1> QED BY <1>7, <1>8, <1>9

(* The track holds what was drained since it began. *)
LEMMA TrackStep ==
  ASSUME HearInv, TrackInv, [SessionNext]_sessionVars
  PROVE  TrackInv'
<1>1. CASE AddBlock
  BY <1>1, TrackAddBlock
<1>2. CASE StartRecording
  <2>1. track' = Recording!NewTrack
    BY <1>2 DEF StartRecording
  <2>2. \A c \in Channels : /\ track'.base[c] = -1 /\ track'.raw[c] = <<>>
                            /\ track'.gaps[c] = <<>>
    BY <2>1, SameTrack DEF Recording!NewTrack
  <2> QED BY <2>2 DEF TrackInv, Records
<1>3. CASE UNCHANGED <<track, drained, drained_gaps>>
  BY <1>3 DEF TrackInv, NoTrack
<1>4. Deliver => UNCHANGED <<track, drained, drained_gaps>>
  BY DEF Deliver, Host!Handle, Host!HandleInfo, Host!HandleSamples
<1> QED BY <1>1, <1>2, <1>3, <1>4 DEF SessionNext, sessionVars, hostVars

-----------------------------------------------------------------------------
(* The segments of a recorded channel *)

(* One turn of the loop over the gaps of a channel of n samples. *)
StartStep(g, n, starts, k) ==
  IF k = 0 THEN <<1>>
  ELSE IF 0 < g[k] /\ g[k] < n THEN Append(starts[k - 1], g[k] + 1)
  ELSE starts[k - 1]

Starts(g, n, starts, m) ==
  starts = [k \in 0..m |-> StartStep(g, n, starts, k)]

Between(edges) ==
  {<<edges[i], edges[i + 1]>> :
     i \in {j \in 1..(Len(edges) - 1) : edges[j + 1] - edges[j] >= 1}}

(* There is a function that the recursion of segments describes. *)
LEMMA StartsExist ==
  ASSUME NEW g, NEW n, NEW m \in Nat
  PROVE  \E starts : Starts(g, n, starts, m)
<1> DEFINE Bad == {l \in Nat : ~ \E starts : Starts(g, n, starts, l)}
<1> SUFFICES ASSUME m \in Bad PROVE FALSE
  OBVIOUS
<1>1. PICK l \in Bad : \A k \in Bad : l <= k
  <2>1. Bad \subseteq Nat /\ Bad # {}
    OBVIOUS
  <2> HIDE DEF Bad
  <2> QED BY <2>1, Smallest
<1>2. l \in Nat /\ ~ \E starts : Starts(g, n, starts, l)
  OBVIOUS
<1>3. CASE l = 0
  <2> DEFINE starts == [k \in 0..0 |-> <<1>>]
  <2>1. Starts(g, n, starts, 0)
    BY DEF Starts, StartStep
  <2> QED BY <1>2, <1>3, <2>1
<1>4. CASE l # 0
  <2>1. l - 1 \in Nat /\ l - 1 \notin Bad
    BY <1>1, <1>2, <1>4
  <2>2. PICK old : Starts(g, n, old, l - 1)
    BY <2>1
  <2> DEFINE starts == [k \in 0..l |-> IF k < l THEN old[k]
                                       ELSE StartStep(g, n, old, l)]
  <2>3. \A k \in 0..l : starts[k] = StartStep(g, n, starts, k)
    <3> SUFFICES ASSUME NEW k \in 0..l
                 PROVE  starts[k] = StartStep(g, n, starts, k)
      OBVIOUS
    <3>1. k # 0 => k - 1 \in 0..l /\ k - 1 < l
      BY <1>2
    <3>2. k # 0 => starts[k - 1] = old[k - 1]
      BY <3>1
    <3>3. starts[k] = IF k < l THEN old[k] ELSE StartStep(g, n, old, l)
      OBVIOUS
    <3> HIDE DEF starts
    <3>4. StartStep(g, n, old, k) = StartStep(g, n, starts, k)
      BY <3>2 DEF StartStep
    <3>5. k < l => k \in 0..(l - 1)
      BY <1>2
    <3>6. k < l => old[k] = StartStep(g, n, old, k)
      BY <2>2, <3>5 DEF Starts
    <3>7. ~(k < l) => k = l
      BY <1>2
    <3> QED BY <3>3, <3>4, <3>6, <3>7
  <2>4. Starts(g, n, starts, l)
    BY <2>3 DEF Starts
  <2> QED BY <1>2, <2>4
<1> QED BY <1>3, <1>4

(* The segments are the pairs between the last of its values and the end. *)
LEMMA SegmentsAre ==
  ASSUME NEW g \in Seq(Nat), NEW raw
  PROVE  \E starts :
           /\ Starts(g, Len(raw), starts, Len(g))
           /\ Recording!segments(raw, g) =
                Between(Append(starts[Len(g)], Len(raw) + 1))
<1> DEFINE starts == CHOOSE f : Starts(g, Len(raw), f, Len(g))
<1>1. Starts(g, Len(raw), starts, Len(g))
  <2>1. Len(g) \in Nat
    OBVIOUS
  <2> QED BY <2>1, StartsExist, Zenon
<1>2. Recording!segments(raw, g) =
        Between(Append(starts[Len(g)], Len(raw) + 1))
  BY DEF Recording!segments, Between, Starts, StartStep
<1> QED BY <1>1, <1>2

(* Segments begin at the first sample and behind every gap. *)
Behind(G, n) == {x + 1 : x \in {y \in G : 0 < y /\ y < n}}

(* The starts are in order, from the first sample on, one behind every gap. *)
LEMMA StartsBehindGaps ==
  ASSUME NEW g \in Seq(Nat), Ascending(g), NEW n \in Nat, NEW starts,
         Starts(g, n, starts, Len(g))
  PROVE  LET e == starts[Len(g)] IN
         /\ e \in Seq(Nat) /\ Ascending(e) /\ e # <<>> /\ e[1] = 1
         /\ ToSet(e) = {1} \cup Behind(ToSet(g), n)
<1> DEFINE l == Len(g)
           Seen(m) == {g[i] : i \in 1..m}
           Good(m) == LET e == starts[m] IN
                      /\ e \in Seq(Nat) /\ Ascending(e) /\ e # <<>>
                      /\ e[1] = 1 /\ ToSet(e) = {1} \cup Behind(Seen(m), n)
           Bad == {m \in 0..l : ~Good(m)}
<1>1. l \in Nat /\ DOMAIN g = 1..l /\ \A i \in 1..l : g[i] \in Nat
  OBVIOUS
<1>2. ASSUME Bad # {} PROVE FALSE
  <2>1. PICK m \in Bad : \A k \in Bad : m <= k
    <3>1. Bad \subseteq Nat
      BY <1>1
    <3> HIDE DEF Bad
    <3> QED BY <1>2, <3>1, Smallest
  <2>2. m \in 0..l /\ ~Good(m)
    OBVIOUS
  <2>3. starts[m] = StartStep(g, n, starts, m)
    BY <2>2 DEF Starts
  <2>4. CASE m = 0
    <3>1. starts[m] = <<1>>
      BY <2>3, <2>4 DEF StartStep
    <3>2. /\ <<1>> \in Seq(Nat) /\ Ascending(<<1>>) /\ <<1>> # <<>>
          /\ <<1>>[1] = 1 /\ ToSet(<<1>>) = {1}
      BY DEF Ascending, ToSet
    <3>3. Behind(Seen(0), n) = {}
      BY DEF Behind
    <3> QED BY <2>2, <2>4, <3>1, <3>2, <3>3
  <2>5. CASE m # 0
    <3> DEFINE o == starts[m - 1]
               x == g[m]
    <3>1. m - 1 \in 0..l /\ m - 1 < m /\ m \in 1..l
      BY <1>1, <2>2, <2>5
    <3>2. Good(m - 1)
      <4>1. m - 1 \notin Bad
        <5> HIDE DEF Bad
        <5> QED BY <2>1, <2>2, <3>1
      <4> QED BY <3>1, <4>1
    <3>3. /\ o \in Seq(Nat) /\ Ascending(o) /\ o # <<>> /\ o[1] = 1
          /\ ToSet(o) = {1} \cup Behind(Seen(m - 1), n)
      BY <3>2
    <3>4. Seen(m) = Seen(m - 1) \cup {x}
      <4>1. \A i : i \in 1..m <=> i \in 1..(m - 1) \/ i = m
        BY <3>1
      <4> QED BY <4>1
    <3>5. x \in Nat /\ \A y \in Seen(m - 1) : y \in Nat /\ y <= x
      <4>1. ASSUME NEW i \in 1..(m - 1) PROVE g[i] \in Nat /\ g[i] <= g[m]
        <5>1. i \in 1..l /\ i < m
          BY <1>1, <3>1
        <5> QED BY <1>1, <3>1, <5>1 DEF Ascending
      <4> QED BY <1>1, <3>1, <4>1
    <3>6. starts[m] = IF 0 < x /\ x < n THEN Append(o, x + 1) ELSE o
      BY <2>3, <2>5 DEF StartStep
    <3> HIDE DEF Seen, o, x
    <3>7. Behind(Seen(m), n) = IF 0 < x /\ x < n
                               THEN Behind(Seen(m - 1), n) \cup {x + 1}
                               ELSE Behind(Seen(m - 1), n)
      BY <3>4, <3>5 DEF Behind
    <3>8. CASE 0 < x /\ x < n
      <4>1. \A y \in ToSet(o) : y <= x + 1
        <5>1. \A y \in Behind(Seen(m - 1), n) : y <= x + 1
          BY <3>5 DEF Behind
        <5> QED BY <3>3, <3>5, <5>1
      <4> DEFINE e == Append(o, x + 1)
      <4>2. x + 1 \in Nat
        BY <3>5
      <4>3. /\ e \in Seq(Nat) /\ Ascending(e)
            /\ ToSet(e) = ToSet(o) \cup {x + 1}
        BY <3>3, <4>1, <4>2, AscendingAppend
      <4>4. e # <<>> /\ e[1] = 1
        BY <3>3, <4>2
      <4> HIDE DEF e
      <4> QED BY <2>2, <3>3, <3>6, <3>7, <3>8, <4>3, <4>4 DEF e
    <3>9. CASE ~(0 < x /\ x < n)
      BY <2>2, <3>3, <3>6, <3>7, <3>9
    <3> QED BY <3>8, <3>9
  <2> QED BY <2>4, <2>5
<1>3. Good(l)
  <2>1. l \in 0..l
    BY <1>1
  <2> QED BY <1>2, <2>1
<1>4. Seen(l) = ToSet(g)
  BY <1>1 DEF ToSet
<1> QED BY <1>3, <1>4

(* Two neighbouring samples are in one segment if no gap is between them.   *)
LEMMA SegmentsKeepTogether ==
  ASSUME NEW g \in Seq(Nat), Ascending(g), NEW raw, Len(raw) \in Nat,
         NEW k \in 1..(Len(raw) - 1)
  PROVE  (\E s \in Recording!segments(raw, g) : s[1] <= k /\ k + 1 < s[2])
           <=> k \notin ToSet(g)
<1> DEFINE n == Len(raw)
<1>1. PICK starts : /\ Starts(g, n, starts, Len(g))
                    /\ Recording!segments(raw, g) =
                         Between(Append(starts[Len(g)], n + 1))
  BY SegmentsAre
<1> DEFINE e == starts[Len(g)]
           x == Append(e, n + 1)
<1>2. /\ e \in Seq(Nat) /\ Ascending(e) /\ e # <<>> /\ e[1] = 1
      /\ ToSet(e) = {1} \cup Behind(ToSet(g), n)
  BY <1>1, StartsBehindGaps
<1>3. n \in Nat /\ n + 1 \in Nat /\ k \in Nat /\ 1 <= k /\ k < n
  OBVIOUS
<1> HIDE DEF n, e
<1>4. \A y \in ToSet(e) : y <= n + 1
  <2>1. \A y \in Behind(ToSet(g), n) : y <= n + 1
    <3>1. \A y \in ToSet(g) : y \in Nat
      BY DEF ToSet
    <3> QED BY <1>3, <3>1 DEF Behind
  <2> QED BY <1>2, <1>3, <2>1
<1>5. /\ x \in Seq(Nat) /\ Ascending(x)
      /\ ToSet(x) = ToSet(e) \cup {n + 1}
  BY <1>2, <1>3, <1>4, AscendingAppend
<1>6. /\ Len(x) \in Nat /\ Len(x) >= 2 /\ x[1] = 1 /\ x[Len(x)] = n + 1
      /\ \A i \in 1..Len(x) : x[i] \in Nat /\ x[i] \in ToSet(x)
  <2>1. /\ Len(x) \in Nat /\ Len(x) >= 2 /\ x[1] = 1 /\ x[Len(x)] = n + 1
    BY <1>2, <1>3
  <2> HIDE DEF x
  <2>2. \A i \in 1..Len(x) : x[i] \in Nat /\ x[i] \in ToSet(x)
    BY <1>5 DEF ToSet
  <2> QED BY <2>1, <2>2
<1> HIDE DEF x
<1>7. ASSUME k \in ToSet(g), NEW s \in Between(x), s[1] <= k, k + 1 < s[2]
      PROVE  FALSE
  <2>1. PICK i \in 1..(Len(x) - 1) : s = <<x[i], x[i + 1]>>
    BY DEF Between
  <2>2. k + 1 \in ToSet(x)
    BY <1>2, <1>3, <1>5, <1>7 DEF Behind
  <2>3. PICK j \in 1..Len(x) : x[j] = k + 1
    <3>1. DOMAIN x = 1..Len(x)
      BY <1>5
    <3> QED BY <2>2, <3>1 DEF ToSet
  <2>4. x[i] < x[j] /\ x[j] < x[i + 1]
    BY <1>3, <1>6, <1>7, <2>1, <2>3
  <2>5. i \in 1..Len(x) /\ i + 1 \in 1..Len(x) /\ (j <= i \/ i + 1 <= j)
    BY <1>6
  <2>6. j <= i => x[j] <= x[i]
    <3>1. j < i => x[j] <= x[i]
      BY <1>5, <2>5 DEF Ascending
    <3> QED BY <1>6, <2>5, <3>1
  <2>7. i + 1 <= j => x[i + 1] <= x[j]
    <3>1. i + 1 < j => x[i + 1] <= x[j]
      BY <1>5, <2>5 DEF Ascending
    <3> QED BY <1>6, <2>5, <3>1
  <2>8. x[i] \in Nat /\ x[j] \in Nat /\ x[i + 1] \in Nat
    BY <1>6, <2>5
  <2> QED BY <2>4, <2>5, <2>6, <2>7, <2>8
<1>8. ASSUME k \notin ToSet(g)
      PROVE  \E s \in Between(x) : s[1] <= k /\ k + 1 < s[2]
  <2> DEFINE Later == {i \in 1..Len(x) : k < x[i]}
  <2>1. PICK i \in Later : \A j \in Later : i <= j
    <3>1. Later \subseteq Nat
      OBVIOUS
    <3>2. Len(x) \in Later
      BY <1>3, <1>6
    <3> HIDE DEF Later
    <3> QED BY <3>1, <3>2, Smallest
  <2>2. /\ i \in 1..Len(x) /\ k < x[i] /\ x[i] \in Nat
        /\ \A j \in 1..Len(x) : k < x[j] => i <= j
    BY <1>6, <2>1
  <2> HIDE DEF Later
  <2>3. i # 1
    BY <1>3, <1>6, <2>2
  <2>4. i - 1 \in 1..(Len(x) - 1) /\ i - 1 \in 1..Len(x)
    BY <1>6, <2>2, <2>3
  <2>5. x[i - 1] <= k /\ x[i - 1] \in Nat
    <3>1. ~(k < x[i - 1])
      BY <2>2, <2>4
    <3> QED BY <1>3, <1>6, <2>4, <3>1
  <2>6. x[i] # k + 1
    <3>1. ASSUME x[i] = k + 1 PROVE FALSE
      <4>1. x[i] \in ToSet(x)
        BY <1>6, <2>2
      <4>2. k + 1 \in {1} \cup Behind(ToSet(g), n)
        BY <1>2, <1>3, <1>5, <3>1, <4>1
      <4>3. \A y \in ToSet(g) : y \in Nat
        BY DEF ToSet
      <4> QED BY <1>3, <1>8, <4>2, <4>3 DEF Behind
    <3> QED BY <3>1
  <2> DEFINE s == <<x[i - 1], x[i]>>
  <2>7. s \in Between(x)
    <3>1. (i - 1) + 1 = i /\ x[i] - x[i - 1] >= 1
      BY <1>3, <2>2, <2>5
    <3> QED BY <2>4, <3>1 DEF Between
  <2>8. s[1] <= k /\ k + 1 < s[2]
    BY <1>3, <2>2, <2>5, <2>6
  <2> QED BY <2>7, <2>8
<1>9. Recording!segments(raw, g) = Between(x)
  BY <1>1 DEF x, e
<1> QED BY <1>7, <1>8, <1>9

(* The marks of the receiver, taken over by the track, cut the recording    *)
(* where it is broken.                                                      *)
LEMMA TrackIsCutAtHoles ==
  ASSUME HearInv, TrackInv
  PROVE  SegmentsAreUnbroken
<1> SUFFICES ASSUME track # NoTrack, NEW c \in Channels,
                    NEW k \in 1..(Len(track.raw[c]) - 1)
             PROVE  (track.raw[c][k + 1].at = track.raw[c][k].at + Turn)
                      <=> \E s \in Recording!segments(track.raw[c],
                                                      track.gaps[c]) :
                            s[1] <= k /\ k + 1 < s[2]
  BY DEF SegmentsAreUnbroken, Turn
<1> DEFINE raw == track.raw[c]
           g == track.gaps[c]
           b == track.base[c]
           dr == drained[c]
           ch == chunks[c]
           m == gaps[c]
           dg == drained_gaps[c]
<1>1. Records(dr, dg, b, raw, g) /\ Hears(c, dr, ch, m, dg, next_index)
  BY DEF TrackInv, HearInv
<1> HIDE DEF raw, g, b, dr, ch, m, dg
<1>2. k \in 1..(Len(raw) - 1)
  BY DEF raw
<1>3. /\ b # -1 /\ b \in 0..Len(dr) /\ raw \in Seq(Word)
      /\ Len(raw) = Len(dr) - b
      /\ \A i \in 1..Len(raw) : raw[i] = dr[b + i]
      /\ g \in Seq(Nat) /\ Ascending(g) /\ ToSet(g) = From(dg, b)
  <2>1. b # -1
    <3>1. b = -1 => Len(raw) = 0
      BY <1>1 DEF Records
    <3> QED BY <1>2, <3>1
  <2> QED BY <1>1, <2>1 DEF Records
<1>4. /\ dr \in Seq(Word) /\ ch \in Seq(Word) /\ m \in Seq(Nat)
      /\ dg \cup ToSet(m) = Holes(dr \o ch)
      /\ \A x \in dg : x < Len(dr)
      /\ \A x \in ToSet(m) : Len(dr) <= x
  BY <1>1 DEF Hears
<1>5. /\ Len(dr) \in Nat /\ Len(ch) \in Nat
      /\ Len(dr \o ch) = Len(dr) + Len(ch)
      /\ \A i \in 1..(Len(dr) + Len(ch)) :
           (dr \o ch)[i] = IF i <= Len(dr) THEN dr[i] ELSE ch[i - Len(dr)]
  BY <1>4, JoinedWords
<1> DEFINE j == b + k
<1>6. /\ j \in 1..(Len(dr) - 1) /\ j \in 1..(Len(dr) + Len(ch) - 1)
      /\ j \in 1..(Len(dr) + Len(ch)) /\ j + 1 \in 1..(Len(dr) + Len(ch))
      /\ j <= Len(dr) /\ j + 1 <= Len(dr)
      /\ k \in 1..Len(raw) /\ k + 1 \in 1..Len(raw) /\ b + (k + 1) = j + 1
      /\ k \in Nat /\ k >= 1 /\ b \in Nat /\ j > b /\ j - b = k
  <2>1. b \in Nat /\ Len(raw) \in Nat /\ b + Len(raw) = Len(dr)
    BY <1>3, <1>5
  <2>2. k \in Nat /\ k >= 1 /\ k + 1 <= Len(raw)
    BY <1>2, <2>1
  <2>3. j \in Nat /\ j + 1 <= Len(dr) /\ j > b /\ j - b = k
        /\ b + (k + 1) = j + 1
    BY <1>5, <2>1, <2>2
  <2>4. k \in 1..Len(raw) /\ k + 1 \in 1..Len(raw)
    BY <2>1, <2>2
  <2> HIDE DEF j
  <2>5. j >= 1
    BY <2>1, <2>3
  <2>6. /\ j \in 1..(Len(dr) - 1) /\ j <= Len(dr)
        /\ j \in 1..(Len(dr) + Len(ch) - 1)
        /\ j \in 1..(Len(dr) + Len(ch)) /\ j + 1 \in 1..(Len(dr) + Len(ch))
    BY <1>5, <2>3, <2>5
  <2> QED BY <2>1, <2>2, <2>3, <2>4, <2>6
<1>7. raw[k] = (dr \o ch)[j] /\ raw[k + 1] = (dr \o ch)[j + 1]
  BY <1>3, <1>5, <1>6
<1> HIDE DEF j
<1>8. raw[k + 1].at = raw[k].at + Turn <=> j \notin Holes(dr \o ch)
  BY <1>5, <1>6, <1>7 DEF Holes
<1>9. j \in Holes(dr \o ch) <=> j \in dg
  <2>1. j \notin ToSet(m)
    <3>1. j < Len(dr)
      BY <1>5, <1>6
    <3> QED BY <1>4, <1>5, <1>6, <3>1
  <2> QED BY <1>4, <2>1
<1>10. j \in dg <=> k \in ToSet(g)
  <2>1. \A x \in dg : x \in Int
    BY <1>4 DEF Holes
  <2>2. k \in From(dg, b) => j \in dg
    BY <1>6, <2>1 DEF From
  <2>3. j \in dg => k \in From(dg, b)
    BY <1>6 DEF From
  <2> QED BY <1>3, <2>2, <2>3
<1>11. (\E s \in Recording!segments(raw, g) : s[1] <= k /\ k + 1 < s[2])
         <=> k \notin ToSet(g)
  <2>1. Len(raw) \in Nat
    BY <1>3
  <2>2. k \in 1..(Len(raw) - 1)
    BY <1>2
  <2> QED BY <1>3, <2>1, <2>2, SegmentsKeepTogether
<1>12. (raw[k + 1].at = raw[k].at + Turn)
         <=> \E s \in Recording!segments(raw, g) : s[1] <= k /\ k + 1 < s[2]
  BY <1>8, <1>9, <1>10, <1>11
<1> QED BY <1>12 DEF raw, g

(* Whatever the stand-in drops, and however it is paced: the segments of a  *)
(* recorded channel are the stretches between two losses, no shorter and no *)
(* longer (capture.py:47), as long as a packet has a word of every channel  *)
(* of the capture.                                                          *)
THEOREM SegmentsAlwaysUnbroken ==
  ASSUME PktLen >= Cardinality(names)
  PROVE  SessionSpec => []SegmentsAreUnbroken
<1> DEFINE SegInv == LossInv /\ Spaced(wire, sent) /\ HearInv /\ TrackInv
<1>1. PktLen >= Turn
  BY DEF Turn
<1>2. SessionInit => SegInv
  <2>1. SessionInit => TrackInv
    BY DEF SessionInit, TrackInv
  <2> QED BY <2>1, LossInit, HearInit
<1>3. SegInv /\ [SessionNext]_sessionVars => SegInv'
  BY <1>1, LossStep, SpacedStep, HearStep, TrackStep
<1>4. SegInv => SegmentsAreUnbroken
  BY TrackIsCutAtHoles
<1> QED BY <1>2, <1>3, <1>4, PTL DEF SessionSpec
=============================================================================
