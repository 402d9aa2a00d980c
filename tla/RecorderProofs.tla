--------------------------- MODULE RecorderProofs ---------------------------
(***************************************************************************)
(* What the recording loops guarantee for every block length, every        *)
(* setting and any number of captures.  The argument: blocks come off the  *)
(* stream end to end, so the ring and the track are chains of blocks that  *)
(* reach up to where the stream is, and a recording begins with the whole  *)
(* ring.                                                                   *)
(***************************************************************************)
EXTENDS Recorder, WellFoundedInduction, SequenceTheorems, TLAPS

(* Blocks that follow one another without a hole. *)
Chain(bs) == \A i \in 1..(Len(bs) - 1) : End(bs[i]) = bs[i + 1].start

(* How far the loop has come in the stream. *)
Here == IF pc \in {"gated", "fixed"} THEN blk.start ELSE position

(* The block in hand is the stream's last. *)
InHand == pc \in {"gated", "fixed", "trim", "join"} => End(blk) = position

ReachesHere(bs) == bs # <<>> => End(Last(bs)) = Here

RingTiles == Chain(ring) /\ (pc # "done" => ReachesHere(ring))

Tiling == TypeOK /\ InHand /\ RingTiles

(* Where in the loops there is a recording: the ring is empty then, once    *)
(* its blocks are in the recording.                                         *)
Phases ==
  /\ mode = "fixed" => pc \in {"poll", "fixed", "done"} /\ track # NoTrack
  /\ mode = "gated" => pc # "fixed"
  /\ pc \in {"join", "save", "close"} => track # NoTrack
  /\ pc = "trim" => track = NoTrack /\ mode = "gated"
  /\ track # NoTrack /\ pc \notin {"join", "done"} => ring = <<>>

(* While they join it the recording holds the ring's first blocks.          *)
Joining ==
  pc = "join" =>
    /\ blk.active /\ ~Excess
    /\ Len(track) <= Len(ring)
    /\ \A i \in 1..Len(track) : track[i] = ring[i]

StreamInv == Tiling /\ Phases /\ Joining

-----------------------------------------------------------------------------
(* Chains *)

(* A block lies where it starts and lasts what it holds. *)
LEMMA BlockParts ==
  ASSUME NEW b \in Block
  PROVE  /\ b.start \in Nat /\ Dur(b) \in Nat
         /\ End(b) \in Nat /\ End(b) = b.start + Dur(b)
<1>1. b.start \in Nat /\ b.words \in Seq(Nat)
  BY DEF Block
<1>2. Dur(b) \in Nat
  BY <1>1 DEF Dur
<1> QED BY <1>1, <1>2 DEF End

(* A list of blocks is empty, or has a first and a last one. *)
LEMMA EmptyIffNone ==
  ASSUME NEW bs \in Seq(Block)
  PROVE  /\ bs = <<>> <=> Len(bs) = 0
         /\ bs # <<>> => Len(bs) \in Nat \ {0} /\ bs[1] \in Block
                         /\ Last(bs) \in Block /\ Last(bs) = bs[Len(bs)]
<1>1. bs = <<>> <=> Len(bs) = 0
  OBVIOUS
<1>2. Len(bs) \in Nat
  OBVIOUS
<1>3. ASSUME bs # <<>> PROVE bs[1] \in Block /\ bs[Len(bs)] \in Block
  BY <1>1, <1>2, <1>3
<1> QED BY <1>1, <1>2, <1>3 DEF Last

(* A block put behind a chain that it continues. *)
LEMMA ChainGrows ==
  ASSUME NEW bs \in Seq(Block), NEW b \in Block, Chain(bs),
         bs # <<>> => End(Last(bs)) = b.start
  PROVE  LET more == Append(bs, b)
         IN  /\ more \in Seq(Block) /\ more # <<>> /\ Chain(more)
             /\ Last(more) = b
             /\ bs # <<>> => more[1] = bs[1]
             /\ bs = <<>> => more[1] = b
<1> DEFINE more == Append(bs, b)
<1>1. more \in Seq(Block) /\ Len(more) = Len(bs) + 1 /\ more # <<>>
  OBVIOUS
<1>2. more[Len(more)] = b /\ \A i \in 1..Len(bs) : more[i] = bs[i]
  OBVIOUS
<1>3. Len(bs) \in Nat /\ (bs # <<>> => Len(bs) > 0)
  OBVIOUS
<1>4. ASSUME NEW i \in 1..(Len(more) - 1)
      PROVE  End(more[i]) = more[i + 1].start
  <2>1. CASE i < Len(bs)
    <3>1. more[i] = bs[i] /\ more[i + 1] = bs[i + 1]
      BY <1>1, <1>2, <1>3, <2>1
    <3>2. i \in 1..(Len(bs) - 1)
      BY <1>3, <2>1
    <3> QED BY <3>1, <3>2 DEF Chain
  <2>2. CASE i = Len(bs)
    <3>1. bs # <<>> /\ more[i] = Last(bs) /\ more[i + 1] = b
      BY <1>1, <1>2, <1>3, <2>2 DEF Last
    <3> QED BY <3>1
  <2> QED BY <1>1, <1>3, <2>1, <2>2
<1>5. Last(more) = b
  BY <1>1, <1>2 DEF Last
<1>6. bs # <<>> => more[1] = bs[1]
  BY <1>2, <1>3
<1>7. bs = <<>> => more[1] = b
  BY <1>1, <1>2
<1> QED BY <1>1, <1>4, <1>5, <1>6, <1>7 DEF Chain

(* A chain without its first block. *)
LEMMA ChainShrinks ==
  ASSUME NEW bs \in Seq(Block), bs # <<>>, Chain(bs)
  PROVE  /\ Tail(bs) \in Seq(Block) /\ Chain(Tail(bs))
         /\ Head(bs) = bs[1] /\ Head(bs) \in Block
         /\ Len(bs) = 1 => Tail(bs) = <<>> /\ Last(bs) = bs[1]
         /\ Len(bs) # 1 => /\ Tail(bs) # <<>>
                           /\ Last(Tail(bs)) = Last(bs)
                           /\ Tail(bs)[1].start = End(bs[1])
<1>1. /\ Tail(bs) \in Seq(Block) /\ Len(Tail(bs)) = Len(bs) - 1
      /\ Len(bs) \in Nat /\ Len(bs) > 0
  OBVIOUS
<1>2. \A i \in 1..(Len(bs) - 1) : Tail(bs)[i] = bs[i + 1]
  OBVIOUS
<1>3. Head(bs) = bs[1] /\ bs[1] \in Block
  OBVIOUS
<1>4. Chain(Tail(bs))
  <2> SUFFICES ASSUME NEW i \in 1..(Len(Tail(bs)) - 1)
               PROVE  End(Tail(bs)[i]) = Tail(bs)[i + 1].start
    BY DEF Chain
  <2>1. i \in 1..(Len(bs) - 1) /\ i + 1 \in 1..(Len(bs) - 1)
    BY <1>1
  <2>2. Tail(bs)[i] = bs[i + 1] /\ Tail(bs)[i + 1] = bs[i + 2]
    BY <1>2, <2>1
  <2>3. End(bs[i + 1]) = bs[i + 1 + 1].start
    BY <2>1 DEF Chain
  <2> QED BY <2>1, <2>2, <2>3
<1>5. ASSUME Len(bs) = 1 PROVE Tail(bs) = <<>> /\ Last(bs) = bs[1]
  <2>1. Len(Tail(bs)) = 0
    BY <1>1, <1>5
  <2>2. Tail(bs) = <<>>
    BY <1>1, <2>1, EmptyIffNone
  <2> QED BY <1>5, <2>2 DEF Last
<1>6. ASSUME Len(bs) # 1
      PROVE  /\ Tail(bs) # <<>> /\ Last(Tail(bs)) = Last(bs)
             /\ Tail(bs)[1].start = End(bs[1])
  <2>1. Len(bs) > 1
    BY <1>1, <1>6
  <2>2. Len(Tail(bs)) # 0 /\ Tail(bs)[Len(bs) - 1] = bs[Len(bs)]
    BY <1>1, <1>2, <2>1
  <2>4. Tail(bs) # <<>>
    BY <1>1, <2>2, EmptyIffNone
  <2>3. Tail(bs)[1] = bs[2] /\ End(bs[1]) = bs[2].start
    BY <1>1, <1>2, <2>1 DEF Chain
  <2> QED BY <1>1, <2>2, <2>3, <2>4 DEF Last
<1> QED BY <1>1, <1>3, <1>4, <1>5, <1>6

-----------------------------------------------------------------------------
(* Every step keeps the stream's blocks end to end. *)

(* The verdict changes neither the place nor the samples of a block. *)
LEMMA BlockInHand ==
  ASSUME TypeOK, NEW active \in BOOLEAN
  PROVE  /\ Judged(active) \in Block /\ Dur(Judged(active)) = Dur(blk)
         /\ Judged(active).start = blk.start
         /\ End(Judged(active)) = End(blk)
         /\ Judged(active).words = blk.words
         /\ Judged(active).active = active
BY DEF TypeOK, Judged, Block, End, Dur

(* The loops begin with nothing kept. *)
LEMMA InitStream == Init => StreamInv
<1> SUFFICES ASSUME Init PROVE StreamInv
  OBVIOUS
<1> USE DEF StreamInv, Tiling
<1>1. blk \in Block
  BY DEF Init, NoBlock, Block
<1>2. ring = <<>> /\ Span(ring) = 0 /\ Chain(ring)
  BY DEF Init, Span, Chain
<1>3. track \in Seq(Block) \cup {NoTrack}
  BY DEF Init
<1>4. TypeOK
  <2>1. 1 \in 1..MaxEpoch
    BY RecorderAssumption
  <2>2. \A S : <<>> \in Seq(S)
    OBVIOUS
  <2>3. ring_s \in Nat /\ ring_s = Span(ring) /\ quiet_s <= rec_s
    BY <1>2 DEF Init
  <2>4. {ring, fed} \subseteq Seq(Block)
    BY <2>2 DEF Init
  <2> QED BY <1>1, <1>3, <2>1, <2>2, <2>3, <2>4 DEF Init, TypeOK
<1>5. Phases
  <2>1. <<>> \in Seq(Block)
    OBVIOUS
  <2>2. <<>> # NoTrack
    BY <2>1, RecorderAssumption
  <2> QED BY <2>2 DEF Init, Phases
<1>6. Joining
  BY DEF Init, Joining
<1> QED BY <1>2, <1>4, <1>5, <1>6 DEF Init, InHand, RingTiles, ReachesHere

(* A poll hands over the stream's next block. *)
LEMMA PollStream ==
  ASSUME StreamInv, NEW n \in BlockLens, NEW k \in 0..n, Poll(n, k)
  PROVE  Tiling' /\ Here' = Here
<1> USE DEF StreamInv, Tiling
<1>1. n \in Nat \ {0} /\ k \in Nat /\ position \in Nat /\ epoch \in 1..MaxEpoch
  BY RecorderAssumption DEF TypeOK
<1> DEFINE words == [i \in 1..n |-> IF i <= k THEN epoch ELSE epoch + 1]
<1>2. words \in Seq(Nat) /\ Len(words) = n
  <2>1. \A i \in 1..n : words[i] \in Nat
    BY <1>1
  <2> QED BY <1>1, <2>1
<1>3. blk' = [start |-> position, epoch_changed |-> k < n, active |-> FALSE,
              words |-> words]
  BY DEF Poll
<1> HIDE DEF words
<1>4. (k < n) \in BOOLEAN
  OBVIOUS
<1>5. blk' \in Block /\ Dur(blk') = n /\ blk'.start = position
  BY <1>1, <1>2, <1>3, <1>4 DEF Block, Dur
<1>6. End(blk') = position' /\ position' \in Nat
  BY <1>1, <1>5 DEF End, Poll
<1>7. epoch' \in 1..MaxEpoch
  BY <1>1, RecorderAssumption DEF Poll
<1>8. pc' \in {"gated", "fixed"}
  BY DEF Poll, TypeOK
<1>9. Here' = position /\ Here = position
  BY <1>5, <1>8 DEF Here, Poll
<1>10. TypeOK'
  BY <1>5, <1>6, <1>7, <1>8 DEF TypeOK, Poll
<1>11. InHand'
  BY <1>6 DEF InHand
<1>12. RingTiles'
  BY <1>9 DEF RingTiles, ReachesHere, Poll, Here
<1> QED BY <1>9, <1>10, <1>11, <1>12

(* The detector's warm-up is a duration. *)
LEMMA FeedTypes ==
  ASSUME TypeOK, NEW active \in BOOLEAN, Feed(active)
  PROVE  warm_s' \in Nat /\ ready' \in BOOLEAN
<1>1. Dur(blk) \in Nat
  BY BlockParts DEF TypeOK
<1> QED BY <1>1 DEF TypeOK, Feed

(* The block in hand continues the ring. *)
LEMMA WatchStream ==
  ASSUME StreamInv, NEW active \in BOOLEAN, Watch(active)
  PROVE  Tiling' /\ Here' = position /\ Here = blk.start
<1> USE DEF StreamInv, Tiling
<1> DEFINE b == Judged(active)
<1>1. /\ b \in Block /\ Dur(b) = Dur(blk) /\ b.start = blk.start
      /\ End(b) = End(blk) /\ blk \in Block
  BY BlockInHand DEF TypeOK
<1>2. Here = blk.start /\ Here' = position /\ End(blk) = position
  BY DEF Watch, Here, InHand
<1>3. blk' = b /\ ring' = Append(ring, b) /\ ring_s' = ring_s + Dur(blk)
  BY DEF Watch
<1>4. ring \in Seq(Block) /\ Chain(ring)
      /\ (ring # <<>> => End(Last(ring)) = b.start)
  BY <1>1, <1>2 DEF TypeOK, RingTiles, ReachesHere, Watch
<1> HIDE DEF b
<1>5. /\ ring' \in Seq(Block) /\ ring' # <<>> /\ Chain(ring')
      /\ Last(ring') = b
      /\ ring # <<>> => ring'[1] = ring[1]
      /\ ring = <<>> => ring'[1] = b
  BY <1>1, <1>3, <1>4, ChainGrows
<1>6. ring_s' \in Nat /\ ring_s' = Span(ring')
  <2>1. /\ Dur(b) \in Nat /\ b.start \in Nat /\ End(b) = b.start + Dur(b)
        /\ ring_s \in Nat /\ ring_s = Span(ring)
    BY <1>1, BlockParts DEF TypeOK
  <2>2. Span(ring') = End(b) - ring'[1].start
    BY <1>5 DEF Span
  <2>3. CASE ring = <<>>
    BY <1>1, <1>3, <1>5, <2>1, <2>2, <2>3 DEF Span
  <2>4. CASE ring # <<>>
    <3>1. Span(ring) = b.start - ring[1].start /\ ring[1].start \in Nat
      BY <1>4, <2>4, EmptyIffNone, BlockParts DEF Span
    <3> QED BY <1>1, <1>3, <1>5, <2>1, <2>2, <2>4, <3>1
  <2> QED BY <2>3, <2>4
<1>7. TypeOK'
  <2>1. warm_s' \in Nat /\ ready' \in BOOLEAN
    BY FeedTypes DEF Watch
  <2> QED BY <1>1, <1>3, <1>5, <1>6, <2>1 DEF TypeOK, Watch
<1>8. InHand'
  BY <1>1, <1>2, <1>3 DEF InHand, Watch
<1>9. RingTiles'
  BY <1>1, <1>2, <1>5 DEF RingTiles, ReachesHere
<1> QED BY <1>2, <1>7, <1>8, <1>9

(* The ring without its oldest block still reaches up to here. *)
LEMMA TrimStream ==
  ASSUME StreamInv, Trim
  PROVE  Tiling' /\ Here' = Here
<1> USE DEF StreamInv, Tiling
<1>1. ring \in Seq(Block) /\ ring # <<>> /\ Chain(ring)
  BY DEF TypeOK, Trim, Excess, RingTiles
<1>2. /\ Tail(ring) \in Seq(Block) /\ Chain(Tail(ring))
      /\ Head(ring) = ring[1] /\ Head(ring) \in Block
      /\ Len(ring) = 1 => Tail(ring) = <<>> /\ Last(ring) = ring[1]
      /\ Len(ring) # 1 => /\ Tail(ring) # <<>>
                          /\ Last(Tail(ring)) = Last(ring)
                          /\ Tail(ring)[1].start = End(ring[1])
  BY <1>1, ChainShrinks
<1>3. ring' = Tail(ring) /\ ring_s' = ring_s - Dur(Head(ring))
      /\ ring_s - Dur(Head(ring)) >= PreS
  BY DEF Trim, RingLeft, Excess
<1>4. /\ Dur(ring[1]) \in Nat /\ ring[1].start \in Nat
      /\ End(ring[1]) = ring[1].start + Dur(ring[1])
  BY <1>2, BlockParts
<1>5. /\ Last(ring) \in Block /\ End(Last(ring)) \in Nat
      /\ ring_s \in Nat /\ ring_s = End(Last(ring)) - ring[1].start
  BY <1>1, EmptyIffNone, BlockParts DEF TypeOK, Span
<1>6. Here' = Here
  BY DEF Here, Trim
<1>7. ring_s' \in Nat
  <2>1. PreS \in Nat
    BY RecorderAssumption
  <2> QED BY <1>2, <1>3, <1>4, <1>5, <2>1
<1>8. ring_s' = Span(ring') /\ ReachesHere(ring)'
  <2>1. CASE Len(ring) = 1
    BY <1>2, <1>3, <1>4, <1>5, <2>1 DEF Span, ReachesHere
  <2>2. CASE Len(ring) # 1
    <3>1. Span(ring') = End(Last(ring)) - End(ring[1])
      BY <1>2, <1>3, <2>2 DEF Span
    <3>2. End(Last(ring)) = Here
      BY <1>1 DEF RingTiles, ReachesHere, Trim
    <3> QED BY <1>2, <1>3, <1>4, <1>5, <1>6, <2>2, <3>1, <3>2 DEF ReachesHere
  <2> QED BY <2>1, <2>2
<1>9. TypeOK'
  BY <1>2, <1>3, <1>7, <1>8 DEF TypeOK, Trim
<1>10. InHand'
  BY DEF InHand, Trim, End, Dur
<1> QED BY <1>2, <1>3, <1>6, <1>8, <1>9, <1>10 DEF RingTiles, ReachesHere

(* While the ring joins it the recording is a chain as the ring is, and in  *)
(* the end it is the ring.                                                  *)
LEMMA JoinedParts ==
  ASSUME StreamInv, pc = "join"
  PROVE  /\ track \in Seq(Block) /\ Chain(track)
         /\ Len(track) = Len(ring) => track = ring
<1>1. /\ track \in Seq(Block) /\ ring \in Seq(Block) /\ Chain(ring)
      /\ Len(track) <= Len(ring) /\ Len(track) \in Nat /\ Len(ring) \in Nat
      /\ \A i \in 1..Len(track) : track[i] = ring[i]
  BY DEF StreamInv, Tiling, TypeOK, RingTiles, Phases, Joining
<1>2. ASSUME NEW i \in 1..(Len(track) - 1)
      PROVE  End(track[i]) = track[i + 1].start
  <2>1. /\ i \in 1..Len(track) /\ i + 1 \in 1..Len(track)
        /\ i \in 1..(Len(ring) - 1)
    BY <1>1
  <2>2. track[i] = ring[i] /\ track[i + 1] = ring[i + 1]
    BY <1>1, <2>1
  <2> QED BY <1>1, <2>1, <2>2 DEF Chain
<1>3. Len(track) = Len(ring) => track = ring
  BY <1>1, SeqEqual
<1> QED BY <1>1, <1>2, <1>3 DEF Chain

(* The recording begins, and the ring stays as it is ... *)
LEMMA TriggerStream ==
  ASSUME StreamInv, Trigger
  PROVE  Tiling' /\ Here' = position /\ Here = position
<1> USE DEF StreamInv, Tiling
<1>1. Here' = position /\ Here = position /\ position' = position
  BY DEF Trigger, Here
<1>2. /\ blk \in Block /\ fed' \in Seq(Block)
      /\ track' \in Seq(Block) \cup {NoTrack}
  <2>1. /\ blk \in Block /\ fed \in Seq(Block)
        /\ track \in Seq(Block) \cup {NoTrack}
    BY DEF TypeOK
  <2>2. <<>> \in Seq(Block) /\ Append(fed, blk) \in Seq(Block)
    BY <2>1
  <2> QED BY <2>1, <2>2 DEF Trigger
<1>3. TypeOK'
  BY <1>2 DEF TypeOK, Trigger, Span
<1>4. RingTiles'
  BY <1>1 DEF RingTiles, ReachesHere, Trigger
<1> QED BY <1>1, <1>3, <1>4 DEF InHand, Trigger, End, Dur

(* ... while its blocks are added, ... *)
LEMMA AddHistoryStream ==
  ASSUME StreamInv, AddHistory
  PROVE  Tiling' /\ Here' = position /\ Here = position
<1> USE DEF StreamInv, Tiling
<1>1. Here' = position /\ Here = position /\ position' = position
  BY DEF AddHistory, Here
<1>2. track' \in Seq(Block)
  <2>1. track \in Seq(Block) /\ ring \in Seq(Block)
    BY DEF AddHistory, TypeOK, Phases
  <2>2. Len(track) + 1 \in 1..Len(ring)
    BY <2>1 DEF AddHistory
  <2> QED BY <2>1, <2>2 DEF AddHistory
<1>3. TypeOK'
  BY <1>2 DEF TypeOK, AddHistory, Span
<1>4. RingTiles'
  BY <1>1 DEF RingTiles, ReachesHere, AddHistory
<1> QED BY <1>1, <1>3, <1>4 DEF InHand, AddHistory, End, Dur

(* ... and is then empty. *)
LEMMA RecordStream ==
  ASSUME StreamInv, Record
  PROVE  Tiling' /\ Here' = position /\ Here = position
<1> USE DEF StreamInv, Tiling
<1>1. Here' = position /\ Here = position /\ position' = position
  BY DEF Record, Here
<1>2. blk \in Block /\ fed' \in Seq(Block)
  BY DEF TypeOK, Record
<1>3. <<>> \in Seq(Block) /\ Span(<<>>) = 0 /\ Chain(<<>>)
  BY DEF Span, Chain
<1>4. ring' = <<>> /\ ring_s' = 0 /\ quiet_s' = 0 /\ rec_s' = 0
  BY DEF Record, RingAfter
<1>5. TypeOK'
  BY <1>2, <1>3, <1>4 DEF TypeOK, Record
<1>6. RingTiles'
  BY <1>3, <1>4 DEF RingTiles, ReachesHere
<1> QED BY <1>1, <1>5, <1>6 DEF InHand, Record

(* The block in hand joins the recording; the ring stays empty. *)
LEMMA ExtendStream ==
  ASSUME StreamInv, NEW active \in BOOLEAN, Extend(active)
  PROVE  Tiling' /\ Here' = position /\ Here = blk.start
<1> USE DEF StreamInv, Tiling
<1> DEFINE b == Judged(active)
<1>1. b \in Block /\ blk \in Block /\ Dur(blk) \in Nat
  BY BlockInHand, BlockParts DEF TypeOK
<1>2. track' = Append(track, b) /\ fed' = Append(fed, b)
  BY DEF Extend
<1>3. track \in Seq(Block) /\ fed \in Seq(Block)
  BY DEF TypeOK, Extend
<1> HIDE DEF b
<1>4. track' \in Seq(Block) /\ fed' \in Seq(Block)
  BY <1>1, <1>2, <1>3
<1>5. pc' \in {"poll", "save"}
  BY DEF Extend
<1>6. quiet_s' \in Nat /\ rec_s' \in Nat /\ quiet_s' <= rec_s'
  BY <1>1 DEF TypeOK, Extend, QuietAfter
<1>7. warm_s' \in Nat /\ ready' \in BOOLEAN
  BY FeedTypes DEF Extend
<1>8. TypeOK'
  BY <1>4, <1>5, <1>6, <1>7 DEF TypeOK, Extend, Span
<1>11. ring' = <<>>
  BY DEF Extend, Phases
<1>9. Here' = position /\ Here = blk.start
  BY <1>5 DEF Here, Extend
<1>10. InHand' /\ RingTiles'
  BY <1>5, <1>11 DEF InHand, RingTiles, ReachesHere, Chain
<1> QED BY <1>8, <1>9, <1>10

(* The other steps leave the ring and the stream alone.                    *)
LEMMA RestStream ==
  ASSUME StreamInv, Save \/ Close \/ AddFixed \/ EndFixed \/ Interrupt
  PROVE  Tiling'
<1> USE DEF StreamInv, Tiling
<1>1. \A r \in Seq(Block), i \in BOOLEAN :
        Append(saved, [blocks |-> r, interrupted |-> i])
          \in Seq([blocks : Seq(Block), interrupted : BOOLEAN])
  BY DEF TypeOK
<1>2. TypeOK' /\ InHand' /\ UNCHANGED <<blk, ring, position>>
  <2>1. CASE Save
    <3>1. track \in Seq(Block)
      BY <2>1 DEF TypeOK, Phases, Save
    <3> QED BY <1>1, <2>1, <3>1 DEF TypeOK, InHand, Save, Span
  <2>2. CASE Close
    BY <2>2 DEF TypeOK, InHand, Close, Span
  <2>3. CASE AddFixed
    <3>1. track \in Seq(Block) /\ blk \in Block /\ fed \in Seq(Block)
      BY <2>3 DEF TypeOK, Phases, AddFixed
    <3>2. Append(track, blk) \in Seq(Block) /\ Append(fed, blk) \in Seq(Block)
      BY <3>1
    <3> QED BY <2>3, <3>2 DEF TypeOK, InHand, AddFixed, Span
  <2>4. CASE EndFixed
    <3>1. track \in Seq(Block)
      BY <2>4 DEF TypeOK, Phases, EndFixed
    <3> QED BY <1>1, <2>4, <3>1 DEF TypeOK, InHand, EndFixed, Span
  <2>5. CASE Interrupt
    <3>1. track # NoTrack => track \in Seq(Block)
      BY DEF TypeOK
    <3>2. saved' \in Seq([blocks : Seq(Block), interrupted : BOOLEAN])
      BY <1>1, <2>5, <3>1 DEF TypeOK, Interrupt, KeptOnInterrupt
    <3> QED BY <2>5, <3>2 DEF TypeOK, InHand, Interrupt, Span
  <2> QED BY <2>1, <2>2, <2>3, <2>4, <2>5
<1>3. RingTiles'
  <2>1. CASE Save \/ Close
    BY <1>2, <2>1 DEF RingTiles, ReachesHere, Here, Save, Close
  <2>2. CASE AddFixed \/ EndFixed
    <3>1. ring = <<>>
      BY <2>2 DEF Phases, AddFixed, EndFixed
    <3> QED BY <1>2, <3>1 DEF RingTiles, ReachesHere
  <2>3. CASE Interrupt
    BY <1>2, <2>3 DEF RingTiles, Interrupt
  <2> QED BY <2>1, <2>2, <2>3
<1> QED BY <1>2, <1>3

(* Every step goes from one place in the loops to one that follows it. *)
LEMMA PhasesKept ==
  ASSUME StreamInv, [Next]_vars
  PROVE  Phases'
<1> USE DEF StreamInv, Tiling
<1>1. NoTrack \notin Seq(Block)
  BY RecorderAssumption
<1>2. ring \in Seq(Block) /\ (track # NoTrack => track \in Seq(Block))
  BY DEF TypeOK
<1>3. \A bs \in Seq(Block), b \in Block : Append(bs, b) # NoTrack
  BY <1>1
<1>4. ASSUME NEW n \in BlockLens, NEW k \in 0..n, Poll(n, k) PROVE Phases'
  BY <1>4 DEF Phases, TypeOK, Poll
<1>5. ASSUME NEW active \in BOOLEAN, Watch(active) PROVE Phases'
  BY <1>5 DEF Phases, Watch
<1>6. CASE Trim
  BY <1>6 DEF Phases, Trim
<1>7. CASE Trigger
  <2>1. <<>> # NoTrack
    <3>1. <<>> \in Seq(Block)
      OBVIOUS
    <3> QED BY <1>1, <3>1
  <2> QED BY <1>7, <2>1 DEF Phases, Trigger
<1>15. CASE AddHistory
  <2>1. track' # NoTrack
    <3>1. track' \in Seq(Block)
      <4>1. Len(track) + 1 \in 1..Len(ring) /\ track \in Seq(Block)
        BY <1>2, <1>15 DEF AddHistory, Phases
      <4> QED BY <1>2, <1>15, <4>1 DEF AddHistory
    <3> QED BY <1>1, <3>1
  <2> QED BY <1>15, <2>1 DEF Phases, AddHistory
<1>16. CASE Record
  BY <1>16 DEF Phases, Record, RingAfter
<1>8. ASSUME NEW active \in BOOLEAN, Extend(active) PROVE Phases'
  <2>1. track' # NoTrack
    BY <1>2, <1>3, <1>8, BlockInHand DEF Extend
  <2> QED BY <1>8, <2>1 DEF Phases, Extend
<1>9. CASE Save
  BY <1>9 DEF Phases, Save
<1>10. CASE Close
  BY <1>10 DEF Phases, Close
<1>11. CASE AddFixed
  <2>1. track' # NoTrack
    BY <1>2, <1>3, <1>11 DEF AddFixed, Phases, TypeOK
  <2> QED BY <1>11, <2>1 DEF Phases, AddFixed
<1>12. CASE EndFixed
  BY <1>12 DEF Phases, EndFixed
<1>13. CASE Interrupt
  BY <1>13 DEF Phases, Interrupt
<1>14. CASE UNCHANGED vars
  BY <1>14 DEF Phases, vars
<1> QED
  BY <1>4, <1>5, <1>6, <1>7, <1>8, <1>9, <1>10, <1>11, <1>12, <1>13, <1>14,
     <1>15, <1>16
  DEF Next

(* History joins a recording block by block, in the ring's order. *)
LEMMA JoiningKept ==
  ASSUME StreamInv, [Next]_vars
  PROVE  Joining'
<1> USE DEF StreamInv, Tiling
<1>1. ring \in Seq(Block) /\ (track # NoTrack => track \in Seq(Block))
  BY DEF TypeOK
<1> SUFFICES ASSUME pc' = "join" PROVE Joining'
  BY DEF Joining
<1>2. CASE Trigger
  <2>1. /\ track' = <<>> /\ UNCHANGED <<blk, ring, ring_s>> /\ blk.active
        /\ ~Excess
    BY <1>2 DEF Trigger
  <2>2. Len(track') = 0 /\ 1..Len(track') = {} /\ Len(ring') \in Nat
    BY <1>1, <2>1
  <2> QED BY <2>1, <2>2 DEF Joining, Excess, Dur
<1>3. CASE AddHistory
  <2>1. /\ pc = "join" /\ track \in Seq(Block) /\ Len(track) < Len(ring)
        /\ track' = Append(track, ring[Len(track) + 1])
        /\ UNCHANGED <<blk, ring, ring_s>> /\ Len(ring) \in Nat
    BY <1>1, <1>3 DEF AddHistory, Phases
  <2>2. blk.active /\ ~Excess /\ \A i \in 1..Len(track) : track[i] = ring[i]
    BY <2>1 DEF Joining
  <2>3. /\ Len(track') = Len(track) + 1 /\ Len(track) \in Nat
        /\ \A i \in 1..Len(track) : track'[i] = track[i]
        /\ track'[Len(track) + 1] = ring[Len(track) + 1]
    BY <2>1
  <2>4. ASSUME NEW i \in 1..Len(track') PROVE track'[i] = ring'[i]
    <3>1. i \in 1..Len(track) \/ i = Len(track) + 1
      BY <2>3
    <3> QED BY <2>1, <2>2, <2>3, <3>1
  <2> QED BY <2>1, <2>2, <2>3, <2>4 DEF Joining, Excess, Dur
<1>4. CASE UNCHANGED vars
  BY <1>4 DEF vars, Joining, Excess, Dur
<1>5. /\ ~Trim /\ ~Record /\ ~Save /\ ~Close /\ ~AddFixed /\ ~EndFixed
      /\ ~Interrupt
      /\ \A active \in BOOLEAN : ~Watch(active) /\ ~Extend(active)
      /\ \A n \in BlockLens : \A k \in 0..n : ~Poll(n, k)
  BY DEF Trim, Record, Save, Close, AddFixed, EndFixed, Interrupt, Watch,
         Extend, Poll, TypeOK
<1> QED BY <1>2, <1>3, <1>4, <1>5 DEF Next

(* So every step keeps the stream together. *)
LEMMA StreamStep ==
  ASSUME StreamInv, [Next]_vars
  PROVE  StreamInv'
<1>1. Phases' /\ Joining'
  BY PhasesKept, JoiningKept
<1>2. Tiling'
  <2>1. ASSUME UNCHANGED vars PROVE Tiling'
    BY <2>1 DEF vars, StreamInv, Tiling, TypeOK, InHand, RingTiles,
                ReachesHere, Here, Chain, Span, End, Dur
  <2> QED
    BY <2>1, PollStream, WatchStream, TrimStream, TriggerStream,
       AddHistoryStream, RecordStream, ExtendStream, RestStream DEF Next
<1> QED BY <1>1, <1>2 DEF StreamInv

(* The types of both loops, and that the time kept of the ring is the time *)
(* its blocks span, for any block lengths and settings.                    *)
THEOREM TypeCorrect == Spec => []TypeOK
<1>1. StreamInv => TypeOK
  BY DEF StreamInv, Tiling
<1> QED BY <1>1, InitStream, StreamStep, PTL DEF Spec

-----------------------------------------------------------------------------
(* Fixed mode: one epoch.  The recording under way is of the epoch the     *)
(* stream is in, and a block of another is never added.                    *)

WordsOf(b, e) == \A k \in DOMAIN b.words : b.words[k] = e
OfEpoch(bs, e) == \A i \in DOMAIN bs : WordsOf(bs[i], e)

FixedInv ==
  mode = "fixed" =>
    /\ pc = "poll" => OfEpoch(track, epoch)
    /\ pc = "fixed" /\ ~blk.epoch_changed =>
         OfEpoch(track, epoch) /\ WordsOf(blk, epoch)
    /\ FixedIsOneEpoch

(* A recording of fixed length stays within its epoch. *)
LEMMA FixedStep ==
  ASSUME StreamInv, FixedInv, [Next]_vars
  PROVE  FixedInv'
<1> SUFFICES ASSUME mode' = "fixed" PROVE FixedInv'
  BY DEF FixedInv
<1>1. mode = "fixed"
  BY DEF Next, vars, Poll, Watch, Trim, Trigger, AddHistory, Record, Extend,
         Save, Close, AddFixed, EndFixed, Interrupt
<1>2. /\ pc \in {"poll", "fixed", "done"} /\ track \in Seq(Block)
      /\ blk \in Block
  BY <1>1 DEF StreamInv, Tiling, TypeOK, Phases
<1>3. /\ pc = "poll" => OfEpoch(track, epoch)
      /\ pc = "fixed" /\ ~blk.epoch_changed =>
           OfEpoch(track, epoch) /\ WordsOf(blk, epoch)
      /\ \A i \in DOMAIN saved : OneEpoch(saved[i].blocks)
  BY <1>1 DEF FixedInv, FixedIsOneEpoch
<1>4. ASSUME NEW n \in BlockLens, NEW k \in 0..n, Poll(n, k)
      PROVE  FixedInv'
  <2>1. pc' = "fixed" /\ UNCHANGED <<track, saved>>
    BY <1>1, <1>4 DEF Poll
  <2>2. ASSUME ~blk'.epoch_changed
        PROVE  OfEpoch(track, epoch)' /\ WordsOf(blk, epoch)'
    <3>1. n \in Nat /\ k \in Nat
      BY RecorderAssumption
    <3>2. /\ blk'.epoch_changed = (k < n)
          /\ blk'.words = [i \in 1..n |-> IF i <= k THEN epoch ELSE epoch + 1]
          /\ epoch' = IF k < n THEN epoch + 1 ELSE epoch
      BY <1>4 DEF Poll
    <3>3. ~(k < n)
      BY <2>2, <3>2
    <3>4. epoch' = epoch /\ \A i \in 1..n : i <= k
      BY <3>1, <3>2, <3>3
    <3>5. WordsOf(blk', epoch')
      BY <3>2, <3>4 DEF WordsOf
    <3>6. OfEpoch(track, epoch)
      BY <1>3, <1>4 DEF Poll
    <3> QED BY <2>1, <3>4, <3>5, <3>6 DEF OfEpoch, WordsOf
  <2> QED BY <1>3, <2>1, <2>2 DEF FixedInv, FixedIsOneEpoch, OneEpoch
<1>5. CASE AddFixed
  <2>1. CASE blk.epoch_changed
    BY <1>3, <1>5, <2>1 DEF AddFixed, Mixes, FixedInv, FixedIsOneEpoch, OneEpoch
  <2>2. CASE ~blk.epoch_changed
    <3>1. /\ pc' = "poll" /\ track' = Append(track, blk)
          /\ UNCHANGED <<epoch, saved>>
      BY <1>5, <2>2 DEF AddFixed, Mixes
    <3>2. OfEpoch(track, epoch) /\ WordsOf(blk, epoch)
      BY <1>3, <1>5, <2>2 DEF AddFixed
    <3>3. /\ DOMAIN track' = 1..(Len(track) + 1) /\ DOMAIN track = 1..Len(track)
          /\ \A i \in 1..Len(track) : track'[i] = track[i]
          /\ track'[Len(track) + 1] = blk /\ Len(track) \in Nat
      BY <1>2, <3>1
    <3>4. ASSUME NEW i \in DOMAIN track' PROVE WordsOf(track'[i], epoch)
      <4>1. i \in 1..Len(track) \/ i = Len(track) + 1
        BY <3>3
      <4> QED BY <3>2, <3>3, <4>1 DEF OfEpoch
    <3> QED
      BY <1>3, <3>1, <3>4
      DEF FixedInv, FixedIsOneEpoch, OneEpoch, OfEpoch, WordsOf
  <2> QED BY <2>1, <2>2
<1>6. CASE EndFixed
  <2>1. /\ pc' = "done" /\ OfEpoch(track, epoch)
        /\ saved' = Append(saved, [blocks |-> track, interrupted |-> FALSE])
    BY <1>3, <1>6 DEF EndFixed
  <2>2. OneEpoch(track)
    BY <2>1 DEF OneEpoch, OfEpoch, WordsOf
  <2>3. \A i \in DOMAIN saved' :
          \/ i \in DOMAIN saved /\ saved'[i] = saved[i]
          \/ saved'[i].blocks = track
    BY <2>1 DEF StreamInv, Tiling, TypeOK
  <2>4. \A i \in DOMAIN saved' : OneEpoch(saved'[i].blocks)
    BY <1>3, <2>2, <2>3
  <2> QED BY <2>1, <2>4 DEF FixedInv, FixedIsOneEpoch, OneEpoch
<1>7. CASE Interrupt
  BY <1>1, <1>3, <1>7
  DEF Interrupt, KeptOnInterrupt, FixedInv, FixedIsOneEpoch, OneEpoch
<1>8. CASE UNCHANGED vars
  BY <1>3, <1>8
  DEF vars, FixedInv, FixedIsOneEpoch, OneEpoch, OfEpoch, WordsOf
<1>9. /\ ~Trim /\ ~Trigger /\ ~AddHistory /\ ~Record /\ ~Save /\ ~Close
      /\ \A active \in BOOLEAN : ~Watch(active) /\ ~Extend(active)
  BY <1>1, <1>2 DEF Trim, Trigger, AddHistory, Record, Save, Close, Watch,
                    Extend
<1> QED BY <1>4, <1>5, <1>6, <1>7, <1>8, <1>9 DEF Next

(* A capture of record_for never mixes two sample rates, however the       *)
(* samples were split into blocks and whenever the ESP was reconfigured.   *)
THEOREM FixedNeverMixes == Spec => []FixedIsOneEpoch
<1>1. Init => FixedInv
  BY DEF Init, FixedInv, FixedIsOneEpoch, OfEpoch
<1>2. FixedInv => FixedIsOneEpoch
  BY DEF FixedInv, FixedIsOneEpoch
<1> QED BY <1>1, <1>2, InitStream, StreamStep, FixedStep, PTL DEF Spec

-----------------------------------------------------------------------------
(* Gated mode: the captures.  What is written is a chain of blocks, each   *)
(* capture begins where or after the last one ended, and the stream has    *)
(* come at least as far.  With history to keep (PreS # 0) the block that   *)
(* triggers is still in the ring when the recording takes it over.         *)

SavedEnd == End(Last(Last(saved).blocks))

InOrder ==
  \A n \in 2..Len(saved) : ~saved[n].interrupted =>
    End(Last(saved[n - 1].blocks)) <= saved[n].blocks[1].start

UnderWay ==
  /\ track # NoTrack /\ pc # "join" =>
       /\ Chain(track)
       /\ pc # "done" => track # <<>> /\ End(Last(track)) = Here
  /\ pc \in {"trim", "join"} => ring # <<>> /\ Last(ring) = blk
  /\ pc = "close" => saved # <<>> /\ Last(saved).blocks = track

AfterSaved ==
  saved # <<>> /\ pc # "done" =>
    /\ SavedEnd <= Here
    /\ ring # <<>> => SavedEnd <= ring[1].start
    /\ track # NoTrack /\ pc \notin {"join", "close"} =>
         SavedEnd <= track[1].start

(* Only a capture that Ctrl-C cut short can be empty. *)
WellMade ==
  \A n \in DOMAIN saved : /\ Chain(saved[n].blocks)
                          /\ pc # "done" => saved[n].blocks # <<>>

Captures == WellMade /\ InOrder /\ UnderWay /\ AfterSaved

(* What is written are lists of blocks. *)
LEMMA SavedParts ==
  ASSUME TypeOK
  PROVE  /\ Len(saved) \in Nat /\ DOMAIN saved = 1..Len(saved)
         /\ \A n \in DOMAIN saved : saved[n].blocks \in Seq(Block)
         /\ saved # <<>> => Len(saved) > 0 /\ Last(saved) = saved[Len(saved)]
<1> DEFINE S == [blocks : Seq(Block), interrupted : BOOLEAN]
<1>1. saved \in Seq(S)
  BY DEF TypeOK
<1>2. \A c \in S : c.blocks \in Seq(Block)
  OBVIOUS
<1> HIDE DEF S
<1>3. \A n \in DOMAIN saved : saved[n] \in S
  BY <1>1
<1> QED BY <1>1, <1>2, <1>3 DEF Last

(* A capture more. *)
LEMMA SavedGrows ==
  ASSUME TypeOK, NEW r \in Seq(Block), NEW i \in BOOLEAN,
         saved' = Append(saved, [blocks |-> r, interrupted |-> i])
  PROVE  /\ Len(saved) \in Nat /\ Len(saved') = Len(saved) + 1
         /\ saved' # <<>> /\ DOMAIN saved = 1..Len(saved)
         /\ DOMAIN saved' = 1..(Len(saved) + 1)
         /\ \A n \in 1..Len(saved) : saved'[n] = saved[n]
         /\ saved'[Len(saved) + 1] = [blocks |-> r, interrupted |-> i]
         /\ Last(saved').blocks = r
         /\ saved # <<>> => Len(saved) > 0 /\ Last(saved) = saved[Len(saved)]
         /\ \A n \in DOMAIN saved : saved[n].blocks \in Seq(Block)
<1> DEFINE S == [blocks : Seq(Block), interrupted : BOOLEAN]
           c == [blocks |-> r, interrupted |-> i]
<1>1. saved \in Seq(S) /\ c \in S /\ saved' = Append(saved, c)
  BY DEF TypeOK
<1>2. c.blocks = r
  OBVIOUS
<1>4. \A n \in DOMAIN saved : saved[n].blocks \in Seq(Block)
  BY SavedParts
<1> HIDE DEF S, c
<1>5. /\ Len(saved) \in Nat /\ Len(saved') = Len(saved) + 1
      /\ DOMAIN saved = 1..Len(saved)
      /\ DOMAIN saved' = 1..(Len(saved) + 1) /\ saved' # <<>>
      /\ \A n \in 1..Len(saved) : saved'[n] = saved[n]
      /\ saved'[Len(saved) + 1] = c
  BY <1>1
<1>6. Last(saved') = c
  BY <1>5 DEF Last
<1>7. saved # <<>> => Len(saved) > 0 /\ Last(saved) = saved[Len(saved)]
  BY <1>1 DEF Last
<1> QED BY <1>2, <1>4, <1>5, <1>6, <1>7 DEF c

(* Writing the recording under way keeps what is written well made and in  *)
(* order.                                                                  *)
LEMMA WriteCapture ==
  ASSUME StreamInv, Captures, NEW i \in BOOLEAN, track # NoTrack, pc # "done",
         saved' = Append(saved, [blocks |-> track, interrupted |-> i]),
         pc' = "done" \/ (~i /\ pc = "save"),
         ~i => pc \notin {"join", "close"}
  PROVE  WellMade' /\ InOrder'
<1>1. track \in Seq(Block) /\ Chain(track) /\ TypeOK
  BY JoinedParts DEF StreamInv, Tiling, TypeOK, Captures, UnderWay
<1>2. /\ Len(saved) \in Nat /\ Len(saved') = Len(saved) + 1
      /\ DOMAIN saved = 1..Len(saved)
      /\ DOMAIN saved' = 1..(Len(saved) + 1)
      /\ \A n \in 1..Len(saved) : saved'[n] = saved[n]
      /\ saved'[Len(saved) + 1] = [blocks |-> track, interrupted |-> i]
      /\ saved # <<>> => Len(saved) > 0 /\ Last(saved) = saved[Len(saved)]
  BY <1>1, SavedGrows
<1>3. ASSUME NEW n \in DOMAIN saved'
      PROVE  /\ Chain(saved'[n].blocks)
             /\ pc' # "done" => saved'[n].blocks # <<>>
  <2>1. CASE n \in 1..Len(saved)
    BY <1>2, <2>1 DEF Captures, WellMade
  <2>2. CASE n = Len(saved) + 1
    BY <1>1, <1>2, <2>2 DEF Captures, UnderWay
  <2> QED BY <1>2, <2>1, <2>2
<1>4. ASSUME NEW n \in 2..Len(saved'), ~saved'[n].interrupted
      PROVE  End(Last(saved'[n - 1].blocks)) <= saved'[n].blocks[1].start
  <2>1. CASE n \in 2..Len(saved)
    BY <1>2, <1>4, <2>1 DEF Captures, InOrder
  <2>2. CASE n = Len(saved) + 1
    <3>1. saved'[n].blocks = track /\ ~i
      BY <1>2, <1>4, <2>2
    <3>2. Len(saved) > 0 /\ n - 1 = Len(saved)
      BY <1>2, <2>2
    <3>3. saved # <<>> /\ saved'[n - 1] = Last(saved)
      BY <1>2, <3>2
    <3>4. SavedEnd <= track[1].start
      BY <3>1, <3>3 DEF Captures, AfterSaved
    <3> QED BY <3>1, <3>3, <3>4 DEF SavedEnd
  <2> QED BY <1>2, <2>1, <2>2
<1> QED BY <1>3, <1>4 DEF InOrder, WellMade

(* Every step keeps the captures well made and in order. *)
LEMMA CapturesStep ==
  ASSUME PreS # 0, StreamInv, Captures, mode = "gated", [Next]_vars
  PROVE  Captures'
<1> DEFINE Same == saved' = saved
<1>1. TypeOK /\ Tiling /\ PreS \in Nat \ {0}
  BY RecorderAssumption DEF StreamInv, Tiling
<1>2. saved # <<>> /\ pc # "done" => SavedEnd \in Nat
  <2> SUFFICES ASSUME saved # <<>>, pc # "done" PROVE SavedEnd \in Nat
    OBVIOUS
  <2>1. Last(saved) = saved[Len(saved)] /\ Len(saved) \in DOMAIN saved
    BY <1>1, SavedParts
  <2>2. Last(saved).blocks \in Seq(Block) /\ Last(saved).blocks # <<>>
    BY <1>1, <2>1, SavedParts DEF Captures, WellMade
  <2> QED BY <2>2, EmptyIffNone, BlockParts DEF SavedEnd
<1>3. /\ ring \in Seq(Block) /\ blk \in Block /\ position \in Nat
      /\ track # NoTrack => track \in Seq(Block)
      /\ Chain(ring) /\ (pc # "done" => ReachesHere(ring))
  BY <1>1 DEF Tiling, TypeOK, RingTiles
<1>4. Same /\ (pc = "done" => pc' = "done") =>
        WellMade' /\ InOrder' /\ SavedEnd' = SavedEnd
  BY DEF Captures, WellMade, InOrder, SavedEnd
<1> USE DEF Captures
<1>5. ASSUME NEW n \in BlockLens, NEW k \in 0..n, Poll(n, k)
      PROVE  Captures'
  <2>1. Here' = Here /\ Same /\ UNCHANGED <<track, ring>> /\ pc = "poll"
        /\ pc' = "gated"
    BY <1>5, PollStream DEF Poll
  <2> QED BY <1>4, <2>1 DEF UnderWay, AfterSaved
<1>6. ASSUME NEW active \in BOOLEAN, Watch(active)
      PROVE  Captures'
  <2> DEFINE b == Judged(active)
  <2>1. Here = blk.start /\ Here' = position /\ Same /\ pc' = "trim"
        /\ track = NoTrack /\ track' = NoTrack /\ pc = "gated"
        /\ ring' = Append(ring, b) /\ blk' = b
    BY <1>6, WatchStream DEF Watch
  <2>2. b \in Block /\ b.start = blk.start
    BY <1>1, BlockInHand
  <2> HIDE DEF b
  <2>3. /\ ring' # <<>> /\ Last(ring') = b
        /\ ring # <<>> => ring'[1] = ring[1]
        /\ ring = <<>> => ring'[1] = b
    BY <1>3, <2>1, <2>2, ChainGrows DEF ReachesHere
  <2>4. UnderWay'
    BY <2>1, <2>3 DEF UnderWay
  <2>5. AfterSaved'
    <3> SUFFICES ASSUME saved # <<>>
                 PROVE  SavedEnd <= position /\ SavedEnd <= ring'[1].start
      BY <1>4, <2>1 DEF AfterSaved
    <3>1. blk.start <= position
      <4>1. End(blk) = position
        BY <1>1, <2>1 DEF Tiling, InHand
      <4> QED BY <1>3, <4>1, BlockParts
    <3>2. SavedEnd <= blk.start /\ (ring # <<>> => SavedEnd <= ring[1].start)
      BY <2>1 DEF AfterSaved
    <3> QED BY <1>2, <1>3, <2>1, <2>2, <2>3, <3>1, <3>2, BlockParts
  <2> QED BY <1>4, <2>1, <2>4, <2>5
<1>7. CASE Trim
  <2>1. /\ pc = "trim" /\ ring # <<>> /\ ring' = Tail(ring)
        /\ ring_s - Dur(Head(ring)) >= PreS /\ track = NoTrack
        /\ Same /\ UNCHANGED <<pc, track, blk>>
    BY <1>7 DEF Trim, Excess, StreamInv, Phases
  <2>2. /\ Head(ring) = ring[1] /\ ring[1] \in Block
        /\ Len(ring) = 1 => Last(ring) = ring[1]
        /\ Len(ring) # 1 => /\ Tail(ring) # <<>>
                            /\ Last(Tail(ring)) = Last(ring)
                            /\ Tail(ring)[1].start = End(ring[1])
    BY <1>3, <2>1, ChainShrinks
  <2>3. ring[1].start \in Nat /\ Dur(ring[1]) \in Nat
        /\ End(ring[1]) = ring[1].start + Dur(ring[1])
    BY <2>2, BlockParts
  <2>4. Len(ring) # 1
    <3>1. ring_s = End(Last(ring)) - ring[1].start
      BY <1>1, <2>1 DEF TypeOK, Span
    <3> SUFFICES ASSUME Len(ring) = 1 PROVE FALSE
      OBVIOUS
    <3>2. ring_s - Dur(Head(ring)) = 0
      BY <2>2, <2>3, <3>1
    <3> QED BY <1>1, <2>1, <3>2
  <2>5. Here' = Here
    BY <1>7, TrimStream
  <2>6. UnderWay'
    BY <2>1, <2>2, <2>4 DEF UnderWay
  <2>7. AfterSaved'
    BY <1>2, <1>4, <2>1, <2>2, <2>3, <2>4, <2>5 DEF AfterSaved
  <2> QED BY <1>4, <2>1, <2>6, <2>7
<1>8. CASE Trigger
  <2>1. /\ Here' = position /\ Here = position /\ Same
        /\ UNCHANGED <<ring, blk>> /\ pc = "trim" /\ track = NoTrack
        /\ pc' = "join" \/ (pc' = "poll" /\ track' = NoTrack)
    BY <1>8, TriggerStream DEF Trigger, StreamInv, Phases
  <2>2. UnderWay'
    BY <2>1 DEF UnderWay
  <2>3. AfterSaved'
    BY <1>4, <2>1 DEF AfterSaved
  <2> QED BY <1>4, <2>1, <2>2, <2>3
<1>15. CASE AddHistory
  <2>1. /\ Here' = position /\ Here = position /\ Same
        /\ UNCHANGED <<ring, blk>> /\ pc = "join" /\ pc' = "join"
    BY <1>15, AddHistoryStream DEF AddHistory
  <2> QED BY <1>4, <2>1 DEF UnderWay, AfterSaved
<1>16. CASE Record
  <2>1. /\ Here' = position /\ Here = position /\ Same /\ pc = "join"
        /\ pc' = "poll" /\ track' = ring /\ ring' = <<>> /\ ring # <<>>
    BY <1>16, RecordStream, JoinedParts DEF Record, RingAfter, UnderWay
  <2> QED BY <1>3, <1>4, <2>1 DEF UnderWay, AfterSaved, ReachesHere
<1>9. ASSUME NEW active \in BOOLEAN, Extend(active)
      PROVE  Captures'
  <2> DEFINE b == Judged(active)
  <2>1. /\ Here = blk.start /\ Here' = position /\ Same /\ pc = "gated"
        /\ pc' \in {"poll", "save"} /\ track # NoTrack /\ ring' = <<>>
        /\ track' = Append(track, b)
    BY <1>9, ExtendStream DEF Extend, StreamInv, Phases
  <2>2. b \in Block /\ b.start = blk.start /\ End(b) = End(blk)
        /\ End(blk) = position
    BY <1>1, <2>1, BlockInHand DEF Tiling, InHand
  <2> HIDE DEF b
  <2>3. track \in Seq(Block) /\ track # <<>> /\ Chain(track)
        /\ End(Last(track)) = b.start
    BY <1>3, <2>1, <2>2 DEF UnderWay
  <2>4. /\ track' # <<>> /\ Chain(track') /\ Last(track') = b
        /\ track'[1] = track[1]
    BY <2>1, <2>2, <2>3, ChainGrows
  <2>5. UnderWay'
    BY <2>1, <2>2, <2>4 DEF UnderWay
  <2>6. AfterSaved'
    <3> SUFFICES ASSUME saved # <<>>
                 PROVE  SavedEnd <= position /\ SavedEnd <= track[1].start
      BY <1>4, <2>1, <2>4 DEF AfterSaved
    <3>1. SavedEnd <= blk.start /\ SavedEnd <= track[1].start
      BY <2>1 DEF AfterSaved
    <3> QED BY <1>2, <1>3, <2>1, <2>2, <3>1, BlockParts
  <2> QED BY <1>4, <2>1, <2>5, <2>6
<1>10. CASE Save
  <2>1. /\ saved' = Append(saved, [blocks |-> track, interrupted |-> FALSE])
        /\ pc = "save" /\ pc' = "close" /\ track # NoTrack /\ ring = <<>>
        /\ UNCHANGED <<track, ring, position>>
    BY <1>10 DEF Save, StreamInv, Phases
  <2>2. saved' # <<>> /\ Last(saved').blocks = track
    BY <1>1, <1>3, <2>1, SavedGrows
  <2>3. Here = position /\ Here' = position
    BY <2>1 DEF Here
  <2>4. UnderWay'
    BY <2>1, <2>2, <2>3 DEF UnderWay
  <2>5. AfterSaved'
    <3>1. SavedEnd' = position
      BY <2>1, <2>2, <2>3 DEF SavedEnd, UnderWay
    <3> QED BY <1>3, <2>1, <2>3, <3>1 DEF AfterSaved
  <2> QED BY <2>1, <2>4, <2>5, WriteCapture
<1>11. CASE Close
  <2>1. /\ pc = "close" /\ pc' \in {"poll", "done"} /\ track' = NoTrack
        /\ Same /\ ring = <<>> /\ UNCHANGED <<ring, position>>
    BY <1>11 DEF Close, StreamInv, Phases
  <2>2. Here = position /\ Here' = position
    BY <2>1 DEF Here
  <2> QED BY <1>4, <2>1, <2>2 DEF UnderWay, AfterSaved
<1>12. CASE Interrupt
  <2>1. pc # "done" /\ pc' = "done" /\ UNCHANGED <<track, ring>>
    BY <1>12 DEF Interrupt
  <2>2. UnderWay' /\ AfterSaved'
    BY <2>1, JoinedParts DEF UnderWay, AfterSaved
  <2>3. CASE track # NoTrack
    <3>1. saved' = Append(saved, [blocks |-> track, interrupted |-> TRUE])
      BY <1>12, <2>3 DEF Interrupt, KeptOnInterrupt
    <3> QED BY <2>1, <2>2, <2>3, <3>1, WriteCapture
  <2>4. CASE track = NoTrack
    BY <1>4, <1>12, <2>1, <2>2, <2>4 DEF Interrupt, KeptOnInterrupt
  <2> QED BY <2>3, <2>4
<1>13. CASE UNCHANGED vars
  BY <1>4, <1>13 DEF vars, UnderWay, AfterSaved, Here
<1>14. ~AddFixed /\ ~EndFixed
  BY DEF AddFixed, EndFixed
<1> QED
  BY <1>5, <1>6, <1>7, <1>8, <1>9, <1>10, <1>11, <1>12, <1>13, <1>14,
     <1>15, <1>16 DEF Next

(* The recordings are the captures written and the one under way. *)
LEMMA RecordingsParts ==
  ASSUME TypeOK
  PROVE  LET open == track # NoTrack /\ pc \notin {"join", "close", "done"}
         IN  /\ Len(saved) \in Nat /\ DOMAIN saved = 1..Len(saved)
             /\ Len(Recordings) = Len(saved) + (IF open THEN 1 ELSE 0)
             /\ DOMAIN Recordings = 1..Len(Recordings)
             /\ \A n \in 1..Len(saved) : Recordings[n] = saved[n].blocks
             /\ open => Recordings[Len(saved) + 1] = track
<1> DEFINE open == track # NoTrack /\ pc \notin {"join", "close", "done"}
           done == [i \in DOMAIN saved |-> saved[i].blocks]
           now  == IF open THEN <<track>> ELSE <<>>
<1>1. /\ Len(saved) \in Nat /\ DOMAIN saved = 1..Len(saved)
      /\ \A i \in DOMAIN saved : saved[i].blocks \in Seq(Block)
  BY SavedParts
<1>3. done \in Seq(Seq(Block)) /\ Len(done) = Len(saved)
      /\ \A i \in 1..Len(saved) : done[i] = saved[i].blocks
  BY <1>1
<1>4. /\ now \in Seq(Seq(Block)) /\ Len(now) = (IF open THEN 1 ELSE 0)
      /\ open => now[1] = track
  BY DEF TypeOK
<1>5. Recordings = done \o now
  BY DEF Recordings
<1> HIDE DEF done, now, open
<1>6. /\ Len(Recordings) = Len(done) + Len(now)
      /\ DOMAIN Recordings = 1..Len(Recordings)
      /\ \A n \in 1..Len(done) : Recordings[n] = done[n]
      /\ Len(now) = 1 => Recordings[Len(done) + 1] = now[1]
  BY <1>3, <1>4, <1>5
<1> QED BY <1>1, <1>3, <1>4, <1>6 DEF open

(* Captures that are so hold together. *)
LEMMA CapturesTile ==
  ASSUME TypeOK, Captures
  PROVE  RecordingsTile
<1> DEFINE open == track # NoTrack /\ pc \notin {"join", "close", "done"}
<1>1. /\ Len(saved) \in Nat /\ DOMAIN saved = 1..Len(saved)
      /\ Len(Recordings) = Len(saved) + (IF open THEN 1 ELSE 0)
      /\ DOMAIN Recordings = 1..Len(Recordings)
      /\ \A n \in 1..Len(saved) : Recordings[n] = saved[n].blocks
      /\ open => Recordings[Len(saved) + 1] = track
  BY RecordingsParts, Zenon
<1>5. open => track # NoTrack /\ pc \notin {"join", "close", "done"}
  OBVIOUS
<1> HIDE DEF open
<1>6. \A n \in DOMAIN Recordings :
        n \in 1..Len(saved) \/ (n = Len(saved) + 1 /\ open)
  BY <1>1
<1>2. ASSUME NEW n \in DOMAIN Recordings
      PROVE  Chain(Recordings[n])
  <2>1. CASE n \in 1..Len(saved)
    BY <1>1, <2>1 DEF Captures, WellMade
  <2>2. CASE n = Len(saved) + 1 /\ open
    BY <1>1, <1>5, <2>2 DEF Captures, UnderWay
  <2> QED BY <1>6, <2>1, <2>2
<1>3. ASSUME NEW n \in 2..Len(Recordings), ~Interrupted(n)
      PROVE  End(Last(Recordings[n - 1])) <= Recordings[n][1].start
  <2>1. CASE n \in 1..Len(saved)
    <3>1. n \in 2..Len(saved) /\ n - 1 \in 1..Len(saved)
      BY <1>1, <2>1
    <3>2. ~saved[n].interrupted
      BY <1>1, <1>3, <2>1 DEF Interrupted
    <3>3. Recordings[n] = saved[n].blocks
          /\ Recordings[n - 1] = saved[n - 1].blocks
      BY <1>1, <3>1
    <3> QED BY <3>1, <3>2, <3>3 DEF Captures, InOrder
  <2>2. CASE n = Len(saved) + 1 /\ open
    <3>1. n - 1 = Len(saved) /\ n - 1 \in 1..Len(saved) /\ saved # <<>>
      BY <1>1, <2>2
    <3>2. Recordings[n - 1] = Last(saved).blocks
      BY <1>1, <3>1 DEF Last
    <3>3. SavedEnd <= track[1].start
      BY <1>5, <2>2, <3>1 DEF Captures, AfterSaved
    <3> QED BY <1>1, <2>2, <3>2, <3>3 DEF SavedEnd
  <2>3. n \in DOMAIN Recordings
    BY <1>1
  <2> QED BY <1>6, <2>1, <2>2, <2>3
<1>4. \A r \in ToSet(Recordings) : Chain(r)
  BY <1>2 DEF ToSet
<1> QED BY <1>3, <1>4 DEF RecordingsTile, Chain

(* Gated mode: no activity is lost.  A block the detector found active is  *)
(* in a capture, or in the recording under way until that is written.      *)

Written == UNION {ToSet(saved[n].blocks) : n \in DOMAIN saved}
Open == track # NoTrack /\ pc \notin {"join", "close", "done"}
Captured == Written \cup (IF Open THEN ToSet(track) ELSE {})

ActiveKept == \A i \in DOMAIN fed : fed[i].active => fed[i] \in Captured

(* The blocks of a list that grew by one. *)
LEMMA ToSetOfAppend ==
  ASSUME NEW S, NEW bs \in Seq(S), NEW b \in S
  PROVE  ToSet(Append(bs, b)) = ToSet(bs) \cup {b}
<1> DEFINE more == Append(bs, b)
<1>1. /\ Len(bs) \in Nat /\ DOMAIN bs = 1..Len(bs)
      /\ DOMAIN more = 1..(Len(bs) + 1) /\ more[Len(bs) + 1] = b
      /\ \A i \in 1..Len(bs) : more[i] = bs[i]
  OBVIOUS
<1> HIDE DEF more
<1>2. 1..(Len(bs) + 1) = (1..Len(bs)) \cup {Len(bs) + 1}
  BY <1>1
<1> QED BY <1>1, <1>2 DEF ToSet, more

(* The blocks written once one more capture is. *)
LEMMA WrittenGrows ==
  ASSUME TypeOK, NEW r \in Seq(Block), NEW i \in BOOLEAN,
         saved' = Append(saved, [blocks |-> r, interrupted |-> i])
  PROVE  Written' = Written \cup ToSet(r)
<1>1. /\ Len(saved) \in Nat /\ DOMAIN saved = 1..Len(saved)
      /\ DOMAIN saved' = 1..(Len(saved) + 1)
      /\ \A n \in 1..Len(saved) : saved'[n] = saved[n]
      /\ saved'[Len(saved) + 1] = [blocks |-> r, interrupted |-> i]
  BY SavedGrows
<1>2. DOMAIN saved' = DOMAIN saved \cup {Len(saved) + 1}
      /\ saved'[Len(saved) + 1].blocks = r
      /\ \A n \in DOMAIN saved : saved'[n].blocks = saved[n].blocks
  BY <1>1
<1> QED BY <1>2 DEF Written

(* Every step keeps the active blocks. *)
LEMMA ActiveStep ==
  ASSUME StreamInv, Captures, ActiveKept, mode = "gated", [Next]_vars
  PROVE  ActiveKept'
<1>1. TypeOK /\ Tiling /\ Phases
  BY DEF StreamInv, Tiling
<1>2. /\ fed \in Seq(Block) /\ blk \in Block /\ ring \in Seq(Block)
      /\ track # NoTrack => track \in Seq(Block)
  BY <1>1 DEF TypeOK
<1>3. ASSUME fed' = fed, Captured \subseteq Captured'
      PROVE  ActiveKept'
  BY <1>3 DEF ActiveKept
<1>4. ASSUME NEW b \in Block, fed' = Append(fed, b),
             Captured \subseteq Captured', b.active => b \in Captured'
      PROVE  ActiveKept'
  <2>1. /\ DOMAIN fed' = 1..(Len(fed) + 1) /\ DOMAIN fed = 1..Len(fed)
        /\ \A i \in 1..Len(fed) : fed'[i] = fed[i]
        /\ fed'[Len(fed) + 1] = b /\ Len(fed) \in Nat
    BY <1>2, <1>4
  <2>2. \A i \in DOMAIN fed' : i \in 1..Len(fed) \/ i = Len(fed) + 1
    BY <2>1
  <2> QED BY <1>4, <2>1, <2>2 DEF ActiveKept
<1>5. ASSUME UNCHANGED <<saved, track>>,
             pc \in {"join", "close", "done"}
               <=> pc' \in {"join", "close", "done"}
      PROVE  Captured' = Captured
  BY <1>5 DEF Captured, Written, Open
<1>6. ASSUME NEW n \in BlockLens, NEW k \in 0..n, Poll(n, k)
      PROVE  ActiveKept'
  BY <1>3, <1>5, <1>6 DEF Poll
<1>7. ASSUME NEW active \in BOOLEAN, Watch(active)
      PROVE  ActiveKept'
  BY <1>3, <1>5, <1>7 DEF Watch
<1>8. CASE Trim
  BY <1>3, <1>5, <1>8 DEF Trim
<1>9. CASE Trigger
  <2>1. CASE blk.active
    <3>1. /\ saved' = saved /\ fed' = fed /\ pc' = "join" /\ track = NoTrack
      BY <1>1, <1>9, <2>1 DEF Trigger, Phases
    <3>2. Captured' = Captured
      BY <3>1 DEF Captured, Written, Open
    <3> QED BY <1>3, <3>1, <3>2
  <2>2. CASE ~blk.active
    <3>1. /\ UNCHANGED <<saved, track>> /\ pc = "trim" /\ pc' = "poll"
          /\ fed' = Append(fed, blk)
      BY <1>9, <2>2 DEF Trigger
    <3> QED BY <1>2, <1>4, <1>5, <2>2, <3>1
  <2> QED BY <2>1, <2>2
<1>17. CASE AddHistory
  <2>1. saved' = saved /\ fed' = fed /\ pc = "join" /\ pc' = "join"
    BY <1>17 DEF AddHistory
  <2>2. Captured' = Captured
    BY <2>1 DEF Captured, Written, Open
  <2> QED BY <1>3, <2>1, <2>2
<1>18. CASE Record
  <2>1. /\ track' = ring /\ saved' = saved /\ pc = "join" /\ pc' = "poll"
        /\ fed' = Append(fed, blk)
    BY <1>18, JoinedParts DEF Record
  <2>2. ring # <<>> /\ Last(ring) = blk
    BY <2>1 DEF Captures, UnderWay
  <2>3. Len(ring) \in DOMAIN ring /\ blk = ring[Len(ring)]
    BY <1>2, <2>2, EmptyIffNone
  <2>4. blk \in ToSet(ring)
    BY <2>3 DEF ToSet
  <2>5. Open' /\ Written' = Written /\ ~Open
    BY <1>2, <2>1, RecorderAssumption DEF Open, Written
  <2>6. Captured' = Captured \cup ToSet(ring)
    BY <2>1, <2>5 DEF Captured
  <2> QED BY <1>2, <1>4, <2>1, <2>4, <2>6
<1>10. ASSUME NEW active \in BOOLEAN, Extend(active)
       PROVE  ActiveKept'
  <2> DEFINE b == Judged(active)
  <2>1. /\ track' = Append(track, b) /\ saved' = saved
        /\ pc = "gated" /\ pc' \in {"poll", "save"}
        /\ fed' = Append(fed, b) /\ track # NoTrack
    BY <1>10 DEF Extend
  <2>2. b \in Block
    BY <1>1, BlockInHand
  <2> HIDE DEF b
  <2>3. ToSet(track') = ToSet(track) \cup {b}
    BY <1>2, <2>1, <2>2, ToSetOfAppend
  <2>4. track' # NoTrack
    <3>1. track' \in Seq(Block)
      BY <1>2, <2>1, <2>2
    <3> QED BY <3>1, RecorderAssumption
  <2>5. Open /\ Open' /\ Written' = Written
    BY <2>1, <2>4 DEF Open, Written
  <2>6. Captured' = Captured \cup {b}
    BY <2>3, <2>5 DEF Captured
  <2> QED BY <1>4, <2>1, <2>2, <2>6
<1>11. ASSUME NEW i \in BOOLEAN, track # NoTrack,
              saved' = Append(saved, [blocks |-> track, interrupted |-> i])
       PROVE  Captured \subseteq Captured'
  <2>1. Written' = Written \cup ToSet(track)
    BY <1>1, <1>2, <1>11, WrittenGrows
  <2> QED BY <2>1 DEF Captured
<1>12. CASE Save
  <2>1. fed' = fed /\ track # NoTrack
        /\ saved' = Append(saved, [blocks |-> track, interrupted |-> FALSE])
    BY <1>1, <1>12 DEF Save, Phases
  <2> QED BY <1>3, <1>11, <2>1
<1>13. CASE Close
  <2>1. fed' = fed /\ saved' = saved /\ pc = "close"
    BY <1>13 DEF Close
  <2>2. Captured \subseteq Captured'
    BY <2>1 DEF Captured, Written, Open
  <2> QED BY <1>3, <2>1, <2>2
<1>14. CASE Interrupt
  <2>1. CASE track # NoTrack
    <3>1. saved' = Append(saved, [blocks |-> track, interrupted |-> TRUE])
          /\ fed' = fed
      BY <1>14, <2>1 DEF Interrupt, KeptOnInterrupt
    <3> QED BY <1>3, <1>11, <2>1, <3>1
  <2>2. CASE track = NoTrack
    <3>1. fed' = fed /\ saved' = saved
      BY <1>14, <2>2 DEF Interrupt, KeptOnInterrupt
    <3>2. Captured \subseteq Captured'
      BY <2>2, <3>1 DEF Captured, Written, Open
    <3> QED BY <1>3, <3>1, <3>2
  <2> QED BY <2>1, <2>2
<1>15. CASE UNCHANGED vars
  BY <1>3, <1>5, <1>15 DEF vars
<1>16. ~AddFixed /\ ~EndFixed
  BY DEF AddFixed, EndFixed
<1> QED
  BY <1>6, <1>7, <1>8, <1>9, <1>10, <1>12, <1>13, <1>14, <1>15, <1>16,
     <1>17, <1>18 DEF Next

(* Where they are kept no activity is lost. *)
LEMMA CapturesKeep ==
  ASSUME TypeOK, ActiveKept
  PROVE  ActivityIsKept
<1>1. /\ Len(saved) \in Nat /\ DOMAIN saved = 1..Len(saved)
      /\ Len(Recordings) = Len(saved) + (IF Open THEN 1 ELSE 0)
      /\ DOMAIN Recordings = 1..Len(Recordings)
      /\ \A n \in 1..Len(saved) : Recordings[n] = saved[n].blocks
      /\ Open => Recordings[Len(saved) + 1] = track
  BY RecordingsParts, Zenon DEF Open
<1>2. ASSUME NEW b \in Captured
      PROVE  \E r \in ToSet(Recordings) : b \in ToSet(r)
  <2>1. ASSUME NEW n \in DOMAIN Recordings, b \in ToSet(Recordings[n])
        PROVE  \E r \in ToSet(Recordings) : b \in ToSet(r)
    <3>1. Recordings[n] \in ToSet(Recordings)
      BY <2>1 DEF ToSet
    <3> QED BY <2>1, <3>1
  <2>2. CASE b \in Written
    <3>1. PICK n \in DOMAIN saved : b \in ToSet(saved[n].blocks)
      BY <2>2 DEF Written
    <3>2. n \in DOMAIN Recordings /\ Recordings[n] = saved[n].blocks
      <4>1. n \in 1..Len(saved) /\ n \in 1..Len(Recordings)
        BY <1>1, <3>1
      <4> QED BY <1>1, <4>1
    <3> QED BY <2>1, <3>1, <3>2
  <2>3. CASE Open /\ b \in ToSet(track)
    <3>1. Len(saved) + 1 \in DOMAIN Recordings
          /\ Recordings[Len(saved) + 1] = track
      BY <1>1, <2>3
    <3> QED BY <2>1, <2>3, <3>1
  <2> QED BY <1>2, <2>2, <2>3 DEF Captured
<1>3. \A b \in ToSet(fed) : b.active => b \in Captured
  BY DEF ActiveKept, ToSet
<1> QED BY <1>2, <1>3 DEF ActivityIsKept

-----------------------------------------------------------------------------
GatedInv ==
  /\ StreamInv
  /\ mode = "gated" => Captures /\ ActiveKept

(* Both together are inductive. *)
LEMMA GatedInductive ==
  ASSUME PreS # 0
  PROVE  /\ Init => GatedInv
         /\ GatedInv /\ [Next]_vars => GatedInv'
<1>1. ASSUME Init PROVE GatedInv
  BY <1>1, InitStream
  DEF GatedInv, Init, Captures, WellMade, InOrder, UnderWay, AfterSaved,
      ActiveKept
<1>2. ASSUME GatedInv, [Next]_vars PROVE GatedInv'
  <2>1. mode' = mode
    BY <1>2 DEF Next, vars, Poll, Watch, Trim, Trigger, AddHistory, Record,
                Extend, Save, Close, AddFixed, EndFixed, Interrupt
  <2> QED BY <1>2, <2>1, StreamStep, CapturesStep, ActiveStep DEF GatedInv
<1> QED BY <1>1, <1>2

(* Captures hold together: no block is missing inside one, and a capture   *)
(* begins no earlier than where the one before it ended.                   *)
THEOREM CapturesHoldTogether ==
  ASSUME PreS # 0
  PROVE  Spec => []RecordingsTile
<1>1. GatedInv => RecordingsTile
  <2>1. CASE mode = "gated"
    BY <2>1, CapturesTile DEF GatedInv, StreamInv, Tiling
  <2> QED BY <2>1 DEF RecordingsTile
<1> QED BY <1>1, GatedInductive, PTL DEF Spec

(* Nothing the detector found active is lost, whatever the sizes of the    *)
(* blocks, the settings and the moment Ctrl-C comes.                       *)
THEOREM NoActivityIsLost ==
  ASSUME PreS # 0
  PROVE  Spec => []ActivityIsKept
<1>1. GatedInv => ActivityIsKept
  <2>1. CASE mode = "gated"
    BY <2>1, CapturesKeep DEF GatedInv, StreamInv, Tiling
  <2> QED BY <2>1 DEF ActivityIsKept
<1> QED BY <1>1, GatedInductive, PTL DEF Spec

-----------------------------------------------------------------------------
(* How long a chain of blocks lasts.                                        *)

(* A set of numbers that is not empty has a smallest one. *)
LEMMA SmallestOf ==
  ASSUME NEW S, S \subseteq Nat, S # {}
  PROVE  \E n \in S : \A m \in S : n <= m
<1> DEFINE Less == {p \in Nat \X Nat : p[1] < p[2]}
<1>1. IsWellFoundedOn(Less, Nat)
  BY NatLessThanWellFounded DEF OpToRel
<1> HIDE DEF Less
<1>2. \E n \in S : \A m \in S : <<m, n>> \notin Less
  BY <1>1, WFMin
<1>3. \A m, n \in S : <<m, n>> \notin Less => n <= m
  BY DEF Less
<1> QED BY <1>2, <1>3

(* A sum over the blocks of a chain is what lies between its ends: the      *)
(* smallest prefix for which it were not would follow one for which it is.  *)
LEMMA ChainSum ==
  ASSUME NEW bs \in Seq(Block), bs # <<>>, Chain(bs), NEW sum,
         sum = [k \in 0..Len(bs) |-> IF k = 0 THEN 0
                                     ELSE sum[k - 1] + Dur(bs[k])]
  PROVE  sum[Len(bs)] = End(Last(bs)) - bs[1].start
<1> DEFINE Bad == {k \in 1..Len(bs) : sum[k] # End(bs[k]) - bs[1].start}
<1>1. /\ Len(bs) \in Nat /\ Len(bs) > 0 /\ bs[Len(bs)] = Last(bs)
      /\ \A k \in 1..Len(bs) : /\ bs[k] \in Block /\ bs[k].start \in Nat
                               /\ Dur(bs[k]) \in Nat
                               /\ End(bs[k]) = bs[k].start + Dur(bs[k])
  BY EmptyIffNone, BlockParts
<1>2. sum[0] = 0 /\ \A k \in 1..Len(bs) : sum[k] = sum[k - 1] + Dur(bs[k])
  BY <1>1
<1>3. ASSUME Bad # {} PROVE FALSE
  <2>1. PICK m \in Bad : \A k \in Bad : m <= k
    <3>1. Bad \subseteq Nat
      BY <1>1
    <3> HIDE DEF Bad
    <3> QED BY <1>3, <3>1, SmallestOf
  <2>2. m \in 1..Len(bs) /\ sum[m] # End(bs[m]) - bs[1].start
    OBVIOUS
  <2>3. CASE m = 1
    <3>1. sum[1] = Dur(bs[1])
      BY <1>1, <1>2
    <3> QED BY <1>1, <2>2, <2>3, <3>1
  <2>4. CASE m # 1
    <3>1. m - 1 \in 1..(Len(bs) - 1) /\ m - 1 \in 1..Len(bs) /\ m - 1 < m
          /\ m \in Nat /\ m - 1 \in Nat
      BY <1>1, <2>2, <2>4
    <3>2. sum[m - 1] = End(bs[m - 1]) - bs[1].start
      <4>1. m - 1 \notin Bad
        BY <2>1, <3>1
      <4> QED BY <3>1, <4>1
    <3>3. End(bs[m - 1]) = bs[m].start
      <4>1. m - 1 + 1 = m
        BY <3>1
      <4> QED BY <3>1, <4>1 DEF Chain
    <3>4. sum[m] = (bs[m].start - bs[1].start) + Dur(bs[m])
      BY <1>2, <2>2, <3>2, <3>3
    <3>5. 1 \in 1..Len(bs)
      BY <1>1
    <3> QED BY <1>1, <2>2, <3>4, <3>5
  <2> QED BY <2>3, <2>4
<1>4. sum[Len(bs)] # End(bs[Len(bs)]) - bs[1].start => Len(bs) \in Bad
  BY <1>1
<1> HIDE DEF Bad
<1> QED BY <1>1, <1>3, <1>4

(* So the time of a chain is its span. *)
LEMMA TotalIsSpan ==
  ASSUME NEW bs \in Seq(Block), Chain(bs)
  PROVE  Total(bs) = Span(bs)
<1> DEFINE Sums(f) == f = [k \in 0..Len(bs) |-> IF k = 0 THEN 0
                                     ELSE f[k - 1] + Dur(bs[k])]
           at == [k \in 0..Len(bs) |-> IF k = 0 THEN 0
                                       ELSE End(bs[k]) - bs[1].start]
           sum == CHOOSE f : Sums(f)
<1>1. /\ Len(bs) \in Nat
      /\ \A k \in 1..Len(bs) : /\ bs[k].start \in Nat /\ Dur(bs[k]) \in Nat
                               /\ End(bs[k]) = bs[k].start + Dur(bs[k])
  BY EmptyIffNone, BlockParts
<1>2. \A k \in 0..Len(bs) :
        at[k] = IF k = 0 THEN 0 ELSE at[k - 1] + Dur(bs[k])
  <2> SUFFICES ASSUME NEW k \in 0..Len(bs), k # 0
               PROVE  at[k] = at[k - 1] + Dur(bs[k])
    OBVIOUS
  <2>1. k \in 1..Len(bs) /\ k - 1 \in 0..Len(bs) /\ 1 \in 1..Len(bs)
    BY <1>1
  <2>2. CASE k = 1
    BY <1>1, <2>1, <2>2
  <2>3. CASE k # 1
    <3>1. k - 1 \in 1..(Len(bs) - 1) /\ k - 1 \in 1..Len(bs) /\ k - 1 # 0
          /\ k - 1 + 1 = k
      BY <1>1, <2>1, <2>3
    <3>2. End(bs[k - 1]) = bs[k].start
      BY <3>1 DEF Chain
    <3>3. at[k] = End(bs[k]) - bs[1].start
          /\ at[k - 1] = bs[k].start - bs[1].start
      BY <2>1, <3>1, <3>2
    <3> QED BY <1>1, <2>1, <3>3
  <2> QED BY <2>2, <2>3
<1>3. Sums(at)
  BY <1>2
<1>4. Sums(sum)
  <2> HIDE DEF Sums, at
  <2> QED BY <1>3
<1>5. Total(bs) = sum[Len(bs)]
  BY DEF Total
<1>6. CASE bs = <<>>
  <2>1. Len(bs) = 0 /\ sum[0] = 0
    <3>1. Len(bs) = 0
      BY <1>6
    <3>2. 0 \in 0..Len(bs)
      BY <3>1
    <3> HIDE DEF sum
    <3> QED BY <1>4, <3>1, <3>2
  <2> QED BY <1>5, <1>6, <2>1 DEF Span
<1>7. CASE bs # <<>>
  <2> HIDE DEF sum
  <2>1. sum[Len(bs)] = End(Last(bs)) - bs[1].start
    BY <1>4, <1>7, ChainSum
  <2> QED BY <1>5, <1>7, <2>1 DEF Span
<1> QED BY <1>6, <1>7

-----------------------------------------------------------------------------
(* Where the activity of a recording begins, and where it was last seen.    *)

First(bs) == SelectInSeq(bs, IsActive)
Latest(bs) == SelectLastInSeq(bs, IsActive)

(* Before the first active block none is active, and behind the last.       *)
LEMMA FirstIs ==
  ASSUME NEW bs \in Seq(Block), NEW k \in 1..Len(bs), bs[k].active,
         \A i \in 1..(k - 1) : ~bs[i].active
  PROVE  First(bs) = k
<1> DEFINE I == {i \in 1..Len(bs) : IsActive(bs[i])}
<1>1. Len(bs) \in Nat
  OBVIOUS
<1>2. k \in I /\ \A i \in I : k <= i
  BY <1>1 DEF IsActive
<1>3. I \subseteq Nat
  BY <1>1
<1>4. First(bs) = Min(I)
  <2>1. First(bs) = IF I # {} THEN Min(I) ELSE 0
    BY DEF First, SelectInSeq
  <2> QED BY <1>2, <2>1
<1> HIDE DEF I
<1>5. Min(I) \in I /\ \A i \in I : Min(I) <= i
  BY <1>2 DEF Min
<1>6. Min(I) <= k /\ k <= Min(I)
  BY <1>2, <1>5
<1>7. Min(I) \in Nat /\ k \in Nat
  BY <1>2, <1>3, <1>5
<1> QED BY <1>4, <1>6, <1>7

(* There is a first one, or none is active. *)
LEMMA FirstExists ==
  ASSUME NEW bs \in Seq(Block)
  PROVE  /\ First(bs) # 0 => /\ First(bs) \in 1..Len(bs) /\ bs[First(bs)].active
                             /\ \A i \in 1..(First(bs) - 1) : ~bs[i].active
         /\ First(bs) = 0 => \A i \in 1..Len(bs) : ~bs[i].active
<1> DEFINE I == {i \in 1..Len(bs) : IsActive(bs[i])}
<1>1. Len(bs) \in Nat /\ I \subseteq Nat /\ 0 \notin I
  OBVIOUS
<1>2. First(bs) = IF I # {} THEN Min(I) ELSE 0
  BY DEF First, SelectInSeq
<1>3. \A i \in 1..Len(bs) : i \in I <=> bs[i].active
  BY DEF IsActive
<1>4. I \subseteq 1..Len(bs)
  OBVIOUS
<1> HIDE DEF I
<1>5. ASSUME I # {} PROVE Min(I) \in I /\ \A i \in I : Min(I) <= i
  <2>1. \E i \in I : \A j \in I : i <= j
    BY <1>1, <1>5, SmallestOf
  <2> QED BY <2>1 DEF Min
<1>6. CASE I = {}
  BY <1>2, <1>3, <1>6
<1>7. CASE I # {}
  <2>1. First(bs) \in I /\ \A i \in I : First(bs) <= i
    BY <1>2, <1>5, <1>7
  <2>2. First(bs) \in 1..Len(bs) /\ First(bs) # 0
    BY <1>1, <1>4, <2>1
  <2>3. \A i \in 1..(First(bs) - 1) : i \in 1..Len(bs) /\ ~(First(bs) <= i)
    BY <1>1, <2>2
  <2> QED BY <1>3, <2>1, <2>2, <2>3
<1> QED BY <1>6, <1>7

(* The latest active block, where none is active behind it.                 *)
LEMMA LatestIs ==
  ASSUME NEW bs \in Seq(Block), NEW k \in 1..Len(bs), bs[k].active,
         \A i \in (k + 1)..Len(bs) : ~bs[i].active
  PROVE  Latest(bs) = k
<1> DEFINE I == {i \in 1..Len(bs) : IsActive(bs[i])}
<1>1. Len(bs) \in Nat
  OBVIOUS
<1>2. k \in I /\ \A i \in I : i <= k
  BY <1>1 DEF IsActive
<1>3. I \subseteq Nat
  BY <1>1
<1>4. Latest(bs) = Max(I)
  <2>1. Latest(bs) = IF I # {} THEN Max(I) ELSE 0
    BY DEF Latest, SelectLastInSeq
  <2> QED BY <1>2, <2>1
<1> HIDE DEF I
<1>5. Max(I) \in I /\ \A i \in I : Max(I) >= i
  <2>1. \A i \in I : k >= i
    BY <1>2, <1>3
  <2> QED BY <1>2, <2>1 DEF Max
<1>6. Max(I) <= k /\ k <= Max(I)
  BY <1>2, <1>3, <1>5
<1>7. Max(I) \in Nat /\ k \in Nat
  BY <1>2, <1>3, <1>5
<1> QED BY <1>4, <1>6, <1>7

(* A block more behind a list: where its first active block is, the latest, *)
(* and its prefixes.                                                        *)
LEMMA BlockMore ==
  ASSUME NEW bs \in Seq(Block), NEW b \in Block, First(bs) # 0
  PROVE  LET more == Append(bs, b) IN
         /\ more \in Seq(Block) /\ Len(more) = Len(bs) + 1 /\ Len(bs) \in Nat
         /\ more[Len(bs) + 1] = b /\ \A i \in 1..Len(bs) : more[i] = bs[i]
         /\ First(more) = First(bs) /\ First(bs) \in 1..Len(bs)
         /\ b.active => Latest(more) = Len(bs) + 1
         /\ \A k \in 0..Len(bs) : SubSeq(more, 1, k) = SubSeq(bs, 1, k)
<1> DEFINE more == Append(bs, b)
           f == First(bs)
<1>1. /\ more \in Seq(Block) /\ Len(more) = Len(bs) + 1 /\ Len(bs) \in Nat
      /\ more[Len(bs) + 1] = b /\ \A i \in 1..Len(bs) : more[i] = bs[i]
  OBVIOUS
<1>2. /\ f \in 1..Len(bs) /\ bs[f].active
      /\ \A i \in 1..(f - 1) : ~bs[i].active
  BY FirstExists
<1>3. \A k \in 0..Len(bs) : SubSeq(more, 1, k) = SubSeq(bs, 1, k)
  <2> SUFFICES ASSUME NEW k \in 0..Len(bs)
               PROVE  SubSeq(more, 1, k) = SubSeq(bs, 1, k)
    OBVIOUS
  <2> QED BY <1>1
<1> HIDE DEF more, f
<1>4. First(more) = f
  <2>1. f \in 1..Len(more) /\ more[f].active
    BY <1>1, <1>2
  <2>2. \A i \in 1..(f - 1) : i \in 1..Len(bs)
    BY <1>1, <1>2
  <2>3. \A i \in 1..(f - 1) : ~more[i].active
    BY <1>1, <1>2, <2>2
  <2> QED BY <1>1, <2>1, <2>3, FirstIs
<1>5. b.active => Latest(more) = Len(bs) + 1
  <2>1. Len(bs) + 1 \in 1..Len(more)
    BY <1>1
  <2>2. (Len(bs) + 1 + 1)..Len(more) = {}
    BY <1>1
  <2> QED BY <1>1, <2>1, <2>2, LatestIs
<1> QED BY <1>1, <1>2, <1>3, <1>4, <1>5 DEF more, f

(* Where some block is active there is a latest one. *)
LEMMA LatestExists ==
  ASSUME NEW bs \in Seq(Block), First(bs) # 0
  PROVE  /\ Latest(bs) \in 1..Len(bs) /\ bs[Latest(bs)].active
         /\ \A i \in (Latest(bs) + 1)..Len(bs) : ~bs[i].active
<1> DEFINE Behind == {n \in 0..Len(bs) : Len(bs) - n \in 1..Len(bs)
                                          /\ bs[Len(bs) - n].active}
<1>1. Len(bs) \in Nat /\ First(bs) \in 1..Len(bs) /\ bs[First(bs)].active
  BY FirstExists
<1>2. Behind \subseteq Nat
  BY <1>1
<1>3. Len(bs) - First(bs) \in Behind
  <2>1. /\ Len(bs) - First(bs) \in 0..Len(bs)
        /\ Len(bs) - (Len(bs) - First(bs)) = First(bs)
    BY <1>1
  <2> QED BY <1>1, <2>1
<1>4. \A k \in 1..Len(bs) : bs[k].active => Len(bs) - k \in Behind
  <2> SUFFICES ASSUME NEW k \in 1..Len(bs), bs[k].active
               PROVE  Len(bs) - k \in Behind
    OBVIOUS
  <2>1. Len(bs) - k \in 0..Len(bs) /\ Len(bs) - (Len(bs) - k) = k
    BY <1>1
  <2> QED BY <2>1
<1>5. PICK n \in Behind : \A m \in Behind : n <= m
  <2>1. Behind # {}
    BY <1>3
  <2> HIDE DEF Behind
  <2> QED BY <1>2, <2>1, SmallestOf
<1> DEFINE k == Len(bs) - n
<1>6. n \in Nat /\ k \in 1..Len(bs) /\ bs[k].active
  BY <1>2
<1>7. \A i \in (k + 1)..Len(bs) : ~bs[i].active
  <2> SUFFICES ASSUME NEW i \in (k + 1)..Len(bs), bs[i].active PROVE FALSE
    OBVIOUS
  <2>1. i \in 1..Len(bs) /\ ~(n <= Len(bs) - i)
    BY <1>1, <1>6
  <2>2. Len(bs) - i \in Behind
    BY <1>4, <2>1
  <2> QED BY <1>5, <2>1, <2>2
<1> HIDE DEF k
<1>8. Latest(bs) = k
  BY <1>6, <1>7, LatestIs
<1> QED BY <1>6, <1>7, <1>8

(* A quiet block more does not move the latest active one. *)
LEMMA QuietMore ==
  ASSUME NEW bs \in Seq(Block), NEW b \in Block, First(bs) # 0, ~b.active
  PROVE  /\ Latest(Append(bs, b)) = Latest(bs)
         /\ Latest(bs) \in 1..Len(bs)
<1> DEFINE more == Append(bs, b)
           k == Latest(bs)
<1>1. /\ more \in Seq(Block) /\ Len(more) = Len(bs) + 1 /\ Len(bs) \in Nat
      /\ more[Len(bs) + 1] = b /\ \A i \in 1..Len(bs) : more[i] = bs[i]
  BY BlockMore
<1>2. /\ k \in 1..Len(bs) /\ bs[k].active
      /\ \A i \in (k + 1)..Len(bs) : ~bs[i].active
  BY LatestExists
<1> HIDE DEF more, k
<1>3. k \in 1..Len(more) /\ more[k].active
  BY <1>1, <1>2
<1>4. \A i \in (k + 1)..Len(more) : ~more[i].active
  <2> SUFFICES ASSUME NEW i \in (k + 1)..Len(more) PROVE ~more[i].active
    OBVIOUS
  <2>1. CASE i = Len(bs) + 1
    BY <1>1, <2>1
  <2>2. CASE i # Len(bs) + 1
    <3>1. i \in (k + 1)..Len(bs) /\ i \in 1..Len(bs)
      BY <1>1, <1>2, <2>2
    <3> QED BY <1>1, <1>2, <3>1
  <2> QED BY <2>1, <2>2
<1>5. Latest(more) = k
  BY <1>1, <1>3, <1>4, LatestIs
<1> QED BY <1>2, <1>5 DEF more, k

(* What a piece of a chain lasts. *)
LEMMA PieceLasts ==
  ASSUME NEW bs \in Seq(Block), Chain(bs), NEW i \in 1..Len(bs),
         NEW j \in i..Len(bs)
  PROVE  Total(SubSeq(bs, i, j)) = End(bs[j]) - bs[i].start
<1> DEFINE p == SubSeq(bs, i, j)
<1>1. Len(bs) \in Nat /\ i \in Nat /\ j \in Nat /\ i >= 1 /\ i <= j
      /\ j <= Len(bs)
  OBVIOUS
<1>2. /\ p \in Seq(Block) /\ Len(p) = j - i + 1
      /\ \A k \in 1..(j - i + 1) : p[k] = bs[i + k - 1]
  <2>1. \A k \in i..j : bs[k] \in Block
    BY <1>1
  <2> QED BY <1>1, <2>1
<1> HIDE DEF p
<1>3. Chain(p)
  <2> SUFFICES ASSUME NEW k \in 1..(Len(p) - 1)
               PROVE  End(p[k]) = p[k + 1].start
    BY DEF Chain
  <2>1. /\ k \in 1..(j - i + 1) /\ k + 1 \in 1..(j - i + 1)
        /\ i + k - 1 \in 1..(Len(bs) - 1) /\ i + (k + 1) - 1 = i + k - 1 + 1
    BY <1>1, <1>2
  <2>2. p[k] = bs[i + k - 1] /\ p[k + 1] = bs[i + k - 1 + 1]
    BY <1>2, <2>1
  <2> QED BY <2>1, <2>2 DEF Chain
<1>4. p # <<>> /\ Last(p) = p[Len(p)] /\ Len(p) \in 1..(j - i + 1)
      /\ 1 \in 1..(j - i + 1)
  BY <1>1, <1>2 DEF Last
<1>5. Last(p) = bs[j] /\ p[1] = bs[i]
  <2>1. i + Len(p) - 1 = j /\ i + 1 - 1 = i
    BY <1>1, <1>2
  <2> QED BY <1>2, <1>4, <2>1
<1>6. Total(p) = Span(p)
  BY <1>2, <1>3, TotalIsSpan
<1> QED BY <1>4, <1>5, <1>6 DEF Span, p

(* What follows block a of a chain lasts from a's end to the chain's.       *)
LEMMA RestLasts ==
  ASSUME NEW bs \in Seq(Block), Chain(bs), NEW a \in 1..Len(bs)
  PROVE  /\ Total(SubSeq(bs, a + 1, Len(bs))) = End(Last(bs)) - End(bs[a])
         /\ SubSeq(bs, a + 1, Len(bs)) # <<>> <=> a < Len(bs)
<1>1. Len(bs) \in Nat /\ a \in Nat /\ a >= 1 /\ a <= Len(bs)
      /\ Last(bs) = bs[Len(bs)]
  BY DEF Last
<1>2. CASE a = Len(bs)
  <2>1. SubSeq(bs, a + 1, Len(bs)) = <<>>
    BY <1>1, <1>2
  <2>2. Total(<<>>) = 0
    <3>1. <<>> \in Seq(Block) /\ 1..(Len(<<>>) - 1) = {}
      OBVIOUS
    <3>2. Total(<<>>) = Span(<<>>)
      BY <3>1, TotalIsSpan DEF Chain
    <3> QED BY <3>2 DEF Span
  <2>3. End(bs[a]) \in Nat
    BY <1>1, BlockParts
  <2>4. End(Last(bs)) - End(bs[a]) = 0
    BY <1>1, <1>2, <2>3
  <2>5. ~(a < Len(bs)) /\ Total(SubSeq(bs, a + 1, Len(bs))) = 0
    <3>1. ~(a < Len(bs))
      BY <1>1, <1>2
    <3> QED BY <2>1, <2>2, <3>1
  <2> QED BY <2>1, <2>4, <2>5
<1>3. CASE a # Len(bs)
  <2>1. a + 1 \in 1..Len(bs) /\ Len(bs) \in (a + 1)..Len(bs)
        /\ a \in 1..(Len(bs) - 1) /\ a < Len(bs)
    BY <1>1, <1>3
  <2>2. Total(SubSeq(bs, a + 1, Len(bs))) = End(bs[Len(bs)]) - bs[a + 1].start
    BY <2>1, PieceLasts
  <2>3. bs[a + 1].start = End(bs[a])
    BY <2>1 DEF Chain
  <2>4. SubSeq(bs, a + 1, Len(bs)) # <<>>
    <3>1. Len(SubSeq(bs, a + 1, Len(bs))) = Len(bs) - a
      BY <1>1, <2>1
    <3>2. Len(bs) - a # 0 /\ Len(<<>>) = 0
      BY <1>1, <2>1
    <3> QED BY <3>1, <3>2
  <2> QED BY <1>1, <2>1, <2>2, <2>3, <2>4
<1> QED BY <1>2, <1>3

(* Finished, told from where the blocks end. *)
LEMMA FinishedIs ==
  ASSUME NEW bs \in Seq(Block), Chain(bs), First(bs) # 0
  PROVE  Finished(bs) <=>
           /\ First(bs) < Len(bs)
           /\ \/ End(Last(bs)) - End(bs[Latest(bs)]) >= PostS
              \/ End(Last(bs)) - End(bs[First(bs)]) >= MaxS
              \/ Last(bs).epoch_changed
<1>1. First(bs) \in 1..Len(bs) /\ Latest(bs) \in 1..Len(bs)
  BY FirstExists, LatestExists
<1>2. /\ Total(SubSeq(bs, First(bs) + 1, Len(bs)))
           = End(Last(bs)) - End(bs[First(bs)])
      /\ Total(SubSeq(bs, Latest(bs) + 1, Len(bs)))
           = End(Last(bs)) - End(bs[Latest(bs)])
      /\ SubSeq(bs, First(bs) + 1, Len(bs)) # <<>> <=> First(bs) < Len(bs)
  BY <1>1, RestLasts
<1>3. SelectInSeq(bs, IsActive) = First(bs)
      /\ SelectLastInSeq(bs, IsActive) = Latest(bs)
  BY DEF First, Latest
<1> QED BY <1>2, <1>3 DEF Finished

-----------------------------------------------------------------------------
(* Gated mode: the history in front of a recording.                         *)

(* Where history may begin: the stream's start, or the end of what was      *)
(* written last.                                                            *)
Since == IF saved = <<>> THEN 0 ELSE SavedEnd

SinceCapture(n) == IF n = 1 THEN 0 ELSE End(Last(saved[n - 1].blocks))

(* A recording holds pre_s of history, or all there is, and no block more.  *)
HasHistory(r, since) ==
  LET f == First(r)
      before == End(r[f]) - r[1].start
  IN  /\ f # 0
      /\ before >= PreS \/ r[1].start = since
      /\ f = 1 \/ before - Dur(r[1]) < PreS

(* So does the ring, whose only active block is the one that triggers.      *)
RingHistory ==
  /\ track = NoTrack \/ pc = "join" =>
       ring_s >= PreS
         \/ (IF ring = <<>> THEN Here ELSE ring[1].start) = Since
  /\ \A i \in 1..Len(ring) :
       ring[i].active => pc \in {"trim", "join"} /\ i = Len(ring)

HistoryInv ==
  /\ pc # "done" => RingHistory
  /\ Open => HasHistory(track, Since)
  /\ \A n \in DOMAIN saved : ~saved[n].interrupted =>
       HasHistory(saved[n].blocks, SinceCapture(n))

(* Every step keeps the history: the ring is trimmed only while what is     *)
(* left lasts pre_s, and a capture takes all of it.                         *)
LEMMA HistoryStep ==
  ASSUME PreS # 0, StreamInv, Captures, HistoryInv, mode = "gated",
         [Next]_vars
  PROVE  HistoryInv'
<1>1. TypeOK /\ Tiling /\ Phases /\ PreS \in Nat \ {0}
  BY RecorderAssumption DEF StreamInv, Tiling
<1>2. /\ ring \in Seq(Block) /\ blk \in Block /\ position \in Nat
      /\ ring_s \in Nat /\ ring_s = Span(ring)
      /\ track # NoTrack => track \in Seq(Block)
      /\ Chain(ring) /\ (pc # "done" => ReachesHere(ring))
      /\ Len(ring) \in Nat
  BY <1>1 DEF Tiling, TypeOK, RingTiles
<1>3. ASSUME saved' = saved
      PROVE  /\ Since' = Since
             /\ \A n \in DOMAIN saved' : ~saved'[n].interrupted =>
                  HasHistory(saved'[n].blocks, SinceCapture(n)')
  <2>1. SavedEnd' = SavedEnd /\ \A n : SinceCapture(n)' = SinceCapture(n)
    BY <1>3 DEF SavedEnd, SinceCapture
  <2> QED BY <1>3, <2>1 DEF Since, HistoryInv
<1>4. ASSUME NEW n \in BlockLens, NEW k \in 0..n, Poll(n, k)
      PROVE  HistoryInv'
  <2>1. /\ Here' = Here /\ saved' = saved /\ UNCHANGED <<track, ring, ring_s>>
        /\ pc = "poll" /\ pc' = "gated"
    BY <1>4, PollStream DEF Poll
  <2> QED BY <1>3, <2>1 DEF HistoryInv, RingHistory, Open
<1>5. ASSUME NEW active \in BOOLEAN, Watch(active)
      PROVE  HistoryInv'
  <2> DEFINE b == Judged(active)
  <2>1. Here = blk.start /\ saved' = saved /\ pc' = "trim"
        /\ track = NoTrack /\ track' = NoTrack /\ pc = "gated"
        /\ ring' = Append(ring, b) /\ ring_s' = ring_s + Dur(blk)
    BY <1>5, WatchStream DEF Watch
  <2>2. b \in Block /\ b.start = blk.start /\ Dur(blk) \in Nat
    BY <1>1, <1>2, BlockInHand, BlockParts
  <2> HIDE DEF b
  <2>3. /\ Len(ring') = Len(ring) + 1
        /\ \A i \in 1..Len(ring) : ring'[i] = ring[i]
        /\ ring' # <<>>
    BY <1>2, <2>1, <2>2
  <2>4. /\ ring # <<>> => ring'[1] = ring[1]
        /\ ring = <<>> => ring'[1] = b
    BY <1>2, <2>1, <2>2, ChainGrows DEF ReachesHere
  <2>5. ring_s' >= PreS \/ ring'[1].start = Since
    <3>1. CASE ring = <<>>
      <4>1. ~(ring_s >= PreS)
        BY <1>1, <1>2, <3>1 DEF Span
      <4> QED BY <2>1, <2>2, <2>4, <3>1, <4>1 DEF HistoryInv, RingHistory
    <3>2. CASE ring # <<>>
      <4>1. ring_s >= PreS \/ ring[1].start = Since
        BY <2>1, <3>2 DEF HistoryInv, RingHistory
      <4> QED BY <1>1, <1>2, <2>1, <2>2, <2>4, <3>2, <4>1
    <3> QED BY <3>1, <3>2
  <2>6. \A i \in 1..Len(ring') : ring'[i].active => i = Len(ring')
    <3> SUFFICES ASSUME NEW i \in 1..Len(ring'), i # Len(ring')
                 PROVE  ~ring'[i].active
      OBVIOUS
    <3>1. i \in 1..Len(ring)
      BY <1>2, <2>3
    <3> QED BY <2>1, <2>3, <3>1 DEF HistoryInv, RingHistory
  <2> QED BY <1>3, <2>1, <2>3, <2>5, <2>6 DEF HistoryInv, RingHistory, Open
<1>6. CASE Trim
  <2>1. /\ pc = "trim" /\ ring # <<>> /\ ring' = Tail(ring)
        /\ ring_s' >= PreS /\ track = NoTrack
        /\ saved' = saved /\ UNCHANGED <<pc, track>>
    BY <1>1, <1>6 DEF Trim, Excess, RingLeft, Phases
  <2>2. /\ Len(ring') = Len(ring) - 1 /\ Len(ring) \in Nat
        /\ \A i \in 1..(Len(ring) - 1) : ring'[i] = ring[i + 1]
    BY <1>2, <2>1
  <2>3. \A i \in 1..Len(ring') : ring'[i].active => i = Len(ring')
    <3> SUFFICES ASSUME NEW i \in 1..Len(ring'), ring'[i].active
                 PROVE  i = Len(ring')
      OBVIOUS
    <3>1. i + 1 \in 1..Len(ring) /\ ring[i + 1].active
      BY <2>2
    <3>2. i + 1 = Len(ring)
      BY <2>1, <3>1 DEF HistoryInv, RingHistory
    <3> QED BY <2>2, <3>2
  <2> QED BY <1>3, <2>1, <2>3 DEF HistoryInv, RingHistory, Open
<1>7. CASE Trigger
  <2>1. /\ Here' = position /\ Here = position /\ saved' = saved
        /\ pc = "trim" /\ track = NoTrack /\ UNCHANGED <<ring, ring_s>>
    BY <1>1, <1>7, TriggerStream DEF Trigger, Phases
  <2>2. CASE blk.active
    <3>1. pc' = "join"
      BY <1>7, <2>2 DEF Trigger
    <3> QED BY <1>3, <2>1, <3>1 DEF HistoryInv, RingHistory, Open
  <2>3. CASE ~blk.active
    <3>1. track' = NoTrack /\ pc' = "poll"
      BY <1>7, <2>1, <2>3 DEF Trigger
    <3>2. ring # <<>> /\ Last(ring) = blk
      BY <2>1 DEF Captures, UnderWay
    <3>3. ring[Len(ring)] = blk
      BY <1>2, <3>2, EmptyIffNone
    <3>4. \A k \in 1..Len(ring) : ~ring[k].active
      BY <2>1, <2>3, <3>3 DEF HistoryInv, RingHistory
    <3> QED BY <1>3, <2>1, <3>1, <3>4 DEF HistoryInv, RingHistory, Open
  <2> QED BY <2>2, <2>3
<1>15. CASE AddHistory
  <2>1. /\ Here' = position /\ Here = position /\ saved' = saved
        /\ pc = "join" /\ pc' = "join" /\ UNCHANGED <<ring, ring_s>>
    BY <1>15, AddHistoryStream DEF AddHistory
  <2> QED BY <1>3, <2>1 DEF HistoryInv, RingHistory, Open
<1>16. CASE Record
  <2>1. /\ saved' = saved /\ pc' = "poll" /\ pc = "join" /\ track' = ring
        /\ ring' = <<>> /\ ring # <<>> /\ Last(ring) = blk /\ ~Excess
        /\ blk.active
    BY <1>16, JoinedParts
    DEF Record, RingAfter, Captures, UnderWay, StreamInv, Joining
  <2>2. /\ Len(ring) \in 1..Len(ring) /\ ring[Len(ring)] = blk
        /\ \A i \in 1..(Len(ring) - 1) : i \in 1..Len(ring) /\ i # Len(ring)
    <3>1. Len(ring) # 0 /\ ring[Len(ring)] = blk
      BY <1>2, <2>1, EmptyIffNone
    <3> QED BY <1>2, <3>1
  <2>3. First(ring) = Len(ring)
    <3>1. \A i \in 1..(Len(ring) - 1) : ~ring[i].active
      BY <2>1, <2>2 DEF HistoryInv, RingHistory
    <3> QED BY <1>2, <2>1, <2>2, <3>1, FirstIs
  <2>4. HasHistory(ring, Since)
    <3>1. End(ring[First(ring)]) - ring[1].start = ring_s
      BY <1>2, <2>1, <2>2, <2>3 DEF Span
    <3>2. ring_s >= PreS \/ ring[1].start = Since
      BY <2>1 DEF HistoryInv, RingHistory
    <3>3. ring_s - Dur(ring[1]) < PreS
      <4>1. Head(ring) = ring[1] /\ ring[1] \in Block
        BY <1>2, <2>1, ChainShrinks
      <4>2. ~(ring_s - Dur(ring[1]) >= PreS) /\ Dur(ring[1]) \in Nat
        BY <2>1, <4>1, BlockParts DEF Excess
      <4> QED BY <1>1, <1>2, <4>2
    <3>4. First(ring) # 0
      BY <2>2, <2>3
    <3> QED BY <3>1, <3>2, <3>3, <3>4 DEF HasHistory
  <2>5. 1..Len(ring') = {} /\ track' # NoTrack
    BY <1>2, <2>1, RecorderAssumption
  <2> QED BY <1>3, <2>1, <2>4, <2>5 DEF HistoryInv, RingHistory, Open
<1>8. ASSUME NEW active \in BOOLEAN, Extend(active)
      PROVE  HistoryInv'
  <2> DEFINE b == Judged(active)
  <2>1. /\ saved' = saved /\ pc = "gated" /\ pc' \in {"poll", "save"}
        /\ track # NoTrack /\ ring' = <<>> /\ track' = Append(track, b)
    BY <1>1, <1>8 DEF Extend, Phases
  <2>2. b \in Block
    BY <1>1, BlockInHand
  <2> HIDE DEF b
  <2>3. HasHistory(track, Since) /\ track \in Seq(Block)
    BY <1>2, <2>1 DEF HistoryInv, Open
  <2>4. /\ First(track') = First(track) /\ First(track) \in 1..Len(track)
        /\ \A i \in 1..Len(track) : track'[i] = track[i]
        /\ Len(track) \in Nat /\ track' \in Seq(Block)
    BY <2>1, <2>2, <2>3, BlockMore DEF HasHistory
  <2>5. 1 \in 1..Len(track)
    BY <2>4
  <2>6. track' # NoTrack /\ 1..Len(ring') = {}
    BY <2>1, <2>4, RecorderAssumption
  <2>7. HasHistory(track', Since)
    BY <2>3, <2>4, <2>5 DEF HasHistory
  <2> QED BY <1>3, <2>1, <2>6, <2>7 DEF HistoryInv, RingHistory, Open
<1>9. ASSUME NEW i \in BOOLEAN, track # NoTrack,
             saved' = Append(saved, [blocks |-> track, interrupted |-> i]),
             ~i => Open
      PROVE  \A n \in DOMAIN saved' : ~saved'[n].interrupted =>
               HasHistory(saved'[n].blocks, SinceCapture(n)')
  <2>1. /\ Len(saved) \in Nat /\ DOMAIN saved = 1..Len(saved)
        /\ DOMAIN saved' = 1..(Len(saved) + 1)
        /\ \A n \in 1..Len(saved) : saved'[n] = saved[n]
        /\ saved'[Len(saved) + 1] = [blocks |-> track, interrupted |-> i]
        /\ saved # <<>> => Len(saved) > 0 /\ Last(saved) = saved[Len(saved)]
    BY <1>1, <1>2, <1>9, SavedGrows
  <2>2. ASSUME NEW n \in 1..(Len(saved) + 1)
        PROVE  /\ n \in 1..Len(saved) => SinceCapture(n)' = SinceCapture(n)
               /\ n = Len(saved) + 1 => SinceCapture(n)' = Since
    <3>1. CASE n = 1
      <4>1. n = Len(saved) + 1 => saved = <<>>
        BY <2>1, <3>1
      <4> QED BY <3>1, <4>1 DEF SinceCapture, Since
    <3>2. CASE n # 1
      <4>1. n - 1 \in 1..Len(saved)
        BY <2>1, <3>2
      <4>2. SinceCapture(n)' = End(Last(saved[n - 1].blocks))
        BY <2>1, <3>2, <4>1 DEF SinceCapture
      <4>3. n = Len(saved) + 1 => saved # <<>> /\ saved[n - 1] = Last(saved)
        BY <2>1, <4>1
      <4> QED BY <3>2, <4>2, <4>3 DEF SinceCapture, Since, SavedEnd
    <3> QED BY <3>1, <3>2
  <2>3. ASSUME NEW n \in DOMAIN saved', ~saved'[n].interrupted
        PROVE  HasHistory(saved'[n].blocks, SinceCapture(n)')
    <3>1. CASE n \in 1..Len(saved)
      BY <2>1, <2>2, <2>3, <3>1 DEF HistoryInv
    <3>2. CASE n = Len(saved) + 1
      <4>1. ~i /\ saved'[n].blocks = track
        BY <2>1, <2>3, <3>2
      <4> QED BY <1>9, <2>1, <2>2, <3>2, <4>1 DEF HistoryInv
    <3> QED BY <2>1, <3>1, <3>2
  <2> QED BY <2>3
<1>10. CASE Save
  <2>1. /\ saved' = Append(saved, [blocks |-> track, interrupted |-> FALSE])
        /\ Open /\ track # NoTrack /\ track' # NoTrack
        /\ ring = <<>> /\ ring' = <<>> /\ pc' = "close"
    BY <1>1, <1>10 DEF Save, Phases, Open
  <2>2. 1..Len(ring') = {}
    BY <2>1
  <2> QED BY <1>9, <2>1, <2>2 DEF HistoryInv, RingHistory, Open
<1>11. CASE Close
  <2>1. /\ pc = "close" /\ track # NoTrack /\ track' = NoTrack
        /\ pc' \in {"poll", "done"} /\ saved' = saved
        /\ ring = <<>> /\ ring' = <<>> /\ UNCHANGED position
    BY <1>1, <1>11 DEF Close, Phases
  <2>2. Here = position /\ Here' = position /\ 1..Len(ring') = {}
    BY <2>1 DEF Here
  <2>3. Since = position
    BY <2>1, <2>2 DEF Captures, UnderWay, Since, SavedEnd
  <2> QED BY <1>3, <2>1, <2>2, <2>3 DEF HistoryInv, RingHistory, Open
<1>12. CASE Interrupt
  <2>1. pc' = "done"
    BY <1>12 DEF Interrupt
  <2>2. CASE track # NoTrack
    <3>1. saved' = Append(saved, [blocks |-> track, interrupted |-> TRUE])
      BY <1>12, <2>2 DEF Interrupt, KeptOnInterrupt
    <3> QED BY <1>9, <2>1, <2>2, <3>1 DEF HistoryInv, Open
  <2>3. CASE track = NoTrack
    <3>1. saved' = saved
      BY <1>12, <2>3 DEF Interrupt, KeptOnInterrupt
    <3> QED BY <1>3, <2>1, <3>1 DEF HistoryInv, Open
  <2> QED BY <2>2, <2>3
<1>13. CASE UNCHANGED vars
  <2>1. Here' = Here /\ saved' = saved
    BY <1>13 DEF vars, Here
  <2> QED BY <1>3, <1>13, <2>1 DEF vars, HistoryInv, RingHistory, Open
<1>14. ~AddFixed /\ ~EndFixed
  BY DEF AddFixed, EndFixed
<1> QED
  BY <1>4, <1>5, <1>6, <1>7, <1>8, <1>10, <1>11, <1>12, <1>13, <1>14,
     <1>15, <1>16 DEF Next
-----------------------------------------------------------------------------
(* Gated mode: when a capture ends.                                         *)

NotBefore(r) == \A k \in First(r)..(Len(r) - 1) : ~Finished(SubSeq(r, 1, k))

Timed(r) == Finished(r) /\ NotBefore(r)

(* The two durations the loop counts are what the recording's blocks span   *)
(* from the trigger and from the latest activity on, and the loop saves     *)
(* just when these say so.                                                  *)
EndsInv ==
  /\ Open =>
       /\ rec_s = End(Last(track)) - End(track[First(track)])
       /\ quiet_s = End(Last(track)) - End(track[Latest(track)])
       /\ pc = "save" <=> Finished(track)
       /\ NotBefore(track)
  /\ \A n \in DOMAIN saved : ~saved[n].interrupted => Timed(saved[n].blocks)

(* A recording that begins has seen no block behind its trigger.            *)
LEMMA RecordEnds ==
  ASSUME PreS # 0, StreamInv, Captures, HistoryInv, EndsInv, mode = "gated",
         Record
  PROVE  EndsInv'
<1>1. TypeOK /\ Tiling /\ Phases
  BY DEF StreamInv, Tiling
<1>2. /\ ring \in Seq(Block) /\ blk \in Block /\ Chain(ring)
      /\ Len(ring) \in Nat
  BY <1>1 DEF Tiling, TypeOK, RingTiles
<1>3. /\ saved' = saved /\ pc' = "poll" /\ pc = "join" /\ track' = ring
      /\ rec_s' = 0 /\ quiet_s' = 0 /\ ring # <<>> /\ Last(ring) = blk
      /\ blk.active
  BY JoinedParts DEF Record, Captures, UnderWay, StreamInv, Joining
<1>4. /\ Len(ring) \in 1..Len(ring) /\ ring[Len(ring)] = blk
      /\ \A i \in 1..(Len(ring) - 1) : i \in 1..Len(ring) /\ i # Len(ring)
  <2>1. Len(ring) # 0 /\ ring[Len(ring)] = blk
    BY <1>2, <1>3, EmptyIffNone
  <2> QED BY <1>2, <2>1
<1>5. \A i \in 1..(Len(ring) - 1) : ~ring[i].active
  BY <1>3, <1>4 DEF HistoryInv, RingHistory
<1>6. First(ring) = Len(ring)
  BY <1>2, <1>3, <1>4, <1>5, FirstIs
<1>7. Latest(ring) = Len(ring)
  <2>1. (Len(ring) + 1)..Len(ring) = {}
    BY <1>2
  <2> QED BY <1>2, <1>3, <1>4, <2>1, LatestIs
<1>8. End(Last(ring)) - End(ring[Len(ring)]) = 0
  <2>1. End(blk) \in Nat
    BY <1>2, BlockParts
  <2> QED BY <1>3, <1>4, <2>1
<1>9. ~Finished(ring)
  <2>1. First(ring) # 0 /\ ~(First(ring) < Len(ring))
    BY <1>2, <1>4, <1>6
  <2> QED BY <1>2, <2>1, FinishedIs
<1>10. NotBefore(ring)
  <2>1. First(ring)..(Len(ring) - 1) = {}
    BY <1>2, <1>6
  <2> QED BY <2>1 DEF NotBefore
<1> QED BY <1>3, <1>6, <1>7, <1>8, <1>9, <1>10 DEF EndsInv

(* A block more: the durations grow by what it lasts, or the quiet begins   *)
(* anew, and the loop tests what Finished says.                             *)
LEMMA ExtendEnds ==
  ASSUME StreamInv, Captures, HistoryInv, EndsInv, mode = "gated",
         NEW active \in BOOLEAN, Extend(active)
  PROVE  EndsInv'
<1> DEFINE b == Judged(active)
           f == First(track)
<1>1. TypeOK /\ Tiling /\ Phases
  BY DEF StreamInv, Tiling
<1>2. /\ blk \in Block /\ Dur(blk) \in Nat /\ rec_s \in Nat /\ quiet_s \in Nat
      /\ PostS \in Nat \ {0} /\ MaxS \in Nat \ {0}
  BY <1>1, BlockParts, RecorderAssumption DEF TypeOK
<1>3. /\ saved' = saved /\ pc = "gated" /\ track # NoTrack
      /\ track' = Append(track, b) /\ Here = blk.start
      /\ rec_s' = rec_s + Dur(blk)
      /\ quiet_s' = IF active THEN 0 ELSE quiet_s + Dur(blk)
      /\ pc' \in {"poll", "save"}
      /\ pc' = "save" <=> \/ quiet_s' >= PostS \/ rec_s' >= MaxS
                          \/ blk.epoch_changed
  BY ExtendStream DEF Extend, QuietAfter
<1>4. /\ b \in Block /\ b.start = blk.start /\ Dur(b) = Dur(blk)
      /\ b.active = active /\ b.epoch_changed = blk.epoch_changed
      /\ End(b) = b.start + Dur(blk) /\ End(b) \in Nat
  <2>1. b.epoch_changed = blk.epoch_changed
    BY <1>2 DEF Judged, Block
  <2> QED BY <1>1, <2>1, BlockInHand, BlockParts
<1> HIDE DEF b
<1>5. /\ Open /\ track \in Seq(Block) /\ track # <<>> /\ Chain(track)
      /\ End(Last(track)) = b.start /\ f # 0
  BY <1>1, <1>3, <1>4
  DEF Open, TypeOK, Captures, UnderWay, HistoryInv, HasHistory
<1>6. /\ rec_s = End(Last(track)) - End(track[f])
      /\ quiet_s = End(Last(track)) - End(track[Latest(track)])
      /\ ~Finished(track) /\ NotBefore(track)
  BY <1>3, <1>5 DEF EndsInv
<1>7. /\ track' \in Seq(Block) /\ Chain(track') /\ Last(track') = b
  BY <1>3, <1>4, <1>5, ChainGrows
<1>8. /\ Len(track') = Len(track) + 1 /\ Len(track) \in Nat
      /\ track'[Len(track) + 1] = b
      /\ \A i \in 1..Len(track) : track'[i] = track[i]
      /\ First(track') = f /\ f \in 1..Len(track)
      /\ b.active => Latest(track') = Len(track) + 1
      /\ \A k \in 0..Len(track) : SubSeq(track', 1, k) = SubSeq(track, 1, k)
  BY <1>3, <1>4, <1>5, BlockMore
<1>9. /\ ~b.active => Latest(track') = Latest(track)
      /\ Latest(track) \in 1..Len(track)
  BY <1>3, <1>4, <1>5, QuietMore, LatestExists
<1> HIDE DEF f
<1>10. rec_s' = End(Last(track')) - End(track'[First(track')])
  <2>1. End(track[f]) \in Nat
    BY <1>5, <1>8, BlockParts
  <2>2. End(Last(track')) = End(Last(track)) + Dur(blk)
    BY <1>4, <1>5, <1>7
  <2>3. End(Last(track)) \in Nat
    BY <1>5, EmptyIffNone, BlockParts
  <2>4. rec_s' = (End(Last(track)) + Dur(blk)) - End(track[f])
    BY <1>2, <1>3, <1>6, <2>1, <2>3
  <2> QED BY <1>8, <2>2, <2>4
<1>11. quiet_s' = End(Last(track')) - End(track'[Latest(track')])
  <2>1. CASE active
    <3>1. track'[Latest(track')] = b
      BY <1>4, <1>8, <2>1
    <3> QED BY <1>3, <1>4, <1>7, <2>1, <3>1
  <2>2. CASE ~active
    <3>1. track'[Latest(track')] = track[Latest(track)]
      BY <1>4, <1>8, <1>9, <2>2
    <3>2. End(track[Latest(track)]) \in Nat
      BY <1>5, <1>9, BlockParts
    <3>3. End(Last(track')) = End(Last(track)) + Dur(blk)
      BY <1>4, <1>5, <1>7
    <3>4. End(Last(track)) \in Nat
      BY <1>5, EmptyIffNone, BlockParts
    <3>5. quiet_s' = (End(Last(track)) + Dur(blk)) - End(track[Latest(track)])
      BY <1>2, <1>3, <1>6, <2>2, <3>2, <3>4
    <3> QED BY <3>1, <3>3, <3>5
  <2> QED BY <2>1, <2>2
<1>12. pc' = "save" <=> Finished(track')
  <2>1. First(track') # 0 /\ First(track') < Len(track')
    BY <1>8
  <2>2. Finished(track') <=>
          \/ End(Last(track')) - End(track'[Latest(track')]) >= PostS
          \/ End(Last(track')) - End(track'[First(track')]) >= MaxS
          \/ Last(track').epoch_changed
    BY <1>7, <2>1, FinishedIs
  <2> QED BY <1>3, <1>4, <1>7, <1>10, <1>11, <2>2
<1>13. NotBefore(track')
  <2> SUFFICES ASSUME NEW k \in f..Len(track)
               PROVE  ~Finished(SubSeq(track', 1, k))
    <3>1. First(track')..(Len(track') - 1) = f..Len(track)
      BY <1>8
    <3> QED BY <3>1 DEF NotBefore
  <2>1. SubSeq(track', 1, k) = SubSeq(track, 1, k)
    <3>1. k \in 0..Len(track)
      BY <1>8
    <3> QED BY <1>8, <3>1
  <2>2. CASE k = Len(track)
    <3>1. SubSeq(track, 1, Len(track)) = track
      BY <1>5
    <3> QED BY <1>6, <2>1, <2>2, <3>1
  <2>3. CASE k # Len(track)
    <3>1. k \in f..(Len(track) - 1)
      BY <1>8, <2>3
    <3> QED BY <1>6, <2>1, <3>1 DEF NotBefore, f
  <2> QED BY <2>2, <2>3
<1> QED BY <1>3, <1>10, <1>11, <1>12, <1>13 DEF EndsInv

(* The other steps only write what is there. *)
LEMMA EndsStep ==
  ASSUME PreS # 0, StreamInv, Captures, HistoryInv, EndsInv, mode = "gated",
         [Next]_vars
  PROVE  EndsInv'
<1>1. TypeOK /\ Phases
  BY DEF StreamInv, Tiling
<1>2. ASSUME UNCHANGED <<saved, track, rec_s, quiet_s>>, Open' <=> Open,
             pc' = "save" <=> pc = "save"
      PROVE  EndsInv'
  BY <1>2 DEF EndsInv
<1>3. ASSUME NEW n \in BlockLens, NEW k \in 0..n, Poll(n, k)
      PROVE  EndsInv'
  <2>1. pc' = "gated" /\ pc = "poll"
    BY <1>3 DEF Poll
  <2> QED BY <1>2, <1>3, <2>1 DEF Poll, Open
<1>4. ASSUME NEW active \in BOOLEAN, Watch(active)
      PROVE  EndsInv'
  BY <1>2, <1>4 DEF Watch, Open
<1>5. CASE Trim
  BY <1>2, <1>5 DEF Trim, Open
<1>6. CASE Trigger
  <2>1. CASE blk.active
    <3>1. saved' = saved /\ ~Open'
      BY <1>6, <2>1 DEF Trigger, Open
    <3> QED BY <3>1 DEF EndsInv
  <2>2. CASE ~blk.active
    BY <1>2, <1>6, <2>2 DEF Trigger, Open
  <2> QED BY <2>1, <2>2
<1>14. CASE AddHistory
  <2>1. saved' = saved /\ ~Open'
    BY <1>14 DEF AddHistory, Open
  <2> QED BY <2>1 DEF EndsInv
<1>15. CASE Record
  BY <1>15, RecordEnds
<1>7. ASSUME NEW active \in BOOLEAN, Extend(active)
      PROVE  EndsInv'
  BY <1>7, ExtendEnds
<1>8. ASSUME NEW i \in BOOLEAN, track # NoTrack,
             saved' = Append(saved, [blocks |-> track, interrupted |-> i]),
             ~i => Timed(track)
      PROVE  \A n \in DOMAIN saved' :
               ~saved'[n].interrupted => Timed(saved'[n].blocks)
  <2>1. track \in Seq(Block)
    BY <1>1, <1>8 DEF TypeOK
  <2>2. /\ DOMAIN saved = 1..Len(saved)
        /\ DOMAIN saved' = 1..(Len(saved) + 1) /\ Len(saved) \in Nat
        /\ \A n \in 1..Len(saved) : saved'[n] = saved[n]
        /\ saved'[Len(saved) + 1] = [blocks |-> track, interrupted |-> i]
    BY <1>1, <1>8, <2>1, SavedGrows
  <2>3. ASSUME NEW n \in DOMAIN saved', ~saved'[n].interrupted
        PROVE  Timed(saved'[n].blocks)
    <3>1. CASE n \in 1..Len(saved)
      BY <2>2, <2>3, <3>1 DEF EndsInv
    <3>2. CASE n = Len(saved) + 1
      <4>1. ~i /\ saved'[n].blocks = track
        BY <2>2, <2>3, <3>2
      <4> QED BY <1>8, <4>1
    <3> QED BY <2>2, <3>1, <3>2
  <2> QED BY <2>3
<1>9. CASE Save
  <2>1. /\ saved' = Append(saved, [blocks |-> track, interrupted |-> FALSE])
        /\ track # NoTrack /\ Open /\ pc = "save" /\ pc' = "close"
    BY <1>1, <1>9 DEF Save, Phases, Open
  <2>2. Timed(track)
    BY <2>1 DEF EndsInv, Timed
  <2> QED BY <1>8, <2>1, <2>2 DEF EndsInv, Open
<1>10. CASE Close
  <2>1. saved' = saved /\ ~Open'
    BY <1>10 DEF Close, Open
  <2> QED BY <2>1 DEF EndsInv
<1>11. CASE Interrupt
  <2>1. ~Open'
    BY <1>11 DEF Interrupt, Open
  <2>2. CASE track # NoTrack
    <3>1. saved' = Append(saved, [blocks |-> track, interrupted |-> TRUE])
      BY <1>11, <2>2 DEF Interrupt, KeptOnInterrupt
    <3> QED BY <1>8, <2>1, <2>2, <3>1 DEF EndsInv
  <2>3. CASE track = NoTrack
    <3>1. saved' = saved
      BY <1>11, <2>3 DEF Interrupt, KeptOnInterrupt
    <3> QED BY <2>1, <3>1 DEF EndsInv
  <2> QED BY <2>2, <2>3
<1>12. CASE UNCHANGED vars
  BY <1>2, <1>12 DEF vars, Open
<1>13. ~AddFixed /\ ~EndFixed
  BY DEF AddFixed, EndFixed
<1> QED
  BY <1>3, <1>4, <1>5, <1>6, <1>7, <1>9, <1>10, <1>11, <1>12, <1>13, <1>14,
     <1>15 DEF Next

-----------------------------------------------------------------------------
(* What the recordings hold *)

LoopInv ==
  /\ GatedInv
  /\ mode = "gated" => HistoryInv /\ EndsInv

(* With the history and the durations they still are. *)
LEMMA LoopInductive ==
  ASSUME PreS # 0
  PROVE  /\ Init => LoopInv
         /\ LoopInv /\ [Next]_vars => LoopInv'
<1>1. ASSUME Init PROVE LoopInv
  <2>1. GatedInv
    BY <1>1, GatedInductive
  <2>2. /\ saved = <<>> /\ ring = <<>> /\ pc = "poll" /\ position = 0
        /\ mode = "gated" => track = NoTrack
    BY <1>1 DEF Init
  <2>3. Here = 0 /\ Since = 0 /\ 1..Len(ring) = {} /\ DOMAIN saved = {}
    BY <2>2 DEF Here, Since
  <2> QED
    BY <2>1, <2>2, <2>3 DEF LoopInv, HistoryInv, RingHistory, EndsInv, Open
<1>2. ASSUME LoopInv, [Next]_vars PROVE LoopInv'
  <2>1. mode' = mode
    BY <1>2 DEF Next, vars, Poll, Watch, Trim, Trigger, AddHistory, Record,
                Extend, Save, Close, AddFixed, EndFixed, Interrupt
  <2>2. GatedInv'
    BY <1>2, GatedInductive DEF LoopInv
  <2>3. CASE mode = "gated"
    <3>1. StreamInv /\ Captures /\ HistoryInv /\ EndsInv
      BY <1>2, <2>3 DEF LoopInv, GatedInv
    <3> QED BY <1>2, <2>2, <2>3, <3>1, HistoryStep, EndsStep DEF LoopInv
  <2> QED BY <2>1, <2>2, <2>3 DEF LoopInv
<1> QED BY <1>1, <1>2

(* A recording's history, told with the sums the property uses. *)
LEMMA HistoryTold ==
  ASSUME NEW r \in Seq(Block), Chain(r), NEW since, HasHistory(r, since)
  PROVE  LET trigger == SelectInSeq(r, IsActive)
             before  == Total(SubSeq(r, 1, trigger))
         IN  /\ trigger # 0
             /\ before >= PreS \/ r[1].start = since
             /\ trigger = 1 \/ before - Dur(r[1]) < PreS
<1>1. First(r) # 0
  BY DEF HasHistory
<1>2. First(r) \in 1..Len(r)
  BY <1>1, FirstExists
<1>3. 1 \in 1..Len(r) /\ First(r) \in 1..Len(r) /\ First(r) \in 1..First(r)
  BY <1>2
<1>4. Total(SubSeq(r, 1, First(r))) = End(r[First(r)]) - r[1].start
  BY <1>3, PieceLasts
<1>5. SelectInSeq(r, IsActive) = First(r)
  BY DEF First
<1> QED BY <1>4, <1>5 DEF HasHistory

(* The history the invariant speaks of is the one promised. *)
LEMMA HistoryImplied ==
  ASSUME StreamInv, Captures, HistoryInv
  PROVE  HistoryIsKept
<1>1. TypeOK
  BY DEF StreamInv, Tiling
<1>2. /\ Len(saved) \in Nat /\ DOMAIN saved = 1..Len(saved)
      /\ Len(Recordings) = Len(saved) + (IF Open THEN 1 ELSE 0)
      /\ DOMAIN Recordings = 1..Len(Recordings)
      /\ \A n \in 1..Len(saved) : Recordings[n] = saved[n].blocks
      /\ Open => Recordings[Len(saved) + 1] = track
  BY <1>1, RecordingsParts, Zenon DEF Open
<1>3. \A n \in DOMAIN saved : saved[n].blocks \in Seq(Block)
                              /\ Chain(saved[n].blocks)
  BY <1>1, SavedParts DEF Captures, WellMade
<1>4. Open => track \in Seq(Block) /\ Chain(track)
  BY <1>1 DEF Open, TypeOK, Captures, UnderWay
<1>5. ASSUME NEW n \in DOMAIN Recordings
      PROVE  /\ n \in 1..Len(saved) => Earliest(n) = SinceCapture(n)
             /\ n = Len(saved) + 1 => Earliest(n) = Since
  <2>1. CASE n = 1
    <3>1. n = Len(saved) + 1 => saved = <<>>
      <4>1. saved # <<>> => Len(saved) # 0
        BY <1>1, SavedParts
      <4> QED BY <1>2, <2>1, <4>1
    <3> QED BY <2>1, <3>1 DEF Earliest, SinceCapture, Since
  <2>2. CASE n # 1
    <3>1. n - 1 \in 1..Len(saved)
      BY <1>2, <2>2
    <3>2. Earliest(n) = End(Last(saved[n - 1].blocks))
      BY <1>2, <2>2, <3>1 DEF Earliest
    <3>3. n = Len(saved) + 1 => saved # <<>> /\ saved[n - 1] = Last(saved)
      BY <1>2, <3>1 DEF Last
    <3> QED BY <2>2, <3>2, <3>3 DEF SinceCapture, Since, SavedEnd
  <2> QED BY <2>1, <2>2
<1>6. ASSUME NEW n \in DOMAIN Recordings, ~Interrupted(n)
      PROVE  HasHistory(Recordings[n], Earliest(n))
             /\ Recordings[n] \in Seq(Block) /\ Chain(Recordings[n])
  <2>1. CASE n \in 1..Len(saved)
    <3>1. ~saved[n].interrupted
      BY <1>2, <1>6, <2>1 DEF Interrupted
    <3> QED BY <1>2, <1>3, <1>5, <2>1, <3>1 DEF HistoryInv
  <2>2. CASE n \notin 1..Len(saved)
    <3>1. n = Len(saved) + 1 /\ Open
      BY <1>2, <2>2
    <3> QED BY <1>2, <1>4, <1>5, <3>1 DEF HistoryInv
  <2> QED BY <2>1, <2>2
<1> SUFFICES ASSUME NEW n \in DOMAIN Recordings, ~Interrupted(n)
             PROVE  LET r == Recordings[n]
                        trigger == SelectInSeq(r, IsActive)
                        before  == Total(SubSeq(r, 1, trigger))
                    IN  /\ trigger # 0
                        /\ before >= PreS \/ r[1].start = Earliest(n)
                        /\ trigger = 1 \/ before - Dur(r[1]) < PreS
  BY DEF HistoryIsKept
<1> QED BY <1>6, HistoryTold

(* History in front of the trigger is never lost and never more than asked  *)
(* for: a capture holds pre_s of it, or all there is since the one before.  *)
THEOREM HistoryHolds ==
  ASSUME PreS # 0
  PROVE  Spec => []HistoryIsKept
<1>1. LoopInv => HistoryIsKept
  <2>1. CASE mode = "gated"
    BY <2>1, HistoryImplied DEF LoopInv, GatedInv
  <2> QED BY <2>1 DEF HistoryIsKept
<1> QED BY <1>1, LoopInductive, PTL DEF Spec

(* Every capture ends at the first block that makes post_s of quiet, max_s  *)
(* since the trigger or a new epoch, whatever the sizes of the blocks.      *)
THEOREM CapturesEndOnTime ==
  ASSUME PreS # 0
  PROVE  Spec => []EndsOnTime
<1>1. LoopInv => EndsOnTime
  <2>1. CASE mode = "gated"
    <3>1. \A r : SelectInSeq(r, IsActive) = First(r)
      BY DEF First
    <3> QED BY <2>1, <3>1 DEF LoopInv, EndsInv, Timed, NotBefore, EndsOnTime
  <2> QED BY <2>1 DEF EndsOnTime
<1> QED BY <1>1, LoopInductive, PTL DEF Spec
=============================================================================
