----------------------------- MODULE MCAnalysis -----------------------------
(* Small inputs for every stage of Analysis. *)
EXTENDS Analysis

B(n) == [i \in 1..ByteBits |-> (n \div 2 ^ (ByteBits - i)) % 2 = 1]

(* Every payload of two bytes as sent, and a few with each of the edges     *)
(* displaced by a quarter or half a unit.                                   *)
MCPayloads == {<<a, b>> : a \in Byte, b \in Byte}
MCFew == {<<B(5), B(10)>>, <<B(3), B(12)>>, <<B(6), B(13)>>, <<B(0), B(8)>>}
MCEdges(e, p) == 1..(Len(make_capture(e, p, Repeats, GapUnits)) - 1)
MCTraffic ==
  [encoding : Encodings, payload : MCPayloads, at : {1}, by : {0}]
  \cup UNION {[encoding : {e}, payload : {p}, at : MCEdges(e, p),
               by : {-2, -1, 1, 2}] : e \in Encodings, p \in MCFew}

(* Six samples around a fixed threshold, five around a moving one.          *)
MCSignals ==
  {[dev |-> Deviation_from(x, 2), h |-> 1] : x \in [1..6 -> 0..4]}
  \cup {[dev |-> Deviation_adaptive(x, 2), h |-> 1] : x \in [1..5 -> 0..3]}

(* Two channels, the second with one stretch, and a gap on each.            *)
MCActivity ==
  [masks : {<<m, [i \in 1..7 |-> i \in a..b]>> :
              m \in [1..7 -> BOOLEAN], a \in 1..6, b \in 2..7},
   gaps : {<<g, h>> : g \in {{}} \cup {{i} : i \in 2..7},
                      h \in {{}} \cup {{i} : i \in 2..7}}]

MCLengths == <<4, 3>>
MCPolys == {B(3)}
MCChecks ==
  {[kind |-> "sum8"], [kind |-> "neg-sum8"],
   [kind |-> "crc8", poly |-> B(3), init |-> Ones, reflect |-> TRUE,
    xorout |-> Zeros]}
MCFields ==
  {<< <<B(1), B(4)>>, <<B(1), B(7)>>, <<B(9), B(4)>>, <<B(9), B(10)>> >>,
   << <<B(5), B(5)>>, <<B(5), B(6)>>, <<B(2), B(0)>>, <<B(2), B(15)>> >>}
MCSessions ==
  [sync : {B(11), B(5)}, fields : MCFields, cut : [1..4 -> 0..2],
   check : MCChecks]
=============================================================================
