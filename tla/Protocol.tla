------------------------------ MODULE Protocol ------------------------------
(***************************************************************************)
(* The wire format bus_tap_capture (ESP32) and the host tools share:        *)
(* firmware/.../main/protocol.h and host/bustap/protocol.py.  A datagram is *)
(* a record of the header fields the two ends compute with, and a sample    *)
(* word keeps its channel number and, in place of the 12 data bits, the     *)
(* conversion it came from, so that a property can tell two samples apart.  *)
(*                                                                          *)
(* Left out: magic and n_samples (parse() refuses a datagram on which they  *)
(* are wrong, and nothing in the system builds one), esp_time_us (it only   *)
(* feeds measured_rate), and the INFO payload's texts.                      *)
(***************************************************************************)
EXTENDS Integers, Sequences, FiniteSets

CONSTANTS
  W32,     \* 2^32, the range of seq and overflow_count; small under TLC
  PktLen   \* BT_MAX_SAMPLES_PER_PKT

ASSUME W32Assumption == W32 \in Nat \ {0}
ASSUME PktLenAssumption == PktLen \in Nat \ {0}

(* Logical channels: 0 = DC, 1 = AC, 2 = FC. *)
Channels == 0..2

(* A channel mask is the set of its channels; rate_hz is for all of them.   *)
Config == [rate : Nat \ {0}, mask : (SUBSET Channels) \ {{}}]

(* The options of a HELLO: rate 0 and an empty mask stand for "absent".     *)
Request == [rate : Nat, mask : SUBSET Channels]

(* What a uint32 holds after the counter has run to n. *)
Wrap(n) == n % W32

(* One result of the ADC: its channel, the instant it was converted at, the *)
(* configuration the ADC ran in, and which of its runs that was: the ADC is *)
(* stopped and started again for another configuration.                     *)
Word == [ch : Channels, at : Nat, cfg : Config, run : Nat]

(* popcount8: the number of enabled channels the header carries. *)
popcount8(mask) == Cardinality(mask)

(* The conversion pattern: the enabled channels in ascending order. *)
Pattern(mask) ==
  LET on(c) == IF c \in mask THEN <<c>> ELSE <<>>
  IN  on(0) \o on(1) \o on(2)

(* split_words, and of its result the words of one channel.                 *)
split_words(words, c) ==
  LET sel[k \in 0..Len(words)] ==
        IF k = 0 THEN <<>>
        ELSE IF words[k].ch = c THEN Append(sel[k - 1], words[k])
        ELSE sel[k - 1]
  IN  sel[Len(words)]

(* bt_hdr_t with its payload.  Both types share one record shape; an INFO   *)
(* has no words and first_index 0, as in protocol.build_info.               *)
Datagram(Hosts) ==
  [to : Hosts, type : {"SAMPLES", "INFO"}, seq : Nat, epoch : Nat,
   first_index : Nat, rate_hz : Nat, n_channels : Nat, overflow_count : Nat,
   words : Seq(Word)]

Info(to, epoch, cfg) ==
  [to |-> to, type |-> "INFO", seq |-> 0, epoch |-> epoch,
   first_index |-> 0, rate_hz |-> cfg.rate,
   n_channels |-> popcount8(cfg.mask), overflow_count |-> 0, words |-> <<>>]

Samples(to, seq, epoch, first, cfg, ovf, words) ==
  [to |-> to, type |-> "SAMPLES", seq |-> seq, epoch |-> epoch,
   first_index |-> first, rate_hz |-> cfg.rate,
   n_channels |-> popcount8(cfg.mask), overflow_count |-> ovf,
   words |-> words]
=============================================================================
