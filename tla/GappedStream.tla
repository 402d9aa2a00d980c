---------------------------- MODULE GappedStream ----------------------------
(***************************************************************************)
(* What the host is promised of a stream, whatever happens on the way: on   *)
(* every channel samples are added at the end and never altered; but for    *)
(* the positions it is not sure of, the gap positions are exactly those     *)
(* where two neighbours are not consecutive conversions; and the stream is  *)
(* handed out from its beginning, piece by piece, each piece with its gaps  *)
(* (class Block, record.py:35-43).                                          *)
(*                                                                          *)
(* unsure are the positions next to a sample that was left over in the      *)
(* ESP's pool when the ADC was reconfigured: record.py cannot tell where    *)
(* those end.  trusted turns FALSE when the pool overflows (the gap in the  *)
(* stream is then announced too early) or a packet arrives after one of a   *)
(* later epoch, and only the samples' order of arrival is promised.         *)
(***************************************************************************)
EXTENDS Integers, Sequences, SequencesExt

CONSTANTS
  Chans,
  Consecutive(_, _)   \* nothing was lost between two samples

VARIABLES
  stream,    \* [Chans -> the samples received]
  marks,     \* [Chans -> the gap positions]
  handed,    \* [Chans -> how many samples were handed out]
  unsure,    \* [Chans -> positions no mark is promised for]
  trusted

vars == <<stream, marks, handed, unsure, trusted>>

Init ==
  /\ stream = [c \in Chans |-> <<>>] /\ marks = [c \in Chans |-> {}]
  /\ handed = [c \in Chans |-> 0] /\ unsure = [c \in Chans |-> {}]
  /\ trusted = TRUE

(* Where a sample is followed by another than its successor. *)
Holes(s) == {k \in 1..(Len(s) - 1) : ~Consecutive(s[k], s[k + 1])}

(* Some samples more, and every hole they open, or a hole about to open at  *)
(* the end, is marked as they come.                                         *)
Extend ==
  /\ trusted
  /\ \A c \in Chans :
       LET old == stream[c]
           new == stream'[c]
           m   == marks'[c]
           u   == unsure'[c]
       IN  \/ new = old /\ m = marks[c] /\ u = unsure[c]
           \/ /\ IsPrefix(old, new)
              /\ marks[c] \subseteq m /\ unsure[c] \subseteq u
              /\ \A k \in (m \ marks[c]) \cup (u \ unsure[c]) : k >= Len(old)
              /\ m \ ({Len(new)} \cup u) = Holes(new) \ u
  /\ UNCHANGED <<handed, trusted>>

(* Everything received and not handed out yet. *)
HandOut ==
  /\ handed' = [c \in Chans |-> Len(stream[c])]
  /\ UNCHANGED <<stream, marks, unsure, trusted>>

(* Without trust samples are still only added. *)
ExtendUnmarked ==
  /\ trusted' = FALSE
  /\ \A c \in Chans : IsPrefix(stream[c], stream'[c])
  /\ UNCHANGED handed

Next == Extend \/ HandOut \/ ExtendUnmarked

Spec == Init /\ [][Next]_vars
=============================================================================
