------------------------------- MODULE FakeEsp ------------------------------
(***************************************************************************)
(* The stand-in for the firmware, host/bustap/fake_esp.py: one loop that    *)
(* answers HELLOs and replays a capture at its own rate, dropping every     *)
(* drop_every-th datagram to imitate loss on the way.                       *)
(*                                                                          *)
(* One action is one pass of serve's loop.  A sample of the capture is its  *)
(* position; a word carries the index it is sent under, and Replayed says   *)
(* which sample of the capture that is.                                     *)
(***************************************************************************)
EXTENDS Protocol

CONSTANTS
  Client,      \* who says HELLO
  NoClient,
  names,       \* the channels of the capture
  PerChannel,  \* samples per channel (n)
  Due,         \* [instants since the stream began -> samples due by then]
  DropEvery,   \* the values of drop_every; 0: drop nothing
  Lease,       \* 5.0 s
  InfoPeriod,  \* 1.0 s
  MaxNow       \* bound: the clock

ASSUME FakeEspAssumption ==
  /\ names \in (SUBSET Channels) \ {{}}
  /\ PerChannel \in Nat \ {0}
  /\ DropEvery \subseteq Nat /\ Due \in [0..MaxNow -> Nat]
  /\ Lease \in Nat /\ InfoPeriod \in Nat /\ MaxNow \in Nat

VARIABLES
  drop_every, loop,      \* as the stand-in was started
  client, last_hello, stream_t0, sent, seq, last_info,   \* serve's locals
  serving,      \* serve has not returned
  now,
  dropped,      \* sequence numbers of the datagrams dropped
  wire          \* the datagrams sent

vars == <<drop_every, loop, client, last_hello, stream_t0, sent, seq,
          last_info, serving, now, dropped, wire>>

NONE == -1
cfg == [rate |-> 1, mask |-> names]

(* len(self.words): the channels interleaved. *)
Length == PerChannel * Cardinality(names)

(* The word sent under index k, and the sample of the capture it is.        *)
Replayed(k) == k % Length
Sent(k) ==
  [ch |-> Pattern(names)[1 + (Replayed(k) % Cardinality(names))],
   at |-> k, cfg |-> cfg, run |-> 1]

Init ==
  /\ drop_every \in DropEvery /\ loop \in BOOLEAN
  /\ client = NoClient /\ last_hello = 0 /\ stream_t0 = NONE /\ sent = 0
  /\ seq = 0 /\ last_info = 0 /\ serving = TRUE
  /\ now = 0 /\ dropped = {} /\ wire = <<>>

InfoAs(s) == [Info(Client, 1, cfg) EXCEPT !.seq = Wrap(s)]
SamplesAs(s, from) ==
  Samples(Client, Wrap(s), 1, from, cfg, 0,
          [k \in 1..PktLen |-> Sent(from + k - 1)])

Drops(s) == drop_every # 0 /\ s % drop_every = drop_every - 1

(* How many packets are due, and how many the capture still has.            *)
Packets == LET due == Due[now - stream_t0]
           IN  IF due < sent THEN 0 ELSE (due - sent) \div PktLen
Left == IF loop THEN Packets
        ELSE IF sent > Length THEN 0 ELSE (Length - sent) \div PktLen

SeqAfter_sent(s, k) ==
  s + Cardinality({i \in 0..(k - 1) : ~Drops(s + i)})

(* A dropped datagram "consumed a seq and indices, never sent".             *)
SeqAfter(s, k) == s + k

(* The while loop over what is due, from sequence number s, after infos.    *)
Stream(s, infos) ==
  LET k == IF Packets <= Left THEN Packets ELSE Left
      burst[i \in 0..k] ==
        IF i = 0 THEN wire \o infos
        ELSE IF Drops(s + (i - 1)) THEN burst[i - 1]
        ELSE Append(burst[i - 1],
                    SamplesAs(SeqAfter(s, i - 1), sent + (i - 1) * PktLen))
  IN  /\ wire' = burst[k]
      /\ dropped' = dropped \cup {n \in s..(s + k - 1) : Drops(n)}
      /\ sent' = sent + k * PktLen
      /\ seq' = SeqAfter(s, k)
      /\ serving' = (Packets <= Left)

(* A HELLO came, at most one in an instant (the Receiver sends one a        *)
(* second): it is answered, and what is due follows.                        *)
ServeHello ==
  /\ serving /\ stream_t0 # NONE /\ last_hello # now
  /\ client' = Client /\ last_hello' = now /\ last_info' = now
  /\ Stream(seq + 1, <<InfoAs(seq)>>)
  /\ UNCHANGED <<drop_every, loop, stream_t0, now>>

(* The first HELLO starts the stream's clock; nothing is due yet.           *)
ServeFirstHello ==
  /\ serving /\ stream_t0 = NONE
  /\ client' = Client /\ last_hello' = now /\ last_info' = now
  /\ stream_t0' = now
  /\ wire' = Append(wire, InfoAs(seq)) /\ seq' = seq + 1
  /\ UNCHANGED <<drop_every, loop, sent, serving, now, dropped>>

Leased == client # NoClient /\ now - last_hello <= Lease

(* No HELLO came: an INFO if it is time, and what is due.                   *)
Serve ==
  /\ serving /\ Leased
  /\ LET timely == now - last_info > InfoPeriod
     IN  /\ Stream(IF timely THEN seq + 1 ELSE seq,
                   IF timely THEN <<InfoAs(seq)>> ELSE <<>>)
         /\ last_info' = IF timely THEN now ELSE last_info
  /\ UNCHANGED <<drop_every, loop, client, last_hello, stream_t0, now>>

Tick ==
  /\ now < MaxNow /\ now' = now + 1
  /\ UNCHANGED <<drop_every, loop, client, last_hello, stream_t0, sent, seq,
                 last_info, serving, dropped, wire>>

Next == ServeHello \/ ServeFirstHello \/ Serve \/ Tick
=============================================================================
