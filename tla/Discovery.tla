------------------------------ MODULE Discovery -----------------------------
(***************************************************************************)
(* How a host finds an ESP and keeps it streaming: the HELLO timer and the  *)
(* lock on one address of Receiver.poll, wait_for_stream, and on the other  *)
(* side Wi-Fi (main/wifi.c), app_main's wait for it and the lease.  What an *)
(* ESP streams is AdcStream's subject; here it sends, or it does not.       *)
(*                                                                          *)
(* Time is counted in polls of wait_for_stream (0.2 s), as counters that    *)
(* run down, and a datagram arrives in the poll it was sent for or is lost. *)
(* Names such as Due_once are faulty forms, as in AdcStream.                *)
(***************************************************************************)
EXTENDS Integers, FiniteSets

CONSTANTS
  Esps,           \* the ESPs on the network
  AddressesOf,    \* [Esps -> sets of addresses DHCP may give them]
  NoAddr, NoEsp,  \* Python's None
  HelloPeriod,    \* 1.0 s
  Lease,          \* CLIENT_LEASE_US
  Timeout,        \* wait_for_stream's timeout
  MaxLosses,      \* bound: datagrams lost
  MaxOutages      \* bound: associations lost or refused

ASSUME DiscoveryAssumption ==
  /\ NoEsp \notin Esps
  /\ \A e \in Esps : AddressesOf[e] # {} /\ NoAddr \notin AddressesOf[e]
  /\ \A e, f \in Esps : e # f => AddressesOf[e] \cap AddressesOf[f] = {}
  /\ HelloPeriod \in Nat \ {0} /\ Lease \in Nat \ {0} /\ Timeout \in Nat \ {0}
  /\ MaxLosses \in Nat /\ MaxOutages \in Nat

VARIABLES
  link,       \* the station: "off", "trying", "dropped" (event pending), "up"
  connected,  \* CONNECTED_BIT
  running,    \* app_main is past wifi_wait_connected
  addr,       \* the ESP's address
  lease,      \* polls until the host's lease runs out
  air,        \* datagrams on their way, [esp, type]
  esp_addr,   \* the address the Receiver locked on to, or NoAddr
  info,       \* the ESP the last INFO came from, or NoEsp
  sources,    \* the ESPs whose SAMPLES were taken in
  since,      \* polls since the last HELLO, HelloPeriod at most
  left,       \* polls until wait_for_stream gives up
  listening,  \* poll is past _send_hello
  phase,      \* "waiting", "streaming" or "timeout" (the program ended)
  lost, outages,
  steady      \* history: the ESPs up and running since the host started

wifi  == <<link, connected, running, addr>>
host  == <<esp_addr, info, sources, since, left, listening, phase>>
vars  == <<wifi, lease, air, host, lost, outages, steady>>

Datagram == [esp : Esps, type : {"HELLO", "INFO", "SAMPLES"}]
D(e, type) == [esp |-> e, type |-> type]

(* The host starts at any time: the ESPs of `steady` are up already.        *)
Init ==
  /\ steady \in SUBSET Esps
  /\ link = [e \in Esps |-> IF e \in steady THEN "up" ELSE "off"]
  /\ connected = [e \in Esps |-> e \in steady]
  /\ running = [e \in Esps |-> e \in steady]
  /\ addr \in [Esps -> UNION {AddressesOf[e] : e \in Esps} \cup {NoAddr}]
  /\ \A e \in Esps : addr[e] \in IF e \in steady THEN AddressesOf[e]
                                 ELSE {NoAddr}
  /\ lease = [e \in Esps |-> 0] /\ air = {}
  /\ esp_addr = NoAddr /\ info = NoEsp /\ sources = {}
  /\ since = HelloPeriod /\ left = Timeout
  /\ listening = FALSE /\ phase = "waiting"
  /\ lost = 0 /\ outages = 0

-----------------------------------------------------------------------------
(* The ESP: wifi.c's event handler, and app_main as far as it concerns Wi-Fi*)
(* and the lease.                                                           *)

(* STA_START: connect. *)
OnStart(e) ==
  /\ link[e] = "off"
  /\ link' = [link EXCEPT ![e] = "trying"]
  /\ UNCHANGED <<connected, running, addr, lease, air, host, lost, outages,
                 steady>>

Retry_never == "idle"
(* esp_wifi_connect(), again and again. *)
Retry == "trying"

(* STA_DISCONNECTED: connect again. *)
OnDisconnected(e) ==
  /\ link[e] = "dropped"
  /\ connected' = [connected EXCEPT ![e] = FALSE]
  /\ link' = [link EXCEPT ![e] = Retry]
  /\ UNCHANGED <<running, addr, lease, air, host, lost, outages, steady>>

(* STA_GOT_IP, with an address of DHCP's choice. *)
OnGotIp(e, a) ==
  /\ link[e] = "trying"
  /\ link' = [link EXCEPT ![e] = "up"]
  /\ addr' = [addr EXCEPT ![e] = a]
  /\ connected' = [connected EXCEPT ![e] = TRUE]
  /\ UNCHANGED <<running, lease, air, host, lost, outages, steady>>

(* The access point refuses, or the association breaks; what was on its way *)
(* goes with it.                                                            *)
Drops(e) ==
  /\ link[e] \in {"trying", "up"} /\ outages < MaxOutages
  /\ link' = [link EXCEPT ![e] = "dropped"]
  /\ outages' = outages + 1
  /\ air' = {d \in air : d.esp # e}
  /\ steady' = steady \ {e}
  /\ UNCHANGED <<connected, running, addr, lease, host, lost>>

(* wifi_wait_connected returns; the socket is bound and capture starts.     *)
Starts(e) ==
  /\ connected[e] /\ ~running[e]
  /\ running' = [running EXCEPT ![e] = TRUE]
  /\ UNCHANGED <<link, connected, addr, lease, air, host, lost, outages,
                 steady>>

(* A HELLO: touch_client, and an INFO in reply.                             *)
RecvHello(e) ==
  /\ D(e, "HELLO") \in air
  /\ lease' = [lease EXCEPT ![e] = Lease]
  /\ air' = (air \ {D(e, "HELLO")}) \cup {D(e, "INFO")}
  /\ UNCHANGED <<wifi, host, lost, outages, steady>>

-----------------------------------------------------------------------------
(* The host. *)

Due_once == left = Timeout
Due_until_locked == since >= HelloPeriod /\ esp_addr = NoAddr

(* _send_hello: once a period, ... *)
Due == since >= HelloPeriod

(* ... to the ESP it locked on to, or to everybody.                         *)
Addressed == {e \in Esps : esp_addr \in {NoAddr, addr[e]}}

PollStarts ==
  /\ phase # "timeout" /\ ~listening
  /\ listening' = TRUE
  /\ IF Due
     THEN /\ since' = 0
          /\ air' = air \cup {D(e, "HELLO") : e \in
                        {f \in Addressed : running[f] /\ link[f] = "up"}}
     ELSE UNCHANGED <<since, air>>
  /\ UNCHANGED <<wifi, lease, esp_addr, info, sources, left, phase, lost,
                 outages, steady>>

Mine_any(e) == TRUE

(* poll: the first address that answers is the one it listens to.           *)
Mine(e) == esp_addr \in {NoAddr, addr[e]}

Handle(d) ==
  /\ listening /\ d \in air /\ d.type # "HELLO"
  /\ air' = air \ {d}
  /\ esp_addr' = IF esp_addr = NoAddr THEN addr[d.esp] ELSE esp_addr
  /\ info' = IF Mine(d.esp) /\ d.type = "INFO" THEN d.esp ELSE info
  /\ sources' = IF Mine(d.esp) /\ d.type = "SAMPLES"
                THEN sources \cup {d.esp} ELSE sources
  /\ UNCHANGED <<wifi, lease, since, left, listening, phase, lost, outages,
                 steady>>

Lose(d) ==
  /\ d \in air /\ lost < MaxLosses
  /\ air' = air \ {d}
  /\ lost' = lost + 1
  /\ UNCHANGED <<wifi, lease, host, outages, steady>>

(* What the ESPs send until the next poll is over: those in a lease stream, *)
(* and the ones in `reporting` have an INFO due.                            *)
Sent(reporting) ==
  {D(e, type) : e \in {f \in Esps : lease[f] > 0 /\ link[f] = "up"},
                type \in {"SAMPLES"}}
    \cup {D(e, "INFO") : e \in {f \in reporting : lease[f] > 0
                                                  /\ link[f] = "up"}}

(* poll returns.  While it waits for the stream, wait_for_stream is done    *)
(* with an INFO and a packet of samples, or gives up.                       *)
PollEnds(reporting) ==
  /\ listening /\ air = {}
  /\ listening' = FALSE
  /\ since' = IF since < HelloPeriod THEN since + 1 ELSE since
  /\ lease' = [e \in Esps |-> IF lease[e] > 0 THEN lease[e] - 1 ELSE 0]
  /\ air' = Sent(reporting)
  /\ IF phase = "waiting"
     THEN /\ left' = left - 1
          /\ phase' = IF info # NoEsp /\ sources # {} THEN "streaming"
                      ELSE IF left = 1 THEN "timeout" ELSE "waiting"
     ELSE UNCHANGED <<left, phase>>
  /\ UNCHANGED <<wifi, esp_addr, info, sources, lost, outages, steady>>

PollReturns == \E reporting \in SUBSET Esps : PollEnds(reporting)
Receives == \E e \in Esps : RecvHello(e)
Handles == \E d \in air : Handle(d)
Samples(e) == Handle(D(e, "SAMPLES"))

Next ==
  \/ \E e \in Esps : OnStart(e)
  \/ \E e \in Esps : OnDisconnected(e)
  \/ \E e \in Esps : \E a \in AddressesOf[e] : OnGotIp(e, a)
  \/ \E e \in Esps : Drops(e)
  \/ \E e \in Esps : Starts(e)
  \/ Receives
  \/ PollStarts
  \/ Handles
  \/ \E d \in air : Lose(d)
  \/ PollReturns

Spec == Init /\ [][Next]_vars

(* The host's process and each task of the ESPs keep running, a datagram    *)
(* that is not lost arrives, and the access point lets an ESP in that keeps *)
(* asking.                                                                  *)
FairSpec ==
  /\ Spec
  /\ WF_vars(PollStarts) /\ WF_vars(PollReturns)
  /\ WF_vars(Receives) /\ WF_vars(Handles)
  /\ \A e \in Esps :
       /\ WF_vars(OnStart(e)) /\ WF_vars(OnDisconnected(e))
       /\ WF_vars(Starts(e))
       /\ WF_vars(\E a \in AddressesOf[e] : OnGotIp(e, a))

-----------------------------------------------------------------------------
(* Properties *)

(* A capture carries one INFO (its calibration: record.py:236) for all its  *)
(* samples, so both must come from one ESP, also when two answer the same   *)
(* broadcast HELLO and their datagrams are interleaved.                     *)
InfoMatchesSamples ==
  /\ Cardinality(sources) <= 1
  /\ info = NoEsp \/ sources \subseteq {info}

(* An ESP the host depends on: the one it locked on to, or any at all.      *)
Depends(e) == esp_addr \in {NoAddr, addr[e]}

(* HELLOs that wait_for_stream has a whole period to see answered. *)
Hellos == Timeout \div HelloPeriod

(* "No bus_tap stream ... within 10 s" (record.py:210) is no accident of    *)
(* one lost datagram: with an ESP on Wi-Fi all along, it takes a loss for   *)
(* every such HELLO of the wait.                                            *)
TimeoutMeansLoss ==
  phase = "timeout" /\ (\E e \in steady : Depends(e)) => lost >= Hellos

(* "Keeps the ESP streaming with a HELLO once a second" (record.py:54): the *)
(* lease of the ESP the host locked on to never runs out unless as many     *)
(* datagrams were lost as HELLOs follow within a lease.                     *)
LeaseOutlivesLosses ==
  \A e \in steady :
    info = e /\ esp_addr = addr[e] /\ lease[e] = 0 =>
      lost >= (Lease - 1) \div HelloPeriod

(* A host that has its stream gets it back after every outage of Wi-Fi and  *)
(* every run of losses, without being restarted, as long as the ESP comes   *)
(* back under the address the host locked on to.                            *)
StreamResumes ==
  \A e \in Esps :
    <>[](phase = "streaming" /\ esp_addr = addr[e])
      => []<><<Samples(e)>>_vars
=============================================================================
