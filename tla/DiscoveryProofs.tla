--------------------------- MODULE DiscoveryProofs --------------------------
(***************************************************************************)
(* The host's INFO and its samples come from one ESP, however many answer.  *)
(* The argument: an ESP that may send has an address, ESPs share none, and  *)
(* everything taken in came from the owner of the address locked on to.     *)
(***************************************************************************)
EXTENDS Discovery, FiniteSetTheorems, TLAPS

(* No two ESPs ever have the same address. *)
Addressing ==
  \A e \in Esps : addr[e] \in AddressesOf[e] \cup {NoAddr}

Types ==
  /\ link \in [Esps -> {"off", "trying", "dropped", "up", "idle"}]
  /\ addr \in [Esps -> UNION {AddressesOf[e] : e \in Esps} \cup {NoAddr}]
  /\ air \subseteq Datagram

(* Who may be heard has an address. *)
HasAddress(e) == addr[e] # NoAddr
SendersHaveAddress ==
  /\ \A d \in air : HasAddress(d.esp)
  /\ \A e \in Esps : link[e] = "up" => HasAddress(e)

(* What was taken in came from owner, whose address the host locked on to.  *)
ComesFrom(owner) ==
  /\ esp_addr \in AddressesOf[owner]
  /\ info \in {NoEsp, owner}
  /\ sources \subseteq {owner}

OneSource ==
  IF esp_addr = NoAddr THEN info = NoEsp /\ sources = {}
  ELSE \E owner \in Esps : ComesFrom(owner)

DiscoveryInv == Types /\ Addressing /\ SendersHaveAddress /\ OneSource

(* An address the host locked on to is its owner's alone. *)
LEMMA OwnAddress ==
  ASSUME Addressing, NEW e \in Esps, NEW owner \in Esps,
         addr[e] \in AddressesOf[owner]
  PROVE  e = owner
<1>1. addr[e] # NoAddr
  BY DiscoveryAssumption
<1>2. addr[e] \in AddressesOf[e]
  BY <1>1 DEF Addressing
<1> QED BY <1>2, DiscoveryAssumption

(* Nobody has an address, a message or a sender to begin with. *)
LEMMA InitHolds == Init => DiscoveryInv
<1> SUFFICES ASSUME Init PROVE DiscoveryInv
  OBVIOUS
<1>1. Types
  BY DEF Init, Types
<1>2. Addressing
  BY DEF Init, Addressing
<1>3. SendersHaveAddress
  <2>1. \A e \in Esps : link[e] = "up" => e \in steady
    BY DEF Init
  <2>2. \A e \in steady : e \in Esps /\ addr[e] \in AddressesOf[e]
    BY DEF Init
  <2>3. air = {}
    BY DEF Init
  <2> QED
    BY <2>1, <2>2, <2>3, DiscoveryAssumption
       DEF SendersHaveAddress, HasAddress
<1>4. OneSource
  BY DEF Init, OneSource
<1> QED BY <1>1, <1>2, <1>3, <1>4 DEF DiscoveryInv

(* What leaves the addresses and the host's record alone keeps them true. *)
LEMMA Unheard ==
  ASSUME OneSource, UNCHANGED <<esp_addr, info, sources>>
  PROVE  OneSource'
BY DEF OneSource, ComesFrom

(* The ESP's side of Wi-Fi: an address once given is only replaced. *)
LEMMA WifiStep ==
  ASSUME DiscoveryInv, NEW e \in Esps,
         \/ OnStart(e) \/ OnDisconnected(e) \/ Drops(e) \/ Starts(e)
         \/ \E a \in AddressesOf[e] : OnGotIp(e, a)
  PROVE  DiscoveryInv'
<1> USE DEF DiscoveryInv, Types
<1>1. OneSource'
  BY Unheard DEF OnStart, OnDisconnected, Drops, Starts, OnGotIp, host
<1>2. CASE OnStart(e)
  BY <1>1, <1>2 DEF OnStart, Addressing, SendersHaveAddress, HasAddress
<1>3. CASE OnDisconnected(e)
  BY <1>1, <1>3
     DEF OnDisconnected, Retry, Addressing, SendersHaveAddress, HasAddress
<1>4. CASE Drops(e)
  BY <1>1, <1>4 DEF Drops, Addressing, SendersHaveAddress, HasAddress
<1>5. CASE Starts(e)
  BY <1>1, <1>5 DEF Starts, Addressing, SendersHaveAddress, HasAddress
<1>6. ASSUME NEW a \in AddressesOf[e], OnGotIp(e, a)
      PROVE  DiscoveryInv'
  <2>1. a # NoAddr
    BY DiscoveryAssumption
  <2>2. \A f \in Esps : addr'[f] = IF f = e THEN a ELSE addr[f]
    BY <1>6 DEF OnGotIp
  <2>3. \A f \in Esps : link'[f] = IF f = e THEN "up" ELSE link[f]
    BY <1>6 DEF OnGotIp
  <2>4. air' = air
    BY <1>6 DEF OnGotIp
  <2>5. Types'
    BY <1>6 DEF OnGotIp
  <2>6. Addressing'
    BY <2>2 DEF Addressing
  <2>7. SendersHaveAddress'
    <3>1. \A d \in air : d.esp \in Esps
      BY DEF Datagram
    <3> QED BY <2>1, <2>2, <2>3, <2>4, <3>1
               DEF SendersHaveAddress, HasAddress
  <2> QED BY <1>1, <2>5, <2>6, <2>7
<1> QED BY <1>2, <1>3, <1>4, <1>5, <1>6

(* Only ESPs that are up, in a lease or asked are put on the air. *)
LEMMA AirStep ==
  ASSUME DiscoveryInv,
         \/ \E e \in Esps : RecvHello(e)
         \/ PollStarts
         \/ \E d \in air : Lose(d)
         \/ \E reporting \in SUBSET Esps : PollEnds(reporting)
  PROVE  DiscoveryInv'
<1> USE DEF DiscoveryInv
<1>1. /\ UNCHANGED <<esp_addr, info, sources>>
      /\ UNCHANGED <<link, addr>>
  BY DEF RecvHello, PollStarts, Lose, PollEnds, host, wifi
<1>2. OneSource'
  BY <1>1, Unheard
<1>3. Addressing'
  BY <1>1 DEF Addressing
<1>4. \A d \in air' : d \in Datagram /\ HasAddress(d.esp)
  <2>1. \A d \in air : d \in Datagram /\ HasAddress(d.esp)
    BY DEF Types, SendersHaveAddress
  <2>2. ASSUME NEW e \in Esps, HasAddress(e),
               NEW type \in {"HELLO", "INFO", "SAMPLES"}
        PROVE  D(e, type) \in Datagram /\ HasAddress(D(e, type).esp)
    BY <2>2 DEF D, Datagram
  <2>3. \A e \in Esps : link[e] = "up" => HasAddress(e)
    BY DEF SendersHaveAddress
  <2>4. ASSUME NEW e \in Esps, RecvHello(e)
        PROVE  \A d \in air' : d \in Datagram /\ HasAddress(d.esp)
    <3>1. HasAddress(e)
      BY <2>1, <2>4 DEF RecvHello, D
    <3>2. D(e, "INFO") \in Datagram /\ HasAddress(D(e, "INFO").esp)
      BY <2>2, <3>1
    <3> QED BY <2>1, <2>4, <3>2 DEF RecvHello
  <2>5. CASE PollStarts
    <3>1. \A d \in air' : d \in air \/
            \E e \in Esps : link[e] = "up" /\ d = D(e, "HELLO")
      BY <2>5 DEF PollStarts, Addressed
    <3> QED BY <2>1, <2>2, <2>3, <3>1
  <2>6. CASE \E d \in air : Lose(d)
    BY <2>1, <2>6 DEF Lose
  <2>7. ASSUME NEW reporting \in SUBSET Esps, PollEnds(reporting)
        PROVE  \A d \in air' : d \in Datagram /\ HasAddress(d.esp)
    <3>1. \A d \in air' : \E e \in Esps, type \in {"INFO", "SAMPLES"} :
            link[e] = "up" /\ d = D(e, type)
      BY <2>7 DEF PollEnds, Sent
    <3> QED BY <2>2, <2>3, <3>1
  <2> QED BY <2>4, <2>5, <2>6, <2>7
<1>5. Types'
  BY <1>1, <1>4 DEF Types
<1>6. SendersHaveAddress'
  BY <1>1, <1>4 DEF SendersHaveAddress, HasAddress
<1> QED BY <1>2, <1>3, <1>5, <1>6

(* The host takes in a datagram: the first one decides the owner. *)
LEMMA HandleStep ==
  ASSUME DiscoveryInv, NEW d \in air, Handle(d)
  PROVE  DiscoveryInv'
<1> USE DEF DiscoveryInv
<1>1. d.esp \in Esps /\ HasAddress(d.esp)
  BY DEF Types, SendersHaveAddress, Datagram
<1>2. addr[d.esp] \in AddressesOf[d.esp] /\ addr[d.esp] # NoAddr
  BY <1>1 DEF Addressing, HasAddress
<1>3. UNCHANGED <<link, addr>> /\ air' \subseteq air
  BY DEF Handle, wifi
<1>4. Types' /\ Addressing' /\ SendersHaveAddress'
  BY <1>3 DEF Types, Addressing, SendersHaveAddress, HasAddress
<1>5. CASE esp_addr = NoAddr
  <2>1. info = NoEsp /\ sources = {}
    BY <1>5 DEF OneSource
  <2>2. ComesFrom(d.esp)'
    BY <1>2, <1>5, <2>1 DEF Handle, ComesFrom
  <2>3. esp_addr' # NoAddr
    BY <1>2, <1>5 DEF Handle
  <2> QED BY <1>1, <1>4, <2>2, <2>3 DEF OneSource
<1>6. CASE esp_addr # NoAddr
  <2>1. PICK owner \in Esps : ComesFrom(owner)
    BY <1>6 DEF OneSource
  <2>2. esp_addr' = esp_addr
    BY <1>6 DEF Handle
  <2>3. Mine(d.esp) => d.esp = owner
    BY <1>1, <1>6, <2>1, OwnAddress DEF Mine, ComesFrom
  <2>4. info' \in {NoEsp, owner} /\ sources' \subseteq {owner}
    BY <2>1, <2>3 DEF Handle, ComesFrom
  <2> QED BY <1>4, <1>6, <2>1, <2>2, <2>4 DEF OneSource, ComesFrom
<1> QED BY <1>5, <1>6

(* So every step keeps what the addresses and senders rest on. *)
LEMMA DiscoveryStep == DiscoveryInv /\ [Next]_vars => DiscoveryInv'
<1> SUFFICES ASSUME DiscoveryInv, [Next]_vars PROVE DiscoveryInv'
  OBVIOUS
<1>1. CASE UNCHANGED vars
  BY <1>1
     DEF vars, wifi, host, DiscoveryInv, Types, Addressing, OneSource,
         ComesFrom, SendersHaveAddress, HasAddress
<1> QED
  BY <1>1, WifiStep, AirStep, HandleStep
     DEF Next, Receives, Handles, PollReturns

(* However the answers of several ESPs to one broadcast HELLO are           *)
(* interleaved, lost and followed by outages and new addresses, the INFO    *)
(* and every packet of samples the receiver takes in come from one and the  *)
(* same ESP (record.py:122-131).                                            *)
THEOREM OneEspIsHeard == Spec => []InfoMatchesSamples
<1>1. DiscoveryInv => InfoMatchesSamples
  <2> SUFFICES ASSUME OneSource PROVE InfoMatchesSamples
    BY DEF DiscoveryInv
  <2>1. PICK owner : sources \subseteq {owner} /\ info \in {NoEsp, owner}
    BY DEF OneSource, ComesFrom
  <2>2. IsFiniteSet({owner}) /\ Cardinality({owner}) = 1
    BY FS_Singleton
  <2>3. Cardinality(sources) <= Cardinality({owner})
    BY <2>1, <2>2, FS_Subset
  <2> QED BY <2>1, <2>2, <2>3 DEF InfoMatchesSamples
<1> QED BY <1>1, InitHolds, DiscoveryStep, PTL DEF Spec
-----------------------------------------------------------------------------
(* How long the host waits, and what it takes to make it wait in vain.      *)
(* Every HELLO that is not followed by what the host waits for has cost a   *)
(* loss, and losses are paid for in polls: one for a HELLO's period.        *)

Paid == lost * HelloPeriod
Elapsed == Timeout - left

SteadyIsUp ==
  /\ steady \subseteq Esps
  /\ \A e \in steady : link[e] = "up" /\ running[e]

Clocks ==
  /\ since \in 0..HelloPeriod /\ lost \in Nat /\ left \in 0..Timeout
  /\ lease \in [Esps -> Nat] /\ listening \in BOOLEAN
  /\ phase \in {"waiting", "streaming", "timeout"}
  /\ phase = "waiting" => left # 0
  /\ phase = "timeout" => ~listening
  /\ listening => since < HelloPeriod
  /\ \A d \in air : d.type = "HELLO" => listening /\ since = 0

(* A HELLO to e is on its way. *)
Asked(e) == D(e, "HELLO") \in air

(* e was asked once, and the host did or will hear of it. *)
Contacted(e) == lease[e] > 0 \/ info = e \/ D(e, "INFO") \in air

(* A lease is as old as the HELLOs lost since it was granted and the polls  *)
(* since the last HELLO allow.                                              *)
LeaseInv ==
  \A e \in steady : Depends(e) /\ Contacted(e) =>
    Lease - lease[e] <= Paid + since + (IF Asked(e) THEN HelloPeriod ELSE 0)

(* All the waiting so far, and the rest of this period, was paid for.       *)
Settled == Elapsed + (HelloPeriod - since) <= Paid

(* Nothing of the answer to this period's HELLO was lost so far.            *)
Answering(e) ==
  \/ since = 0 /\ listening /\ Asked(e)
  \/ since = 0 /\ listening /\ lease[e] > 0
       /\ (info # NoEsp \/ D(e, "INFO") \in air)
  \/ since = 1 /\ info # NoEsp /\ (sources # {} \/ D(e, "SAMPLES") \in air)

WaitInv ==
  \A e \in steady : Depends(e) =>
    /\ phase = "waiting" => Settled \/ (Elapsed - since <= Paid /\ Answering(e))
    /\ phase = "timeout" => Timeout <= Paid + 1

TimingInv == DiscoveryInv /\ SteadyIsUp /\ Clocks

(* A loss more pays for a period more. *)
LEMMA LossPays ==
  ASSUME Clocks
  PROVE  /\ Paid \in Nat
         /\ lost' = lost => Paid' = Paid
         /\ lost' = lost + 1 => Paid' = Paid + HelloPeriod
<1>1. lost \in Nat /\ HelloPeriod \in Nat
  BY DiscoveryAssumption DEF Clocks
<1>2. lost * HelloPeriod \in Nat
  BY <1>1
<1>3. (lost + 1) * HelloPeriod = lost * HelloPeriod + HelloPeriod
  BY <1>1
<1> QED BY <1>2, <1>3 DEF Paid

(* Datagrams differ by their ESP and their type. *)
LEMMA DatagramIs ==
  ASSUME NEW e, NEW t, NEW f, NEW u
  PROVE  D(e, t) = D(f, u) <=> e = f /\ t = u
<1>1. D(e, t).esp = e /\ D(e, t).type = t /\ D(f, u).esp = f
      /\ D(f, u).type = u
  BY DEF D
<1> QED BY <1>1 DEF D

(* What Wi-Fi does to one ESP does not touch a steady one. *)
LEMMA WifiLeavesSteady ==
  ASSUME TimingInv, NEW e \in Esps,
         \/ OnStart(e) \/ OnDisconnected(e) \/ Drops(e) \/ Starts(e)
         \/ \E a \in AddressesOf[e] : OnGotIp(e, a)
  PROVE  /\ steady' \subseteq steady
         /\ UNCHANGED <<lease, host, lost>> /\ air' \subseteq air
         /\ \A f \in steady' :
              /\ addr'[f] = addr[f] /\ link'[f] = "up" /\ running'[f]
              /\ \A t : D(f, t) \in air' <=> D(f, t) \in air
<1> USE DEF TimingInv, SteadyIsUp, DiscoveryInv, Types
<1>1. CASE OnStart(e)
  BY <1>1 DEF OnStart
<1>2. CASE OnDisconnected(e)
  BY <1>2 DEF OnDisconnected
<1>3. CASE Drops(e)
  <2>1. steady' = steady \ {e} /\ air' = {d \in air : d.esp # e}
        /\ UNCHANGED <<lease, host, lost, running, addr>>
        /\ link' = [link EXCEPT ![e] = "dropped"]
    BY <1>3 DEF Drops
  <2>2. \A f, t : D(f, t).esp = f
    BY DEF D
  <2> QED BY <2>1, <2>2
<1>4. CASE Starts(e)
  <2>1. UNCHANGED <<lease, host, lost, link, addr, air, steady>>
        /\ running' = [running EXCEPT ![e] = TRUE]
        /\ ~running[e]
    BY <1>4 DEF Starts
  <2> QED BY <2>1
<1>5. ASSUME NEW a \in AddressesOf[e], OnGotIp(e, a)
      PROVE  /\ UNCHANGED <<lease, host, lost, running, air, steady>>
             /\ \A f \in steady' : addr'[f] = addr[f] /\ link'[f] = "up"
  BY <1>5 DEF OnGotIp
<1> QED BY <1>1, <1>2, <1>3, <1>4, <1>5

(* The clocks and the steady ESPs, at every step. *)
LEMMA ClocksStep ==
  ASSUME TimingInv, [Next]_vars
  PROVE  SteadyIsUp' /\ Clocks'
<1> USE DEF TimingInv
<1>1. HelloPeriod \in Nat \ {0} /\ Lease \in Nat \ {0} /\ Timeout \in Nat \ {0}
  BY DiscoveryAssumption
<1>2. ASSUME NEW e \in Esps,
             \/ OnStart(e) \/ OnDisconnected(e) \/ Drops(e) \/ Starts(e)
             \/ \E a \in AddressesOf[e] : OnGotIp(e, a)
      PROVE  SteadyIsUp' /\ Clocks'
  <2>1. /\ steady' \subseteq steady
        /\ UNCHANGED <<lease, host, lost>> /\ air' \subseteq air
        /\ \A f \in steady' : link'[f] = "up" /\ running'[f]
    BY <1>2, WifiLeavesSteady
  <2> QED BY <2>1 DEF SteadyIsUp, Clocks, host
<1>3. ASSUME UNCHANGED <<steady, wifi>> PROVE SteadyIsUp'
  BY <1>3 DEF SteadyIsUp, wifi
<1>4. ASSUME NEW e \in Esps, RecvHello(e) PROVE SteadyIsUp' /\ Clocks'
  <2>1. /\ lease' = [lease EXCEPT ![e] = Lease]
        /\ UNCHANGED <<host, lost, steady, wifi>>
        /\ \A d \in air' : d \in air \/ d = D(e, "INFO")
    BY <1>4 DEF RecvHello
  <2>2. \A d \in air' : d.type = "HELLO" => d \in air
    <3>1. D(e, "INFO").type = "INFO"
      BY DEF D
    <3> QED BY <2>1, <3>1
  <2>3. lease' \in [Esps -> Nat]
    BY <1>1, <2>1 DEF Clocks
  <2> QED BY <1>3, <2>1, <2>2, <2>3 DEF Clocks, host
<1>5. CASE PollStarts
  <2>1. /\ phase # "timeout" /\ ~listening /\ listening' = TRUE
        /\ UNCHANGED <<wifi, lease, left, phase, lost, steady>>
    BY <1>5 DEF PollStarts
  <2>2. \A d \in air : d.type # "HELLO"
    BY <2>1 DEF Clocks
  <2>3. CASE Due
    <3>1. since' = 0
      BY <1>5, <2>3 DEF PollStarts
    <3> QED BY <1>1, <1>3, <2>1, <3>1 DEF Clocks
  <2>4. CASE ~Due
    <3>1. since' = since /\ air' = air /\ since < HelloPeriod
      BY <1>1, <1>5, <2>4 DEF PollStarts, Due, Clocks
    <3> QED BY <1>3, <2>1, <2>2, <3>1 DEF Clocks
  <2> QED BY <2>3, <2>4
<1>6. ASSUME NEW d \in air, Handle(d) PROVE SteadyIsUp' /\ Clocks'
  <2>1. /\ air' \subseteq air
        /\ UNCHANGED <<wifi, lease, since, left, listening, phase, lost, steady>>
    BY <1>6 DEF Handle
  <2> QED BY <1>3, <2>1 DEF Clocks
<1>7. ASSUME NEW d \in air, Lose(d) PROVE SteadyIsUp' /\ Clocks'
  <2>1. /\ air' \subseteq air /\ lost' = lost + 1
        /\ UNCHANGED <<wifi, lease, host, steady>>
    BY <1>7 DEF Lose
  <2> QED BY <1>3, <2>1 DEF Clocks, host
<1>8. ASSUME NEW reporting \in SUBSET Esps, PollEnds(reporting)
      PROVE  SteadyIsUp' /\ Clocks'
  <2>1. /\ listening /\ listening' = FALSE /\ since' = since + 1
        /\ lease' = [e \in Esps |-> IF lease[e] > 0 THEN lease[e] - 1 ELSE 0]
        /\ UNCHANGED <<wifi, lost, steady>> /\ since \in 0..HelloPeriod
        /\ since < HelloPeriod
    BY <1>8 DEF PollEnds, Clocks
  <2>2. \A d \in air' : d.type # "HELLO"
    <3>1. \A d \in air' : \E e \in Esps, type \in {"INFO", "SAMPLES"} :
            d = D(e, type)
      BY <1>8 DEF PollEnds, Sent
    <3> QED BY <3>1 DEF D
  <2>3. lease' \in [Esps -> Nat]
    BY <2>1 DEF Clocks
  <2>4. SteadyIsUp' /\ since' \in 0..HelloPeriod /\ lost' \in Nat
        /\ ~listening' /\ listening' \in BOOLEAN
    <3>1. SteadyIsUp'
      BY <1>3, <2>1
    <3>2. since + 1 \in 0..HelloPeriod /\ lost \in Nat
      BY <1>1, <2>1 DEF Clocks
    <3> QED BY <2>1, <3>1, <3>2
  <2>5. /\ left' \in 0..Timeout
        /\ phase' \in {"waiting", "streaming", "timeout"}
        /\ phase' = "waiting" => left' # 0
    <3>1. CASE phase = "waiting"
      <4>1. /\ left' = left - 1 /\ left \in 1..Timeout
            /\ phase' = IF info # NoEsp /\ sources # {} THEN "streaming"
                        ELSE IF left = 1 THEN "timeout" ELSE "waiting"
        BY <1>1, <1>8, <3>1 DEF PollEnds, Clocks
      <4> QED BY <1>1, <4>1
    <3>2. CASE phase # "waiting"
      <4>1. left' = left /\ phase' = phase
        BY <1>8, <3>2 DEF PollEnds
      <4> QED BY <3>2, <4>1 DEF Clocks
    <3> QED BY <3>1, <3>2
  <2> QED BY <2>2, <2>3, <2>4, <2>5 DEF Clocks
<1>9. CASE UNCHANGED vars
  BY <1>9 DEF vars, wifi, host, SteadyIsUp, Clocks
<1> QED
  BY <1>2, <1>4, <1>5, <1>6, <1>7, <1>8, <1>9
  DEF Next, Receives, Handles, PollReturns

(* A lease stays as young as the losses allow. *)
LEMMA LeaseStep ==
  ASSUME TimingInv, LeaseInv, [Next]_vars
  PROVE  LeaseInv'
<1> USE DEF TimingInv
<1>1. HelloPeriod \in Nat \ {0} /\ Lease \in Nat \ {0} /\ Paid \in Nat
      /\ since \in 0..HelloPeriod /\ lease \in [Esps -> Nat]
      /\ steady \subseteq Esps
  BY DiscoveryAssumption, LossPays DEF Clocks, SteadyIsUp
<1>2. \A e \in steady : Depends(e) /\ Contacted(e) =>
        Lease - lease[e]
          <= Paid + since + (IF Asked(e) THEN HelloPeriod ELSE 0)
  BY DEF LeaseInv
<1>3. ASSUME steady' \subseteq steady, UNCHANGED <<lease, since, lost>>,
             \A e \in steady' :
               /\ Depends(e)' => Depends(e)
               /\ Contacted(e)' => Contacted(e)
               /\ Asked(e)' <=> Asked(e)
      PROVE  LeaseInv'
  <2>1. Paid' = Paid
    BY <1>3, LossPays
  <2> QED BY <1>2, <1>3, <2>1 DEF LeaseInv
<1>4. ASSUME NEW e \in Esps,
             \/ OnStart(e) \/ OnDisconnected(e) \/ Drops(e) \/ Starts(e)
             \/ \E a \in AddressesOf[e] : OnGotIp(e, a)
      PROVE  LeaseInv'
  <2>1. /\ steady' \subseteq steady /\ UNCHANGED <<lease, host, lost>>
        /\ \A f \in steady' :
             /\ addr'[f] = addr[f]
             /\ \A t : D(f, t) \in air' <=> D(f, t) \in air
    BY <1>4, WifiLeavesSteady
  <2> QED BY <1>3, <2>1 DEF host, Depends, Contacted, Asked
<1>5. ASSUME NEW e \in Esps, RecvHello(e) PROVE LeaseInv'
  <2>1. /\ lease' = [lease EXCEPT ![e] = Lease]
        /\ UNCHANGED <<host, lost, steady, wifi>>
        /\ air' = (air \ {D(e, "HELLO")}) \cup {D(e, "INFO")}
    BY <1>5 DEF RecvHello
  <2>2. Paid' = Paid /\ since' = since
    BY <2>1, LossPays DEF host
  <2>3. ASSUME NEW f \in steady, f # e
        PROVE  /\ lease'[f] = lease[f] /\ (Depends(f)' => Depends(f))
               /\ Contacted(f)' => Contacted(f)
               /\ Asked(f)' <=> Asked(f)
    <3>1. \A t : D(f, t) \in air' <=> D(f, t) \in air
      BY <2>1, <2>3, DatagramIs
    <3> QED BY <1>1, <2>1, <2>3, <3>1
            DEF host, wifi, Depends, Contacted, Asked
  <2>4. e \in steady => Lease - lease'[e] = 0
    BY <1>1, <2>1
  <2>5. 0 <= Paid + since + HelloPeriod /\ 0 <= Paid + since + 0
    BY <1>1
  <2> QED BY <1>1, <1>2, <2>1, <2>2, <2>3, <2>4, <2>5 DEF LeaseInv
<1>6. CASE PollStarts
  <2>1. /\ ~listening /\ UNCHANGED <<wifi, lease, lost, steady>>
        /\ UNCHANGED <<esp_addr, info>>
    BY <1>6 DEF PollStarts
  <2>2. \A e \in steady : ~Asked(e)
    <3>1. \A e : D(e, "HELLO").type = "HELLO"
      BY DEF D
    <3> QED BY <2>1, <3>1 DEF Clocks, Asked
  <2>3. CASE ~Due
    <3>1. since' = since /\ air' = air
      BY <1>6, <2>3 DEF PollStarts
    <3> QED BY <1>3, <2>1, <3>1 DEF wifi, Depends, Contacted, Asked
  <2>4. CASE Due
    <3>1. since' = 0 /\ since = HelloPeriod /\ Paid' = Paid
      BY <1>1, <1>6, <2>1, <2>4, LossPays DEF PollStarts, Due
    <3>2. air' = air \cup {D(e, "HELLO") : e \in
                       {f \in Addressed : running[f] /\ link[f] = "up"}}
      BY <1>6, <2>4 DEF PollStarts
    <3>3. ASSUME NEW e \in steady, Depends(e)', Contacted(e)'
          PROVE  Depends(e) /\ Contacted(e) /\ Asked(e)'
      <4>1. Depends(e)
        BY <2>1, <3>3 DEF Depends, wifi
      <4>2. e \in Addressed /\ running[e] /\ link[e] = "up"
        BY <1>1, <4>1 DEF Depends, Addressed, SteadyIsUp
      <4>3. Asked(e)'
        BY <3>2, <4>2 DEF Asked
      <4>4. D(e, "INFO") \in air' => D(e, "INFO") \in air
        BY <3>2, DatagramIs
      <4> QED BY <2>1, <3>3, <4>1, <4>3, <4>4 DEF Contacted
    <3>4. ASSUME NEW e \in steady, Depends(e)', Contacted(e)'
          PROVE  Lease - lease[e] <= Paid + 0 + HelloPeriod
      <4>1. Lease - lease[e] <= Paid + since + 0
        BY <1>2, <2>2, <3>3, <3>4
      <4>2. lease[e] \in Nat
        BY <1>1
      <4> QED BY <1>1, <3>1, <4>1, <4>2
    <3> QED BY <2>1, <3>1, <3>3, <3>4 DEF LeaseInv
  <2> QED BY <2>3, <2>4
<1>7. ASSUME NEW d \in air, Handle(d) PROVE LeaseInv'
  <2>1. /\ air' = air \ {d} /\ d.type # "HELLO"
        /\ UNCHANGED <<wifi, lease, since, lost, steady>>
        /\ esp_addr' = IF esp_addr = NoAddr THEN addr[d.esp] ELSE esp_addr
        /\ info' = IF Mine(d.esp) /\ d.type = "INFO" THEN d.esp ELSE info
    BY <1>7 DEF Handle
  <2>2. ASSUME NEW e \in steady
        PROVE  /\ Depends(e)' => Depends(e)
               /\ Contacted(e)' => Contacted(e)
               /\ Asked(e)' <=> Asked(e)
    <3>1. Depends(e)' => Depends(e)
      BY <2>1 DEF Depends, wifi
    <3>2. Asked(e)' <=> Asked(e)
      <4>1. D(e, "HELLO").type = "HELLO"
        BY DEF D
      <4> QED BY <2>1, <4>1 DEF Asked
    <3>3. info' = e => info = e \/ D(e, "INFO") \in air
      <4>1. d.type = "INFO" => d = D(d.esp, "INFO")
        BY DEF DiscoveryInv, Types, Datagram, D
      <4> QED BY <2>1, <4>1
    <3> QED BY <2>1, <3>1, <3>2, <3>3 DEF Contacted
  <2> QED BY <1>3, <2>1, <2>2
<1>8. ASSUME NEW d \in air, Lose(d) PROVE LeaseInv'
  <2>1. /\ air' = air \ {d} /\ lost' = lost + 1
        /\ UNCHANGED <<wifi, lease, host, steady>>
    BY <1>8 DEF Lose
  <2>2. Paid' = Paid + HelloPeriod /\ since' = since
    BY <2>1, LossPays DEF host
  <2>3. ASSUME NEW e \in steady, Depends(e)', Contacted(e)'
        PROVE  Lease - lease[e] <= Paid + HelloPeriod + since
    <3>1. Depends(e) /\ Contacted(e)
      BY <2>1, <2>3 DEF host, wifi, Depends, Contacted
    <3>2. lease[e] \in Nat
      BY <1>1
    <3>3. Lease - lease[e] <= Paid + since + HelloPeriod
          \/ Lease - lease[e] <= Paid + since + 0
      BY <1>2, <3>1
    <3> QED BY <1>1, <3>2, <3>3
  <2>4. \A e \in steady : lease[e] \in Nat
    BY <1>1
  <2>5. ASSUME NEW e \in steady', Depends(e)', Contacted(e)'
        PROVE  Lease - lease'[e]
                 <= Paid' + since' + (IF Asked(e)' THEN HelloPeriod ELSE 0)
    <3>1. e \in steady /\ lease'[e] = lease[e]
      BY <2>1
    <3>2. Lease - lease[e] <= Paid + HelloPeriod + since
      BY <2>3, <2>5, <3>1
    <3>3. Lease - lease[e] <= Paid + HelloPeriod + since + 0
          /\ Lease - lease[e] <= Paid + HelloPeriod + since + HelloPeriod
      BY <1>1, <2>4, <3>1, <3>2
    <3> QED BY <2>2, <3>1, <3>3
  <2> QED BY <2>5 DEF LeaseInv
<1>9. ASSUME NEW reporting \in SUBSET Esps, PollEnds(reporting)
      PROVE  LeaseInv'
  <2>1. /\ air = {} /\ since' = since + 1
        /\ lease' = [e \in Esps |-> IF lease[e] > 0 THEN lease[e] - 1 ELSE 0]
        /\ UNCHANGED <<wifi, esp_addr, info, lost, steady>>
        /\ air' = Sent(reporting)
    BY <1>9 DEF PollEnds, Clocks
  <2>2. Paid' = Paid
    BY <2>1, LossPays
  <2>3. ASSUME NEW e \in steady, Depends(e)', Contacted(e)'
        PROVE  Depends(e) /\ Contacted(e) /\ ~Asked(e) /\ ~Asked(e)'
    <3>1. Depends(e) /\ ~Asked(e)
      BY <2>1, <2>3 DEF Depends, wifi, Asked
    <3>2. D(e, "INFO") \in air' => lease[e] > 0
      BY <2>1, DatagramIs DEF Sent
    <3>3. ~Asked(e)'
      BY <2>1, DatagramIs DEF Sent, Asked
    <3>4. lease'[e] > 0 => lease[e] > 0
      BY <1>1, <2>1
    <3> QED BY <2>1, <2>3, <3>1, <3>2, <3>3, <3>4 DEF Contacted
  <2>4. ASSUME NEW e \in steady', Depends(e)', Contacted(e)'
        PROVE  Lease - lease'[e]
                 <= Paid' + since' + (IF Asked(e)' THEN HelloPeriod ELSE 0)
    <3>1. e \in steady /\ e \in Esps /\ lease[e] \in Nat
      BY <1>1, <2>1
    <3>2. Lease - lease[e] <= Paid + since + 0 /\ ~Asked(e)'
      BY <1>2, <2>3, <2>4, <3>1
    <3>3. lease'[e] \in Nat /\ lease[e] - 1 <= lease'[e]
      BY <2>1, <3>1
    <3>4. Lease - lease'[e] <= Paid + (since + 1) + 0
      BY <1>1, <3>1, <3>2, <3>3
    <3> QED BY <2>1, <2>2, <3>2, <3>4
  <2> QED BY <2>4 DEF LeaseInv
<1>10. CASE UNCHANGED vars
  BY <1>3, <1>10 DEF vars, wifi, host, Depends, Contacted, Asked
<1> QED
  BY <1>4, <1>5, <1>6, <1>7, <1>8, <1>9, <1>10
  DEF Next, Receives, Handles, PollReturns

(* Waiting is paid for with losses: a period in which nothing of e's answer *)
(* is lost ends in its second poll, with the stream there.                  *)
LEMMA WaitStep ==
  ASSUME HelloPeriod >= 2, TimingInv, WaitInv, [Next]_vars
  PROVE  WaitInv'
<1> USE DEF TimingInv
<1> DEFINE Owing == Elapsed - since <= Paid
<1>1. HelloPeriod \in Nat /\ Timeout \in Nat /\ Paid \in Nat
      /\ since \in 0..HelloPeriod /\ lease \in [Esps -> Nat]
      /\ left \in 0..Timeout /\ Elapsed \in Int /\ steady \subseteq Esps
  BY DiscoveryAssumption, LossPays DEF Clocks, SteadyIsUp, Elapsed
<1>2. \A e \in steady : Depends(e) =>
        /\ phase = "waiting" => Settled \/ (Owing /\ Answering(e))
        /\ phase = "timeout" => Timeout <= Paid + 1
  BY DEF WaitInv
<1>3. ASSUME steady' \subseteq steady,
             UNCHANGED <<since, lost, left, phase>>,
             \A e \in steady' :
               /\ Depends(e)' => Depends(e)
               /\ Depends(e)' /\ Answering(e) => Answering(e)'
      PROVE  WaitInv'
  <2>1. Paid' = Paid /\ (Settled' <=> Settled) /\ (Owing' <=> Owing)
    BY <1>3, LossPays DEF Settled, Elapsed
  <2> QED BY <1>2, <1>3, <2>1 DEF WaitInv
<1>4. ASSUME NEW e \in Esps,
             \/ OnStart(e) \/ OnDisconnected(e) \/ Drops(e) \/ Starts(e)
             \/ \E a \in AddressesOf[e] : OnGotIp(e, a)
      PROVE  WaitInv'
  <2>1. /\ steady' \subseteq steady /\ UNCHANGED <<lease, host, lost>>
        /\ \A f \in steady' :
             /\ addr'[f] = addr[f]
             /\ \A t : D(f, t) \in air' <=> D(f, t) \in air
    BY <1>4, WifiLeavesSteady
  <2> QED BY <1>3, <2>1 DEF host, Depends, Answering, Asked
<1>5. ASSUME NEW e \in Esps, RecvHello(e) PROVE WaitInv'
  <2>1. /\ lease' = [lease EXCEPT ![e] = Lease]
        /\ UNCHANGED <<host, lost, steady, wifi>>
        /\ air' = (air \ {D(e, "HELLO")}) \cup {D(e, "INFO")}
        /\ Lease > 0
    BY <1>5, DiscoveryAssumption DEF RecvHello
  <2>2. ASSUME NEW f \in steady, Answering(f)
        PROVE  Answering(f)'
    <3>1. CASE f = e
      <4>1. lease'[f] > 0 /\ D(f, "INFO") \in air'
        BY <1>1, <2>1, <3>1
      <4>2. D(f, "SAMPLES") \in air => D(f, "SAMPLES") \in air'
        BY <2>1, DatagramIs
      <4> QED BY <2>1, <2>2, <4>1, <4>2 DEF Answering, host
    <3>2. CASE f # e
      <4>1. lease'[f] = lease[f]
        BY <1>1, <2>1, <3>2
      <4>2. \A t : D(f, t) \in air => D(f, t) \in air'
        BY <2>1, <3>2, DatagramIs
      <4> QED BY <2>1, <2>2, <4>1, <4>2 DEF Answering, Asked, host
    <3> QED BY <3>1, <3>2
  <2> QED BY <1>3, <2>1, <2>2 DEF host, wifi, Depends
<1>6. CASE PollStarts
  <2>1. /\ ~listening /\ listening' = TRUE /\ phase # "timeout"
        /\ UNCHANGED <<wifi, lease, left, phase, lost, steady>>
        /\ UNCHANGED <<esp_addr, info, sources>>
    BY <1>6 DEF PollStarts
  <2>2. \A e : Depends(e)' <=> Depends(e)
    BY <2>1 DEF Depends, wifi
  <2>3. CASE ~Due
    <3>1. since' = since /\ air' = air
      BY <1>6, <2>3 DEF PollStarts
    <3>2. \A e : Answering(e) => Answering(e)'
      BY <2>1, <3>1 DEF Answering, Asked
    <3> QED BY <1>3, <2>1, <2>2, <3>1, <3>2
  <2>4. CASE Due
    <3>1. since' = 0 /\ since = HelloPeriod /\ Paid' = Paid
      BY <1>1, <1>6, <2>1, <2>4, LossPays DEF PollStarts, Due
    <3>2. air' = air \cup {D(e, "HELLO") : e \in
                       {f \in Addressed : running[f] /\ link[f] = "up"}}
      BY <1>6, <2>4 DEF PollStarts
    <3>3. ASSUME NEW e \in steady, Depends(e)
          PROVE  Answering(e)'
      <4>1. e \in Addressed /\ running[e] /\ link[e] = "up"
        BY <1>1, <3>3 DEF Depends, Addressed, SteadyIsUp
      <4> QED BY <2>1, <3>1, <3>2, <4>1 DEF Answering, Asked
    <3>4. ASSUME NEW e \in steady, Depends(e), phase = "waiting"
          PROVE  Owing'
      <4>1. ~Answering(e)
        BY <1>1, <2>1, <3>1 DEF Answering
      <4>2. Settled
        BY <1>2, <3>4, <4>1
      <4>3. Elapsed <= Paid /\ Elapsed' = Elapsed
        BY <1>1, <2>1, <3>1, <4>2 DEF Settled, Elapsed
      <4> QED BY <1>1, <3>1, <4>3
    <3> QED BY <2>1, <2>2, <3>3, <3>4 DEF WaitInv
  <2> QED BY <2>3, <2>4
<1>7. ASSUME NEW d \in air, Handle(d) PROVE WaitInv'
  <2>1. /\ air' = air \ {d} /\ d.type # "HELLO"
        /\ UNCHANGED <<wifi, lease, since, left, listening, phase, lost,
                       steady>>
        /\ esp_addr' = IF esp_addr = NoAddr THEN addr[d.esp] ELSE esp_addr
        /\ info' = IF Mine(d.esp) /\ d.type = "INFO" THEN d.esp ELSE info
        /\ sources' = IF Mine(d.esp) /\ d.type = "SAMPLES"
                      THEN sources \cup {d.esp} ELSE sources
    BY <1>7 DEF Handle
  <2>2. d.esp \in Esps /\ d.esp # NoEsp
    BY DiscoveryAssumption DEF DiscoveryInv, Types, Datagram
  <2>3. (info # NoEsp => info' # NoEsp) /\ (sources # {} => sources' # {})
    BY <2>1, <2>2
  <2>4. ASSUME NEW e \in steady
        PROVE  Depends(e)' => Depends(e)
    BY <2>1 DEF Depends, wifi
  <2>5. ASSUME NEW e \in steady, Depends(e)', Answering(e)
        PROVE  Answering(e)'
    <3>1. Mine(e)
      BY <2>4, <2>5 DEF Mine, Depends
    <3>2. \A t : D(e, t).type = t /\ D(e, t).esp = e
      BY DEF D
    <3>3. Asked(e) => Asked(e)'
      BY <2>1, <3>2 DEF Asked
    <3>4. D(e, "INFO") \in air => D(e, "INFO") \in air' \/ info' # NoEsp
      <4>1. CASE d = D(e, "INFO")
        BY <2>1, <2>2, <3>1, <3>2, <4>1
      <4>2. CASE d # D(e, "INFO")
        BY <2>1, <4>2
      <4> QED BY <4>1, <4>2
    <3>5. D(e, "SAMPLES") \in air => D(e, "SAMPLES") \in air' \/ sources' # {}
      <4>1. CASE d = D(e, "SAMPLES")
        BY <2>1, <3>1, <3>2, <4>1
      <4>2. CASE d # D(e, "SAMPLES")
        BY <2>1, <4>2
      <4> QED BY <4>1, <4>2
    <3> QED BY <2>1, <2>3, <2>5, <3>3, <3>4, <3>5 DEF Answering
  <2> QED BY <1>3, <2>1, <2>4, <2>5
<1>8. ASSUME NEW d \in air, Lose(d) PROVE WaitInv'
  <2>1. /\ lost' = lost + 1 /\ UNCHANGED <<wifi, lease, host, steady>>
    BY <1>8 DEF Lose
  <2>2. Paid' = Paid + HelloPeriod
    BY <2>1, LossPays
  <2>3. Settled \/ Owing => Settled'
    BY <1>1, <2>1, <2>2 DEF Settled, Elapsed, host
  <2>4. Timeout <= Paid + 1 => Timeout <= Paid' + 1
    BY <1>1, <2>2
  <2>5. \A e : Depends(e)' => Depends(e)
    BY <2>1 DEF Depends, host, wifi
  <2> QED BY <1>2, <2>1, <2>3, <2>4, <2>5 DEF WaitInv, host
<1>9. ASSUME NEW reporting \in SUBSET Esps, PollEnds(reporting)
      PROVE  WaitInv'
  <2>1. /\ listening /\ air = {} /\ air' = Sent(reporting)
        /\ since' = since + 1 /\ since < HelloPeriod
        /\ UNCHANGED <<wifi, esp_addr, info, sources, lost, steady>>
    BY <1>9 DEF PollEnds, Clocks
  <2>2. Paid' = Paid /\ phase # "timeout"
    BY <2>1, LossPays DEF Clocks
  <2>3. CASE phase # "waiting"
    BY <1>9, <2>2, <2>3 DEF PollEnds, WaitInv
  <2>4. CASE phase = "waiting"
    <3>1. /\ left' = left - 1 /\ left \in 1..Timeout
          /\ phase' = IF info # NoEsp /\ sources # {} THEN "streaming"
                      ELSE IF left = 1 THEN "timeout" ELSE "waiting"
      BY <1>1, <1>9, <2>4 DEF PollEnds, Clocks
    <3> SUFFICES ASSUME NEW e \in steady, Depends(e)', phase' # "streaming"
                 PROVE  /\ Settled' \/ (Owing' /\ Answering(e)')
                        /\ left' = 0 => Timeout <= Paid' + 1
      BY <2>1, <3>1 DEF WaitInv
    <3>2. Depends(e) /\ (info = NoEsp \/ sources = {})
      BY <2>1, <3>1 DEF Depends, wifi
    <3>3. Elapsed' = Elapsed + 1 /\ (left' = 0 => Elapsed' = Timeout)
      BY <1>1, <3>1 DEF Elapsed
    <3>4. CASE Settled
      <4>1. Settled'
        BY <1>1, <2>1, <2>2, <3>3, <3>4 DEF Settled
      <4>2. left' = 0 => Timeout <= Paid' + 1
        <5>1. Elapsed + 1 <= Paid + 1
          BY <1>1, <3>4 DEF Settled
        <5> QED BY <2>2, <3>3, <5>1
      <4> QED BY <4>1, <4>2
    <3>5. CASE ~Settled
      <4>1. Owing /\ Answering(e)
        BY <1>2, <2>4, <3>2, <3>5
      <4>2. since = 0 /\ lease[e] > 0 /\ info # NoEsp
        BY <2>1, <3>2, <4>1 DEF Answering, Asked
      <4>3. D(e, "SAMPLES") \in air'
        <5>1. e \in {f \in Esps : lease[f] > 0 /\ link[f] = "up"}
          BY <1>1, <4>2 DEF SteadyIsUp
        <5> QED BY <2>1, <5>1 DEF Sent
      <4>4. since' = 1 /\ info' # NoEsp
        BY <2>1, <4>2
      <4>5. Answering(e)'
        BY <4>3, <4>4 DEF Answering
      <4>6. Elapsed <= Paid
        BY <1>1, <4>1, <4>2
      <4>7. Owing'
        BY <1>1, <2>2, <3>3, <4>4, <4>6
      <4>8. left' = 0 => Timeout <= Paid' + 1
        BY <1>1, <2>2, <3>3, <4>6
      <4> QED BY <4>5, <4>7, <4>8
    <3> QED BY <3>4, <3>5
  <2> QED BY <2>3, <2>4
<1>10. CASE UNCHANGED vars
  BY <1>3, <1>10 DEF vars, wifi, host, Depends, Answering, Asked
<1> HIDE DEF Owing
<1> QED
  BY <1>4, <1>5, <1>6, <1>7, <1>8, <1>9, <1>10
  DEF Next, Receives, Handles, PollReturns

(* The host begins with a HELLO due and nothing lost. *)
LEMMA TimingInit == Init => TimingInv /\ LeaseInv /\ WaitInv
<1> SUFFICES ASSUME Init PROVE TimingInv /\ LeaseInv /\ WaitInv
  OBVIOUS
<1>1. DiscoveryInv
  BY InitHolds
<1>2. HelloPeriod \in Nat \ {0} /\ Timeout \in Nat \ {0}
  BY DiscoveryAssumption
<1>3. SteadyIsUp /\ Clocks
  <2>1. SteadyIsUp
    BY DEF Init, SteadyIsUp
  <2>2. /\ lease = [e \in Esps |-> 0] /\ air = {} /\ listening = FALSE
        /\ since = HelloPeriod /\ left = Timeout /\ lost = 0
        /\ phase = "waiting"
    BY DEF Init
  <2>3. lease \in [Esps -> Nat]
    BY <2>2
  <2>4. HelloPeriod \in 0..HelloPeriod /\ Timeout \in 0..Timeout
        /\ Timeout # 0
    BY <1>2
  <2> QED BY <2>1, <2>2, <2>3, <2>4 DEF Clocks
<1>4. LeaseInv
  BY <1>3, DiscoveryAssumption
     DEF Init, LeaseInv, Contacted, SteadyIsUp
<1>5. Paid = 0 /\ Elapsed = 0 /\ since = HelloPeriod /\ phase = "waiting"
  BY <1>2 DEF Init, Paid, Elapsed
<1>6. Settled
  BY <1>2, <1>5 DEF Settled
<1> QED BY <1>1, <1>3, <1>4, <1>5, <1>6 DEF TimingInv, WaitInv

(* The clocks run on, with what the addresses rest on. *)
LEMMA TimingStep == TimingInv /\ [Next]_vars => TimingInv'
BY DiscoveryStep, ClocksStep DEF TimingInv

(* What n losses do not pay for takes more than n. *)
LEMMA LossesFor ==
  ASSUME NEW n \in Nat, NEW a \in Nat, NEW p \in Nat \ {0},
         a < n * p + p
  PROVE  n >= a \div p
<1> DEFINE q == a \div p
<1>1. q \in Int /\ q * p <= a
  OBVIOUS
<1> HIDE DEF q
<1>2. ASSUME q > n PROVE FALSE
  <2>1. q >= n + 1
    BY <1>1, <1>2
  <2>2. q * p >= (n + 1) * p
    BY <1>1, <2>1
  <2>3. (n + 1) * p = n * p + p
    OBVIOUS
  <2>4. q * p \in Int /\ n * p \in Int
    BY <1>1
  <2> QED BY <1>1, <2>2, <2>3, <2>4
<1> QED BY <1>1, <1>2 DEF q

(* wait_for_stream does not give up on an ESP that is on Wi-Fi all along    *)
(* unless a datagram was lost for every HELLO it had a whole period to see  *)
(* answered (record.py:199-210), however many ESPs answer, come and go.  A  *)
(* HELLO period of one poll would be too short to hear INFO and samples.    *)
THEOREM GivingUpTakesLosses ==
  ASSUME HelloPeriod >= 2
  PROVE  Spec => []TimeoutMeansLoss
<1>1. TimingInv /\ WaitInv => TimeoutMeansLoss
  <2> SUFFICES ASSUME TimingInv, WaitInv, phase = "timeout",
                      NEW e \in steady, Depends(e)
               PROVE  lost >= Hellos
    BY DEF TimeoutMeansLoss
  <2>1. Timeout <= Paid + 1 /\ lost \in Nat
    BY DEF WaitInv, TimingInv, Clocks
  <2>2. HelloPeriod \in Nat \ {0} /\ Timeout \in Nat
    BY DiscoveryAssumption
  <2>3. Timeout < Paid + HelloPeriod
    <3>1. Paid \in Nat
      BY LossPays DEF TimingInv
    <3> QED BY <2>1, <2>2, <3>1
  <2> QED BY <2>1, <2>2, <2>3, LossesFor DEF Paid, Hellos
<1>2. TimingInv /\ WaitInv /\ [Next]_vars => (TimingInv /\ WaitInv)'
  BY TimingStep, WaitStep
<1> QED BY <1>1, <1>2, TimingInit, PTL DEF Spec

(* The stream of the ESP the host locked on to does not stop for want of a  *)
(* lease while fewer datagrams were lost than HELLOs follow one another     *)
(* within a lease (record.py:82-91, adc_stream.c's touch_client), whatever  *)
(* the lease and the period are.                                            *)
THEOREM LeaseIsKeptAlive == Spec => []LeaseOutlivesLosses
<1>1. TimingInv /\ LeaseInv => LeaseOutlivesLosses
  <2> SUFFICES ASSUME TimingInv, LeaseInv, NEW e \in steady,
                      info = e, esp_addr = addr[e], lease[e] = 0
               PROVE  lost >= (Lease - 1) \div HelloPeriod
    BY DEF LeaseOutlivesLosses
  <2>1. HelloPeriod \in Nat \ {0} /\ Lease \in Nat \ {0} /\ lost \in Nat
        /\ since \in 0..HelloPeriod /\ Paid \in Nat
    BY DiscoveryAssumption, LossPays DEF TimingInv, Clocks
  <2>2. Depends(e) /\ Contacted(e)
    BY DEF Depends, Contacted
  <2>3. Lease - 0 <= Paid + since + (IF Asked(e) THEN HelloPeriod ELSE 0)
    BY <2>2 DEF LeaseInv
  <2>4. Asked(e) => since = 0
    <3>1. D(e, "HELLO").type = "HELLO"
      BY DEF D
    <3> QED BY <3>1 DEF TimingInv, Clocks, Asked
  <2>5. Lease <= Paid + HelloPeriod
    BY <2>1, <2>3, <2>4
  <2>6. Lease - 1 \in Nat /\ Lease - 1 < Paid + HelloPeriod
    BY <2>1, <2>5
  <2> QED BY <2>1, <2>6, LossesFor DEF Paid
<1>2. TimingInv /\ LeaseInv /\ [Next]_vars => (TimingInv /\ LeaseInv)'
  BY TimingStep, LeaseStep
<1> QED BY <1>1, <1>2, TimingInit, PTL DEF Spec
=============================================================================
