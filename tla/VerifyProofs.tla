---------------------------- MODULE VerifyProofs ----------------------------
(***************************************************************************)
(* Proofs about the vivarium and `torpor verify`, for every fleet, every   *)
(* schedule of outages and every bound: the types, that no order of flashes *)
(* makes a device run what its cohort cannot, and that a gap verify reports *)
(* is one.                                                                  *)
(***************************************************************************)
EXTENDS Verify, SequenceTheorems, TLAPS

-----------------------------------------------------------------------------
(* The inductive invariants.                                                *)

\* A flash under way on a device that spares its cohort's bad hashes carries the
\* cohort's failure mode whenever it carries one of them.
Doomed(d, f) == f.want \in Fleet[d].fails => f.mode = Fleet[d].failMode

SparedInv ==
    \A d \in Device : Spares(d) =>
        /\ organ[d].running \notin Fleet[d].fails
        /\ \A i \in DOMAIN flashes[d] : Doomed(d, flashes[d][i])

\* A device that is up, and is not about to brick, has its birth and its
\* announcement retained.
BornInv ==
    \A d \in Device : link[d] = "up" /\ d \notin bricking
                        => status[d] = "online" /\ announce[d]

\* Before main subscribes nothing was delivered.
QuietInv == phase = "off" => heard = {} /\ wire = <<>> /\ ~listening /\ ~calm

Asking == calm /\ phase \in {"watching", "probing"}

\* While the watch is calm the subject stays up and the verifier subscribed, and
\* no status but "online" is on its way.
CalmInv ==
    Asking => /\ link[Subject] = "up" /\ Subject \notin bricking /\ listening
              /\ \A i \in DOMAIN wire : wire[i].topic = "status" => wire[i].payload = "online"

\* What is retained reaches the callback before anything else: both messages are
\* at the head of the wire, or the announcement is, or both were recorded.
BothAhead ==
    /\ heard = {} /\ Len(wire) >= 2
    /\ wire[1] = Msg("status", "online", TRUE) /\ wire[2].topic = "announce"
OneAhead ==
    /\ heard = {"status"} /\ kept /\ seen["status"] = "online"
    /\ Len(wire) >= 1 /\ wire[1].topic = "announce"
Recorded ==
    /\ {"status", "announce"} \subseteq heard /\ kept /\ seen["status"] = "online"

BirthInv == calm /\ phase = "watching" => BothAhead \/ OneAhead \/ Recorded

\* The probe is on its way to the device, or its echo on the way back.
EchoInv ==
    calm /\ phase = "probing" =>
        /\ {"sensor", "hash"} \subseteq green => {"status", "announce"} \subseteq green
        /\ echoed \/ queue[Subject] # <<>> \/ \E i \in DOMAIN wire : wire[i].topic = "echo"

WatchInv == BornInv /\ QuietInv /\ CalmInv /\ BirthInv /\ EchoInv /\ GapsAreReal

-----------------------------------------------------------------------------
(* Lemmas about the operators.                                              *)

\* What the constants are.
LEMMA FleetFacts ==
    /\ N \in Nat /\ Subject \in Device /\ QuietFor \in Nat
    /\ MaxCommands \in Nat /\ MaxFaults \in Nat
    /\ OutageEvery \in Nat /\ OutageFor \in Nat
    /\ NoValue \notin Hash /\ NoValue \notin Gateways
    /\ {"corrupt", Noop} \subseteq Hash /\ Orders \subseteq Hash
    /\ \A d \in Device : /\ Fleet[d].hash \in Hash
                         /\ Fleet[d].gateway \in Gateways \cup {NoValue}
                         /\ Fleet[d].mode \in Mode /\ Fleet[d].failMode \in Mode
BY FleetAssumption DEF Hash

\* RemoveAt leaves a sequence whose elements are elements of the old one.
LEMMA RemoveAtKeeps ==
    ASSUME NEW S, NEW s \in Seq(S), NEW i \in DOMAIN s
    PROVE  RemoveAt(s, i) \in Seq(S)
<1>1. Len(s) \in Nat /\ i \in 1..Len(s) /\ \A j \in 1..Len(s) : s[j] \in S
  BY LenProperties, ElementOfSeq
<1>2. SubSeq(s, 1, i - 1) \in Seq(S)
  BY <1>1, SubSeqProperties
<1>3. SubSeq(s, i + 1, Len(s)) \in Seq(S)
  BY <1>1, SubSeqProperties
<1> QED
  BY <1>2, <1>3, ConcatProperties DEF RemoveAt

\* The messages a device publishes are messages.
LEMMA MessageTypes ==
    /\ <<>> \in Seq(Message)
    /\ \A p \in {"online", "offline"}, r \in BOOLEAN : Msg("status", p, r) \in Message
    /\ \A p \in Hash, r \in BOOLEAN : Msg("hash", p, r) \in Message
    /\ \A t \in {"sensor", "announce", "echo"}, r \in BOOLEAN : Msg(t, NoValue, r) \in Message
<1>1. \A p \in {"online", "offline"}, r \in BOOLEAN : Msg("status", p, r) \in Message
  BY DEF Msg, Message
<1>2. \A p \in Hash, r \in BOOLEAN : Msg("hash", p, r) \in Message
  BY DEF Msg, Message
<1>3. \A t \in {"sensor", "announce", "echo"}, r \in BOOLEAN : Msg(t, NoValue, r) \in Message
  BY DEF Msg, Message
<1> QED
  BY <1>1, <1>2, <1>3, EmptySeq

\* Publishing appends to the wire, or changes nothing.
LEMMA PublishedType ==
    ASSUME VivTypeOK, NEW d, NEW ms \in Seq(Message)
    PROVE  Published(d, ms) \in Seq(Message)
BY ConcatProperties DEF VivTypeOK, Published

\* One message is a sequence of messages.
LEMMA OneMessage ==
    ASSUME NEW m \in Message
    PROVE  <<m>> \in Seq(Message)
OBVIOUS

\* Two messages are a sequence of messages.
LEMMA TwoMessages ==
    ASSUME NEW m \in Message, NEW n \in Message
    PROVE  <<m, n>> \in Seq(Message)
OBVIOUS

\* Asking a gateway leaves it a gateway.
LEMMA IsDownType ==
    ASSUME VivTypeOK, NEW g \in Gateways
    PROVE  IsDown(g) \in GatewayState
<1>1. gw[g] \in GatewayState
  BY DEF VivTypeOK
<1> QED
  BY <1>1, FleetFacts DEF IsDown, GatewayState

\* A flash leaves an organism an organism.
LEMMA FlashedType ==
    ASSUME NEW o \in Organism, NEW f \in Flash
    PROVE  Flashed(o, f) \in Organism
<1>1. f.want \in Hash /\ "corrupt" \in Hash /\ QuietFor \in 0..QuietFor
  BY FleetFacts DEF Flash
<1> QED
  BY <1>1 DEF Flashed, Organism

\* A mode a device may take is a mode.
LEMMA ModesType ==
    ASSUME NEW d \in Device, NEW want
    PROVE  Modes(d, want) \subseteq Mode
BY FleetFacts DEF Modes, Mode

-----------------------------------------------------------------------------
(* The types.                                                               *)

\* A will keeps the types of what it touches.
LEMMA WillsType ==
    ASSUME VivTypeOK, NEW ds, Wills(ds)
    PROVE  /\ status' \in [Device -> {NoValue, "online", "offline"}]
           /\ queue' \in [Device -> Seq(Payload)]
           /\ wire' \in Seq(Message)
<1>1. status' \in [Device -> {NoValue, "online", "offline"}]
  BY DEF VivTypeOK, Wills
<1>2. queue' \in [Device -> Seq(Payload)]
  BY EmptySeq DEF VivTypeOK, Wills
<1>3. Published(Subject, <<Msg("status", "offline", FALSE)>>) \in Seq(Message)
  BY MessageTypes, OneMessage, PublishedType
<1> QED
  BY <1>1, <1>2, <1>3 DEF VivTypeOK, Wills

\* The fleet's connections keep the types.
LEMMA ConnectionsType ==
    ASSUME VivTypeOK,
           \/ Connect \/ ConnectFails \/ Close
           \/ \E d \in Device : OnConnect(d) \/ LoseConnection(d) \/ Reconnect(d)
                                \/ BrickDisconnect(d)
    PROVE  VivTypeOK'
<1>0. /\ N \in Nat /\ MaxFaults \in Nat
      /\ (faults < MaxFaults => faults + 1 \in 0..MaxFaults)
      /\ [d \in Device |-> <<>>] \in [Device -> Seq(Payload)]
      /\ [d \in Device |-> <<>>] \in [Device -> Seq(Flash)]
      /\ [d \in Device |-> NoValue] \in [Device -> Payload]
      /\ [d \in Device |-> "off"] \in [Device -> {"off", "open", "up", "lost"}]
  BY FleetFacts, EmptySeq DEF VivTypeOK, Payload
<1>1. CASE Connect
  <2>1. started + 1 \in Device /\ started' \in 0..N
        /\ (proc' = "starting" => started' < N) /\ proc' \in {"starting", "living"}
    BY <1>0, <1>1 DEF Connect, VivTypeOK, Device
  <2>2. link' \in [Device -> {"off", "open", "up", "lost"}]
    BY <1>1, <2>1 DEF Connect, VivTypeOK
  <2> QED
    BY <1>1, <2>1, <2>2 DEF Connect, VivTypeOK, organs, brokers
<1>2. CASE ConnectFails
  <2>1. /\ status' \in [Device -> {NoValue, "online", "offline"}]
        /\ queue' \in [Device -> Seq(Payload)]
        /\ wire' \in Seq(Message)
    BY <1>2, WillsType DEF ConnectFails
  <2> QED
    BY <1>0, <1>2, <2>1 DEF ConnectFails, VivTypeOK
<1>3. CASE Close
  BY <1>0, <1>3 DEF Close, VivTypeOK
<1>4. ASSUME NEW d \in Device, OnConnect(d) PROVE VivTypeOK'
  <2>1. wire' \in Seq(Message)
    BY <1>4, MessageTypes, TwoMessages, PublishedType DEF OnConnect
  <2> QED
    BY <1>4, <2>1 DEF OnConnect, VivTypeOK, organs
<1>5. ASSUME NEW d \in Device, LoseConnection(d) PROVE VivTypeOK'
  <2>1. /\ status' \in [Device -> {NoValue, "online", "offline"}]
        /\ queue' \in [Device -> Seq(Payload)]
        /\ wire' \in Seq(Message)
    BY <1>5, WillsType DEF LoseConnection
  <2> QED
    BY <1>0, <1>5, <2>1 DEF LoseConnection, VivTypeOK, organs
<1>6. ASSUME NEW d \in Device, Reconnect(d) PROVE VivTypeOK'
  BY <1>6 DEF Reconnect, VivTypeOK, organs, brokers
<1>7. ASSUME NEW d \in Device, BrickDisconnect(d) PROVE VivTypeOK'
  <2>1. queue' \in [Device -> Seq(Payload)]
    BY <1>7, EmptySeq DEF BrickDisconnect, VivTypeOK
  <2> QED
    BY <1>7, <2>1 DEF BrickDisconnect, VivTypeOK
<1> QED
  BY <1>1, <1>2, <1>3, <1>4, <1>5, <1>6, <1>7

\* What a tick publishes is a sequence of messages.
LEMMA ReportType ==
    ASSUME NEW h \in Hash, NEW sensor \in BOOLEAN, NEW hash \in BOOLEAN
    PROVE  (IF sensor THEN <<Msg("sensor", NoValue, FALSE)>> ELSE <<>>)
             \o (IF hash THEN <<Msg("hash", h, FALSE)>> ELSE <<>>) \in Seq(Message)
<1>1. (IF sensor THEN <<Msg("sensor", NoValue, FALSE)>> ELSE <<>>) \in Seq(Message)
  BY MessageTypes, OneMessage
<1>2. (IF hash THEN <<Msg("hash", h, FALSE)>> ELSE <<>>) \in Seq(Message)
  BY MessageTypes, OneMessage
<1> QED
  BY <1>1, <1>2, ConcatProperties

\* Time, reports and outages keep the types.
LEMMA ReportsType ==
    ASSUME VivTypeOK,
           Pass \/ Snapshot \/ \E d \in Device : Tick(d) \/ TickPublish(d)
    PROVE  VivTypeOK'
<1>1. CASE Pass
  <2>1. organ' \in [Device -> Organism]
    <3>1. ASSUME NEW d \in Device
          PROVE  [organ[d] EXCEPT !.silent = Earlier(@)] \in Organism
      <4>1. organ[d] \in Organism /\ organ[d].silent \in 0..QuietFor /\ QuietFor \in Nat
        BY FleetFacts DEF VivTypeOK, Organism
      <4>2. Earlier(organ[d].silent) \in 0..QuietFor
        BY <4>1 DEF Earlier
      <4> QED
        BY <4>1, <4>2 DEF Organism
    <3> QED
      BY <1>1, <3>1 DEF Pass
  <2>2. gw' \in [Gateways -> GatewayState]
    <3>1. ASSUME NEW g \in Gateways
          PROVE  [gw[g] EXCEPT !.nextAt = Earlier(@), !.until = Earlier(@)] \in GatewayState
      <4>1. gw[g] \in GatewayState
        BY DEF VivTypeOK
      <4>2. Earlier(gw[g].nextAt) \in Nat \cup {NoValue}
        BY <4>1 DEF Earlier, GatewayState
      <4>3. Earlier(gw[g].until) \in Nat
        BY <4>1 DEF Earlier, GatewayState
      <4> QED
        BY <4>1, <4>2, <4>3 DEF GatewayState
    <3> QED
      BY <1>1, <3>1 DEF Pass
  <2> QED
    BY <1>1, <2>1, <2>2 DEF Pass, VivTypeOK
<1>2. CASE Snapshot
  <2>1. gw' \in [Gateways -> GatewayState]
    <3>1. \A g \in Gateways : IsDown(g) \in GatewayState /\ gw[g] \in GatewayState
      BY IsDownType DEF VivTypeOK
    <3> QED
      BY <1>2, <3>1 DEF Snapshot
  <2> QED
    BY <1>2, <2>1 DEF Snapshot, VivTypeOK, organs, brokers
<1>3. ASSUME NEW d \in Device, Tick(d) PROVE VivTypeOK'
  <2>1. gw' \in [Gateways -> GatewayState]
    <3>1. \A g \in Gateways : IsDown(g) \in GatewayState
      BY IsDownType
    <3>2. Fleet[d].gateway \in Gateways \cup {NoValue}
      BY FleetFacts
    <3> QED
      BY <1>3, <3>1, <3>2 DEF Tick, VivTypeOK
  <2>2. pend' \in [Device -> Payload]
    <3>1. organ[d].reported \in Payload
      BY DEF VivTypeOK, Organism, Payload
    <3> QED
      BY <1>3, <3>1 DEF Tick, VivTypeOK
  <2> QED
    BY <1>3, <2>1, <2>2 DEF Tick, VivTypeOK, brokers
<1>4. ASSUME NEW d \in Device, TickPublish(d) PROVE VivTypeOK'
  <2>1. PICK sensor \in BOOLEAN, hash \in BOOLEAN :
          /\ faults' = faults \/ (faults < MaxFaults /\ faults' = faults + 1)
          /\ wire' = IF OnLine(d)
                       THEN Published(d, (IF sensor THEN <<Msg("sensor", NoValue, FALSE)>> ELSE <<>>)
                                         \o (IF hash THEN <<Msg("hash", pend[d], FALSE)>> ELSE <<>>))
                       ELSE wire
    BY <1>4 DEF TickPublish
  <2>2. pend[d] \in Hash
    BY <1>4 DEF TickPublish, VivTypeOK, Payload
  <2>3. wire' \in Seq(Message)
    BY <2>1, <2>2, ReportType, PublishedType DEF VivTypeOK
  <2>4. faults' \in 0..MaxFaults
    BY <2>1, FleetFacts DEF VivTypeOK
  <2>5. pend' \in [Device -> Payload]
    BY <1>4 DEF TickPublish, VivTypeOK, Payload
  <2> QED
    BY <1>4, <2>3, <2>4, <2>5 DEF TickPublish, VivTypeOK
<1> QED
  BY <1>1, <1>2, <1>3, <1>4

\* A command that is sent keeps the queues.
LEMMA SentType ==
    ASSUME VivTypeOK, NEW d \in Device, NEW p \in Payload, Sent(d, p)
    PROVE  queue' \in [Device -> Seq(Payload)]
<1>1. Append(queue[d], p) \in Seq(Payload)
  BY AppendProperties DEF VivTypeOK
<1> QED
  BY <1>1 DEF Sent, VivTypeOK

\* What is obeyed is a hash.
LEMMA ObeyedType ==
    ASSUME NEW d \in Device, NEW want \in Payload, Obeys(d, want), NEW m \in Modes(d, want)
    PROVE  [want |-> want, mode |-> m] \in Flash
<1>1. want \in Hash /\ m \in Mode
  BY ModesType DEF Obeys, Payload
<1> QED
  BY <1>1 DEF Flash

\* Commands and the flashes they start keep the types.
LEMMA CommandsType ==
    ASSUME VivTypeOK, NEW d \in Device,
           \/ \E want \in Orders \cup {NoValue} : Command(d, want)
           \/ OnCommand(d)
           \/ \E i \in DOMAIN flashes[d] : FlashDone(d, i)
    PROVE  VivTypeOK'
<1>1. ASSUME NEW want \in Orders \cup {NoValue}, Command(d, want) PROVE VivTypeOK'
  <2>1. want \in Payload
    BY FleetFacts DEF Payload
  <2>2. queue' \in [Device -> Seq(Payload)]
    BY <1>1, <2>1, SentType DEF Command
  <2>3. commands' \in 0..MaxCommands
    BY <1>1, FleetFacts DEF Command, VivTypeOK
  <2> QED
    BY <1>1, <2>2, <2>3 DEF Command, VivTypeOK, organs
<1>2. CASE OnCommand(d)
  <2> DEFINE want == Head(queue[d])
  <2>1. queue[d] \in Seq(Payload) /\ queue[d] # <<>>
    BY <1>2 DEF OnCommand, VivTypeOK
  <2>2. want \in Payload /\ Tail(queue[d]) \in Seq(Payload)
    BY <2>1, HeadTailProperties
  <2>3. wire' = Published(d, Echo(d, want))
        /\ queue' = [queue EXCEPT ![d] = Tail(@)]
        /\ \/ flashes' = flashes
           \/ /\ Obeys(d, want)
              /\ \E m \in Modes(d, want) :
                   flashes' = [flashes EXCEPT ![d] = Append(@, [want |-> want, mode |-> m])]
    BY <1>2 DEF OnCommand
  <2> HIDE DEF want
  <2>4. wire' \in Seq(Message)
    BY <2>3, MessageTypes, OneMessage, PublishedType DEF Echo
  <2>5. queue' \in [Device -> Seq(Payload)]
    BY <2>2, <2>3 DEF VivTypeOK
  <2>6. flashes' \in [Device -> Seq(Flash)]
    <3>1. CASE flashes' = flashes
      BY <3>1 DEF VivTypeOK
    <3>2. ASSUME Obeys(d, want), NEW m \in Modes(d, want),
                 flashes' = [flashes EXCEPT ![d] = Append(@, [want |-> want, mode |-> m])]
          PROVE  flashes' \in [Device -> Seq(Flash)]
      <4>1. [want |-> want, mode |-> m] \in Flash
        BY <2>2, <3>2, ObeyedType
      <4>2. Append(flashes[d], [want |-> want, mode |-> m]) \in Seq(Flash)
        BY <4>1, AppendProperties DEF VivTypeOK
      <4> QED
        BY <3>2, <4>2 DEF VivTypeOK
    <3> QED
      BY <2>3, <3>1, <3>2
  <2> QED
    BY <1>2, <2>4, <2>5, <2>6 DEF OnCommand, VivTypeOK
<1>3. ASSUME NEW i \in DOMAIN flashes[d], FlashDone(d, i) PROVE VivTypeOK'
  <2>1. flashes[d] \in Seq(Flash) /\ flashes[d][i] \in Flash
    BY LenProperties, ElementOfSeq DEF VivTypeOK
  <2>2. organ' \in [Device -> Organism]
    <3>1. Flashed(organ[d], flashes[d][i]) \in Organism
      BY <2>1, FlashedType DEF VivTypeOK
    <3> QED
      BY <1>3, <3>1 DEF FlashDone, VivTypeOK
  <2>3. flashes' \in [Device -> Seq(Flash)]
    <3>1. RemoveAt(flashes[d], i) \in Seq(Flash)
      BY <2>1, RemoveAtKeeps
    <3> QED
      BY <1>3, <3>1 DEF FlashDone, VivTypeOK
  <2>4. wire' \in Seq(Message)
    <3>1. Published(d, <<Msg("status", "offline", FALSE)>>) \in Seq(Message)
      BY MessageTypes, OneMessage, PublishedType
    <3> QED
      BY <1>3, <3>1 DEF FlashDone, VivTypeOK
  <2>5. /\ status' \in [Device -> {NoValue, "online", "offline"}]
        /\ bricking' \subseteq Device
    BY <1>3 DEF FlashDone, VivTypeOK
  <2> QED
    BY <1>3, <2>2, <2>3, <2>4, <2>5 DEF FlashDone, VivTypeOK
<1> QED
  BY <1>1, <1>2, <1>3

\* Every step of the fleet keeps the types.
LEMMA FleetType ==
    ASSUME VivTypeOK, VivNext
    PROVE  VivTypeOK'
BY ConnectionsType, ReportsType, CommandsType DEF VivNext

\* A verdict is one of three.
LEMMA ReportVerdict ==
    ASSUME NEW ok
    PROVE  Report(ok) \in {"cannot be managed", "gaps", "conformant"}
BY DEF Report

\* Ending keeps the types.
LEMMA DoneType ==
    ASSUME VerifyTypeOK, NEW ok, Done(ok), calm' = calm,
           UNCHANGED <<proc, started, organs, link, status, announce, gw, commands, faults>>,
           queue' = queue
    PROVE  VerifyTypeOK'
<1>1. VivTypeOK'
  BY EmptySeq DEF VerifyTypeOK, VivTypeOK, Done, organs
<1>2. verdict' \in {NoValue, "cannot be managed", "gaps", "conformant"}
  BY ReportVerdict DEF Done
<1>3. /\ seen' \in [Read -> Payload \cup {"online", "offline"}]
      /\ seen'["hash"] \in Payload /\ seen'["status"] \in {NoValue, "online", "offline"}
  BY DEF Done, Unseen, Read, Payload
<1> QED
  BY <1>1, <1>2, <1>3 DEF Done, VerifyTypeOK

\* The observer's record is typed by the topic of what it records.
LEMMA RecordType ==
    ASSUME VerifyTypeOK, Record
    PROVE  VerifyTypeOK'
<1>1. wire \in Seq(Message) /\ wire # <<>>
  BY DEF Record, VerifyTypeOK, VivTypeOK
<1>2. Head(wire) \in Message /\ Tail(wire) \in Seq(Message)
  BY <1>1, HeadTailProperties
<1>3. VivTypeOK'
  BY <1>2 DEF Record, VerifyTypeOK, VivTypeOK, organs
<1> DEFINE m == Head(wire)
<1>4. /\ seen' = [t \in DOMAIN seen |-> IF t = m.topic THEN m.payload ELSE seen[t]]
      /\ heard' = heard \cup {m.topic}
      /\ kept' = (kept \/ (m.topic = "status" /\ m.retained))
      /\ echoed' = (echoed \/ (m.topic = "echo" /\ phase = "probing"))
  BY DEF Record
<1>5. m \in Message
  BY <1>2
<1> HIDE DEF m
<1>6. m.topic \in Topics /\ m.payload \in Payload \cup {"online", "offline"}
      /\ (m.topic = "hash" => m.payload \in Payload)
      /\ (m.topic = "status" => m.payload \in {NoValue, "online", "offline"})
  BY <1>5 DEF Message, Topics, Payload
<1>7. /\ seen' \in [Read -> Payload \cup {"online", "offline"}]
      /\ seen'["hash"] \in Payload /\ seen'["status"] \in {NoValue, "online", "offline"}
  BY <1>4, <1>6 DEF VerifyTypeOK, Read
<1>8. heard' \subseteq Topics
  BY <1>4, <1>6 DEF VerifyTypeOK
<1>9. kept' \in BOOLEAN /\ echoed' \in BOOLEAN
  BY <1>4, Zenon DEF VerifyTypeOK
<1> QED
  BY <1>3, <1>7, <1>8, <1>9 DEF Record, VerifyTypeOK

\* Every step keeps the types.
LEMMA VerifyTypeStep ==
    ASSUME VerifyTypeOK, [Next]_vars
    PROVE  VerifyTypeOK'
<1>0. VivTypeOK
  BY DEF VerifyTypeOK
<1>1. CASE Live(VivNext)
  <2>1. VivTypeOK'
    BY <1>0, <1>1, FleetType DEF Live
  <2>2. calm' \in BOOLEAN
    BY <1>1, Zenon DEF Live
  <2> QED
    BY <1>1, <2>1, <2>2 DEF Live, VerifyTypeOK
<1>2. CASE Subscribe
  <2>1. status[Subject] # NoValue => Msg("status", status[Subject], TRUE) \in Message
    BY <1>0, FleetFacts, MessageTypes DEF VivTypeOK
  <2>2. (IF status[Subject] = NoValue THEN <<>>
         ELSE <<Msg("status", status[Subject], TRUE)>>) \in Seq(Message)
    BY <2>1, MessageTypes, OneMessage
  <2>3. (IF ~announce[Subject] THEN <<>>
         ELSE <<Msg("announce", NoValue, TRUE)>>) \in Seq(Message)
    BY MessageTypes, OneMessage
  <2>4. wire' \in Seq(Message)
    BY <1>2, <2>2, <2>3, ConcatProperties DEF Subscribe
  <2>5. VivTypeOK'
    BY <1>0, <1>2, <2>4 DEF Subscribe, VivTypeOK, organs
  <2>6. calm' \in BOOLEAN
    BY <1>2, Zenon DEF Subscribe
  <2> QED
    BY <1>2, <2>5, <2>6 DEF Subscribe, VerifyTypeOK
<1>3. CASE Record
  BY <1>3, RecordType
<1>4. CASE Check
  <2>1. CASE TestOTA
    <3>1. (IF checkRunningHash THEN seen["hash"] ELSE Noop) \in Payload
      BY FleetFacts DEF VerifyTypeOK, Payload
    <3>2. Sent(Subject, IF checkRunningHash THEN seen["hash"] ELSE Noop)
      BY <1>4, <2>1 DEF Check
    <3>3. queue' \in [Device -> Seq(Payload)]
      BY <1>0, <3>1, <3>2, FleetFacts, SentType
    <3>4. VivTypeOK'
      BY <1>0, <1>4, <2>1, <3>3 DEF Check, VivTypeOK, organs
    <3>5. green' \subseteq Items
      BY <1>4, <2>1 DEF Check
    <3> QED
      BY <1>4, <2>1, <3>4, <3>5 DEF Check, VerifyTypeOK
  <2>2. CASE ~TestOTA
    <3>1. \E ok : Done(ok)
      BY <1>4, <2>2 DEF Check
    <3>2. /\ UNCHANGED <<proc, started, organs, link, status, announce, gw, commands, faults>>
          /\ calm' = calm /\ queue' = queue
      BY <1>4, <2>2 DEF Check
    <3> QED
      BY <3>1, <3>2, DoneType, Zenon
  <2> QED
    BY <2>1, <2>2
<1>5. CASE EchoOrNot
  <2>1. Done(green \cup {"firmware"}) \/ Done(green)
    BY <1>5 DEF EchoOrNot
  <2>2. /\ UNCHANGED <<proc, started, organs, link, status, announce, gw, commands, faults>>
        /\ calm' = calm /\ queue' = queue
    BY <1>5 DEF EchoOrNot
  <2> QED
    BY <2>1, <2>2, DoneType, Zenon
<1>6. CASE Deaf
  <2>1. faults' \in 0..MaxFaults
    BY <1>0, <1>6, FleetFacts DEF Deaf, VivTypeOK
  <2>2. wire' \in Seq(Message)
    BY <1>6, EmptySeq DEF Deaf
  <2>3. listening' \in BOOLEAN /\ calm' \in BOOLEAN
    BY <1>6, Zenon DEF Deaf
  <2>4. VivTypeOK'
    BY <1>0, <1>6, <2>1, <2>2, <2>3 DEF Deaf, VivTypeOK, organs
  <2>5. UNCHANGED <<phase, seen, heard, kept, echoed, green, verdict>>
    BY <1>6 DEF Deaf
  <2> QED
    BY <2>3, <2>4, <2>5 DEF VerifyTypeOK
<1>7. CASE Over \/ UNCHANGED vars
  <2>1. UNCHANGED <<vivVars, verifyVars>>
    BY <1>7 DEF Over, vars
  <2>2. VivTypeOK'
    BY <1>0, <2>1 DEF vivVars, organs, brokers, VivTypeOK
  <2> QED
    BY <2>1, <2>2 DEF verifyVars, VerifyTypeOK
<1> QED
  BY <1>1, <1>2, <1>3, <1>4, <1>5, <1>6, <1>7 DEF Next

\* The initial states are typed.
LEMMA VerifyTypeInit ==
    ASSUME Init
    PROVE  VerifyTypeOK
<1>1. VivTypeOK
  <2>1. organ \in [Device -> Organism]
    <3>1. ASSUME NEW d \in Device
          PROVE  [running |-> Fleet[d].hash, reported |-> Fleet[d].hash,
                  bricked |-> FALSE, silent |-> 0] \in Organism
      BY FleetFacts DEF Organism
    <3> QED
      BY <3>1 DEF Init, VivInit
  <2>2. queue \in [Device -> Seq(Payload)] /\ flashes \in [Device -> Seq(Flash)]
    BY EmptySeq DEF Init, VivInit
  <2>3. gw \in [Gateways -> GatewayState]
    <3>1. [down |-> FALSE, nextAt |-> NoValue, until |-> 0] \in GatewayState
      BY DEF GatewayState
    <3> QED
      BY <3>1 DEF Init, VivInit
  <2>4. started \in 0..N /\ started < N
    BY FleetFacts DEF Init, VivInit, Device
  <2>5. pend \in [Device -> Payload]
    BY DEF Init, VivInit, Payload
  <2>6. wire \in Seq(Message)
    BY EmptySeq DEF Init, VivInit
  <2>7. announce \in [Device -> BOOLEAN] /\ listening \in BOOLEAN
    BY DEF Init, VivInit
  <2>8. commands \in 0..MaxCommands /\ faults \in 0..MaxFaults
    BY FleetFacts DEF Init, VivInit
  <2> QED
    BY <2>1, <2>2, <2>3, <2>4, <2>5, <2>6, <2>7, <2>8 DEF Init, VivInit, VivTypeOK
<1> QED
  BY <1>1 DEF Init, VerifyTypeOK, Unseen, Read, Payload

\* The fleet and the verifier are always of their types, whatever the fleet
\* file says: in particular every flash and every probe is of a hash.
THEOREM VerifyTypeCorrect == Spec => []VerifyTypeOK
<1>1. Init => VerifyTypeOK
  BY VerifyTypeInit
<1>2. VerifyTypeOK /\ [Next]_vars => VerifyTypeOK'
  BY VerifyTypeStep
<1> QED
  BY <1>1, <1>2, PTL DEF Spec

-----------------------------------------------------------------------------
(* What a device runs.                                                      *)

\* A flash that is done changes what its device runs to the hash it carries, to
\* the mangled one, or not at all; with one of the four modes that keep a bad
\* hash from running, never to the hash it carries.
LEMMA FlashedRuns ==
    ASSUME NEW o \in Organism, NEW f \in Flash
    PROVE  /\ Flashed(o, f).running \in {o.running, f.want, "corrupt"}
           /\ f.mode \in {"bricks", "ignores", "wrongHash", "reportsWithoutRunning"}
                => Flashed(o, f).running \in {o.running, "corrupt"}
BY DEF Flashed, Organism, Flash

\* What is left after RemoveAt was there before.
LEMMA RemoveAtElements ==
    ASSUME NEW S, NEW s \in Seq(S), NEW i \in DOMAIN s, NEW j \in DOMAIN RemoveAt(s, i)
    PROVE  \E k \in DOMAIN s : RemoveAt(s, i)[j] = s[k]
<1>1. Len(s) \in Nat /\ i \in 1..Len(s) /\ DOMAIN s = 1..Len(s)
      /\ \A k \in 1..Len(s) : s[k] \in S
  BY LenProperties, ElementOfSeq
<1> DEFINE a == SubSeq(s, 1, i - 1)
           b == SubSeq(s, i + 1, Len(s))
<1>2. a \in Seq(S) /\ Len(a) = i - 1 /\ \A k \in 1..(i - 1) : a[k] = s[k]
  <2>1. \A k \in 1..(i - 1) : s[k] \in S
    BY <1>1
  <2>2. /\ a \in Seq(S) /\ Len(a) = IF 1 <= i - 1 THEN i - 1 - 1 + 1 ELSE 0
        /\ \A k \in 1..(i - 1 - 1 + 1) : a[k] = s[1 + k - 1]
    BY <1>1, <2>1, SubSeqProperties
  <2> QED
    BY <1>1, <2>2
<1>3. b \in Seq(S) /\ Len(b) = Len(s) - i /\ \A k \in 1..(Len(s) - i) : b[k] = s[i + k]
  <2>1. \A k \in (i + 1)..Len(s) : s[k] \in S
    BY <1>1
  <2>2. /\ b \in Seq(S) /\ Len(b) = IF i + 1 <= Len(s) THEN Len(s) - (i + 1) + 1 ELSE 0
        /\ \A k \in 1..(Len(s) - (i + 1) + 1) : b[k] = s[(i + 1) + k - 1]
    BY <1>1, <2>1, SubSeqProperties
  <2> QED
    BY <1>1, <2>2
<1> HIDE DEF a, b
<1>4. /\ a \o b \in Seq(S) /\ Len(a \o b) = Len(a) + Len(b)
      /\ \A k \in 1..(Len(a) + Len(b)) :
           (a \o b)[k] = IF k <= Len(a) THEN a[k] ELSE b[k - Len(a)]
  BY <1>2, <1>3, ConcatProperties
<1>5. RemoveAt(s, i) = a \o b
  BY DEF RemoveAt, a, b
<1>6. j \in 1..(Len(s) - 1)
  BY <1>1, <1>2, <1>3, <1>4, <1>5, LenProperties
<1>7. CASE j <= i - 1
  BY <1>1, <1>2, <1>3, <1>4, <1>5, <1>6, <1>7
<1>8. CASE ~(j <= i - 1)
  <2>1. (a \o b)[j] = b[j - (i - 1)] /\ j - (i - 1) \in 1..(Len(s) - i)
    BY <1>1, <1>2, <1>3, <1>4, <1>6, <1>8
  <2>2. (a \o b)[j] = s[i + (j - (i - 1))] /\ i + (j - (i - 1)) \in 1..Len(s)
    BY <1>1, <1>3, <1>6, <2>1
  <2> QED
    BY <1>1, <1>5, <2>2
<1> QED
  BY <1>7, <1>8

\* The mode a spared device takes a bad hash in is its cohort's.
LEMMA SparedMode ==
    ASSUME NEW d \in Device, Spares(d), NEW want, NEW m \in Modes(d, want)
    PROVE  want \in Fleet[d].fails => m = Fleet[d].failMode
BY DEF Spares, Modes

\* Every step of the fleet keeps the bad hashes from running.
LEMMA SparedStep ==
    ASSUME VivTypeOK, SparedInv, VivNext
    PROVE  SparedInv'
<1>1. CASE UNCHANGED <<organ, flashes>>
  BY <1>1 DEF SparedInv, Spares, Doomed
<1>2. ASSUME /\ \A d \in Device : organ'[d].running = organ[d].running
             /\ flashes' \in {flashes, [d \in Device |-> <<>>]}
      PROVE  SparedInv'
  <2>1. CASE flashes' = flashes
    BY <1>2, <2>1 DEF SparedInv, Spares, Doomed
  <2>2. CASE flashes' = [d \in Device |-> <<>>]
    <3>1. \A d \in Device : DOMAIN flashes'[d] = {}
      BY <2>2
    <3> QED
      BY <1>2, <3>1 DEF SparedInv, Spares
  <2> QED
    BY <1>2, <2>1, <2>2
<1>3. CASE Pass
  <2>1. \A d \in Device : organ'[d].running = organ[d].running
    BY <1>3 DEF Pass, VivTypeOK, Organism
  <2> QED
    BY <1>2, <1>3, <2>1 DEF Pass
<1>4. CASE ConnectFails \/ Close
  BY <1>2, <1>4 DEF ConnectFails, Close
<1>5. ASSUME NEW d \in Device, OnCommand(d) PROVE SparedInv'
  <2> DEFINE want == Head(queue[d])
  <2>1. \/ flashes' = flashes
        \/ \E m \in Modes(d, want) :
             flashes' = [flashes EXCEPT ![d] = Append(@, [want |-> want, mode |-> m])]
    BY <1>5 DEF OnCommand
  <2>2. organ' = organ
    BY <1>5 DEF OnCommand
  <2> HIDE DEF want
  <2>3. ASSUME NEW m \in Modes(d, want),
               flashes' = [flashes EXCEPT ![d] = Append(@, [want |-> want, mode |-> m])]
        PROVE  SparedInv'
    <3> SUFFICES ASSUME NEW e \in Device, Spares(e), NEW i \in DOMAIN flashes'[e]
                 PROVE  Doomed(e, flashes'[e][i])
      BY <2>2 DEF SparedInv, Spares, Doomed
    <3>1. CASE e # d
      BY <2>3, <3>1 DEF SparedInv, VivTypeOK
    <3>2. CASE e = d
      <4> DEFINE f == [want |-> want, mode |-> m]
      <4>1. flashes[d] \in Seq(Flash) /\ flashes'[d] = Append(flashes[d], f)
        BY <2>3 DEF VivTypeOK
      <4>2. Doomed(d, f)
        BY <3>2, SparedMode DEF Doomed
      <4> HIDE DEF f
      <4>3. /\ Len(flashes[d]) \in Nat /\ DOMAIN flashes[d] = 1..Len(flashes[d])
            /\ DOMAIN Append(flashes[d], f) = 1..(Len(flashes[d]) + 1)
            /\ \A k \in 1..Len(flashes[d]) : Append(flashes[d], f)[k] = flashes[d][k]
            /\ Append(flashes[d], f)[Len(flashes[d]) + 1] = f
        BY <4>1
      <4>4. \A k \in DOMAIN flashes[d] : Doomed(d, flashes[d][k])
        BY <3>2 DEF SparedInv
      <4>5. CASE i = Len(flashes[d]) + 1
        BY <3>2, <4>1, <4>2, <4>3, <4>5
      <4>6. CASE i # Len(flashes[d]) + 1
        <5>1. i \in 1..Len(flashes[d])
          BY <3>2, <4>1, <4>3, <4>6
        <5>2. flashes'[e][i] = flashes[d][i]
          BY <3>2, <4>1, <4>3, <5>1
        <5> QED
          BY <3>2, <4>3, <4>4, <5>1, <5>2
      <4> QED
        BY <4>5, <4>6
    <3> QED
      BY <3>1, <3>2
  <2> QED
    BY <1>1, <2>1, <2>2, <2>3
<1>6. ASSUME NEW d \in Device, NEW i \in DOMAIN flashes[d], FlashDone(d, i) PROVE SparedInv'
  <2> DEFINE f == flashes[d][i]
  <2>1. /\ organ[d] \in Organism /\ flashes[d] \in Seq(Flash) /\ f \in Flash
    BY LenProperties, ElementOfSeq DEF VivTypeOK
  <2>2. /\ organ' = [organ EXCEPT ![d] = Flashed(organ[d], f)]
        /\ flashes' = [flashes EXCEPT ![d] = RemoveAt(flashes[d], i)]
    BY <1>6 DEF FlashDone
  <2>3. ASSUME NEW e \in Device, Spares(e) PROVE organ'[e].running \notin Fleet[e].fails
    <3>1. CASE e # d
      BY <2>2, <2>3, <3>1 DEF SparedInv, VivTypeOK
    <3>2. CASE e = d
      <4>1. organ[d].running \notin Fleet[d].fails /\ "corrupt" \notin Fleet[d].fails
            /\ Fleet[d].failMode \in {"bricks", "ignores", "wrongHash", "reportsWithoutRunning"}
        BY <2>3, <3>2 DEF SparedInv, Spares
      <4>2. f.want \in Fleet[d].fails => f.mode = Fleet[d].failMode
        BY <2>3, <3>2 DEF SparedInv, Doomed
      <4>3. organ'[d] = Flashed(organ[d], f)
        BY <2>2 DEF VivTypeOK
      <4> HIDE DEF f
      <4> QED
        BY <2>1, <3>2, <4>1, <4>2, <4>3, FlashedRuns
    <3> QED
      BY <3>1, <3>2
  <2>4. ASSUME NEW e \in Device, Spares(e), NEW j \in DOMAIN flashes'[e]
        PROVE  Doomed(e, flashes'[e][j])
    <3>1. CASE e # d
      BY <2>2, <2>4, <3>1 DEF SparedInv, VivTypeOK
    <3>2. CASE e = d
      <4>1. flashes'[d] = RemoveAt(flashes[d], i)
        BY <2>2 DEF VivTypeOK
      <4>2. PICK k \in DOMAIN flashes[d] : flashes'[d][j] = flashes[d][k]
        BY <2>1, <2>4, <3>2, <4>1, RemoveAtElements
      <4> QED
        BY <2>4, <3>2, <4>2 DEF SparedInv
    <3> QED
      BY <3>1, <3>2
  <2> QED
    BY <2>3, <2>4 DEF SparedInv, Spares, Doomed
<1>7. CASE Connect \/ Snapshot
  BY <1>1, <1>7 DEF Connect, Snapshot, organs
<1>8. ASSUME NEW d \in Device,
             \/ OnConnect(d) \/ LoseConnection(d) \/ Reconnect(d)
             \/ Tick(d) \/ TickPublish(d) \/ BrickDisconnect(d)
             \/ \E want \in Orders \cup {NoValue} : Command(d, want)
      PROVE  SparedInv'
  <2>1. UNCHANGED <<organ, flashes>>
    BY <1>8 DEF OnConnect, LoseConnection, Reconnect, Tick, TickPublish, BrickDisconnect,
                Command, organs
  <2> QED
    BY <1>1, <2>1
<1> QED
  BY <1>3, <1>4, <1>5, <1>6, <1>7, <1>8 DEF VivNext

\* No order of commands and flashes makes a device run a hash its cohort bricks
\* on, ignores, mangles or lies about (onCommand), for every fleet.
THEOREM IncompatibleHashesNeverRun == Spec => []IncompatibleNeverRuns
<1>1. Init => SparedInv
  <2>1. ASSUME Init, NEW d \in Device, Spares(d)
        PROVE  organ[d].running \notin Fleet[d].fails /\ DOMAIN flashes[d] = {}
    BY <2>1 DEF Init, VivInit, Spares
  <2> QED
    BY <2>1 DEF SparedInv
<1>2. VerifyTypeOK /\ SparedInv /\ [Next]_vars => SparedInv'
  <2> SUFFICES ASSUME VerifyTypeOK, SparedInv, [Next]_vars
               PROVE  SparedInv'
    OBVIOUS
  <2>1. CASE Live(VivNext)
    BY <2>1, SparedStep DEF Live, VerifyTypeOK
  <2>2. CASE ~Live(VivNext)
    <3>1. UNCHANGED <<organ, flashes>>
      BY <2>2 DEF Next, Subscribe, Record, Check, EchoOrNot, Deaf, Over, vars, vivVars, organs
    <3> QED
      BY <3>1 DEF SparedInv, Spares, Doomed
  <2> QED
    BY <2>1, <2>2
<1>3. SparedInv => IncompatibleNeverRuns
  BY DEF SparedInv, IncompatibleNeverRuns
<1> QED
  BY <1>1, <1>2, <1>3, VerifyTypeCorrect, PTL DEF Spec

-----------------------------------------------------------------------------
(* What verify finds.                                                       *)

\* Every step of the fleet leaves the devices that are up with their birth.
LEMMA BornStep ==
    ASSUME VivTypeOK, BornInv, VivNext
    PROVE  BornInv'
<1>1. CASE Connect \/ Pass \/ Snapshot
  <2>1. status' = status /\ announce' = announce /\ bricking' = bricking
        /\ \A d \in Device : link'[d] = "up" => link[d] = "up"
    BY <1>1 DEF Connect, Pass, Snapshot, organs, brokers, VivTypeOK
  <2> QED
    BY <2>1 DEF BornInv
<1>2. CASE ConnectFails \/ Close
  <2>1. \A d \in Device : link'[d] # "up"
    BY <1>2 DEF ConnectFails, Close
  <2> QED
    BY <2>1 DEF BornInv
<1>3. ASSUME NEW d \in Device,
             \/ OnConnect(d) \/ LoseConnection(d) \/ Reconnect(d) \/ Tick(d)
             \/ TickPublish(d) \/ OnCommand(d) \/ BrickDisconnect(d)
             \/ \E want \in Orders \cup {NoValue} : Command(d, want)
             \/ \E i \in DOMAIN flashes[d] : FlashDone(d, i)
      PROVE  BornInv'
  <2> SUFFICES ASSUME NEW e \in Device, link'[e] = "up", e \notin bricking'
               PROVE  status'[e] = "online" /\ announce'[e]
    BY DEF BornInv
  <2>1. CASE OnConnect(d)
    <3>1. CASE e = d
      BY <2>1, <3>1 DEF OnConnect, VivTypeOK
    <3>2. CASE e # d
      BY <2>1, <3>2 DEF OnConnect, VivTypeOK, BornInv, organs
    <3> QED
      BY <3>1, <3>2
  <2>2. CASE LoseConnection(d)
    BY <2>2 DEF LoseConnection, Wills, VivTypeOK, BornInv, organs
  <2>3. CASE Reconnect(d)
    BY <2>3 DEF Reconnect, VivTypeOK, BornInv, organs, brokers
  <2>4. CASE Tick(d) \/ TickPublish(d)
    BY <2>4 DEF Tick, TickPublish, BornInv, brokers
  <2>5. CASE OnCommand(d) \/ \E want \in Orders \cup {NoValue} : Command(d, want)
    BY <2>5 DEF OnCommand, Command, BornInv, organs
  <2>6. CASE BrickDisconnect(d)
    BY <2>6 DEF BrickDisconnect, VivTypeOK, BornInv
  <2>7. ASSUME NEW i \in DOMAIN flashes[d], FlashDone(d, i)
        PROVE  status'[e] = "online" /\ announce'[e]
    <3>1. announce' = announce /\ link' = link /\ bricking \subseteq bricking'
      BY <2>7 DEF FlashDone
    <3>2. status[e] = "online" /\ announce[e]
      BY <3>1 DEF BornInv
    <3>3. status'[e] = status[e]
      BY <2>7, <3>1 DEF FlashDone, VivTypeOK
    <3> QED
      BY <3>1, <3>2, <3>3
  <2> QED
    BY <1>3, <2>1, <2>2, <2>3, <2>4, <2>5, <2>6, <2>7
<1> QED
  BY <1>1, <1>2, <1>3 DEF VivNext

\* No step of the fleet subscribes anybody, and the broker sends a client that
\* is not subscribed nothing.
LEMMA FleetUnheard ==
    ASSUME VivNext
    PROVE  listening' = listening /\ (~listening => wire' = wire)
BY DEF VivNext, Connect, ConnectFails, Close, Pass, Snapshot, OnConnect, LoseConnection,
       Reconnect, Tick, TickPublish, Command, OnCommand, FlashDone, BrickDisconnect,
       Wills, Published, brokers

\* What a step of the fleet delivers while Subject stays up: messages that are
\* no bad news, and the echo of every command it takes from Subject's queue.
Delivers(ms) ==
    /\ ms \in Seq(Message) /\ wire' = wire \o ms
    /\ \A i \in DOMAIN ms : ms[i].topic = "status" => ms[i].payload = "online"
    /\ \/ queue'[Subject] = queue[Subject] \/ queue'[Subject] # <<>>
       \/ \E i \in DOMAIN ms : ms[i].topic = "echo"

\* A step that sends nothing and takes nothing from the queue delivers nothing.
LEMMA DeliversNothing ==
    ASSUME VivTypeOK, wire' = wire,
           queue'[Subject] = queue[Subject] \/ queue'[Subject] # <<>>
    PROVE  Delivers(<<>>)
<1>1. <<>> \in Seq(Message) /\ wire \o <<>> = wire
  BY EmptySeq, ConcatEmptySeq DEF VivTypeOK
<1>2. DOMAIN <<>> = {}
  OBVIOUS
<1> QED
  BY <1>1, <1>2 DEF Delivers

\* A report carries no status.
LEMMA ReportTopics ==
    ASSUME NEW h \in Hash, NEW sensor \in BOOLEAN, NEW hash \in BOOLEAN, NEW ms,
           ms = (IF sensor THEN <<Msg("sensor", NoValue, FALSE)>> ELSE <<>>)
                 \o (IF hash THEN <<Msg("hash", h, FALSE)>> ELSE <<>>)
    PROVE  ms \in Seq(Message) /\ \A i \in DOMAIN ms : ms[i].topic # "status"
<1>0. PICK a, b : /\ a = IF sensor THEN <<Msg("sensor", NoValue, FALSE)>> ELSE <<>>
                  /\ b = IF hash THEN <<Msg("hash", h, FALSE)>> ELSE <<>>
                  /\ ms = a \o b
  BY Zenon
<1>1. a \in Seq(Message) /\ b \in Seq(Message)
  BY <1>0, MessageTypes, OneMessage
<1>2. \A i \in 1..Len(a) : a[i].topic # "status"
  <2>1. CASE sensor
    BY <1>0, <2>1 DEF Msg
  <2>2. CASE ~sensor
    BY <1>0, <2>2
  <2> QED
    BY <2>1, <2>2
<1>3. \A i \in 1..Len(b) : b[i].topic # "status"
  <2>1. CASE hash
    BY <1>0, <2>1 DEF Msg
  <2>2. CASE ~hash
    BY <1>0, <2>2
  <2> QED
    BY <2>1, <2>2
<1>4. a \o b \in Seq(Message) /\ Len(a \o b) = Len(a) + Len(b)
      /\ \A i \in 1..(Len(a) + Len(b)) : (a \o b)[i] = IF i <= Len(a) THEN a[i] ELSE b[i - Len(a)]
  BY <1>1, ConcatProperties
<1>5. Len(a) \in Nat /\ Len(b) \in Nat /\ DOMAIN (a \o b) = 1..(Len(a) + Len(b))
  <2>1. Len(a) \in Nat /\ Len(b) \in Nat
    BY <1>1, LenProperties
  <2>2. DOMAIN (a \o b) = 1..Len(a \o b)
    BY <1>4, LenProperties
  <2> QED
    BY <1>4, <2>1, <2>2
<1>6. ASSUME NEW i \in 1..(Len(a) + Len(b)) PROVE (a \o b)[i].topic # "status"
  <2>1. CASE i <= Len(a)
    BY <1>2, <1>4, <1>5, <1>6, <2>1
  <2>2. CASE ~(i <= Len(a))
    <3>1. i - Len(a) \in 1..Len(b) /\ (a \o b)[i] = b[i - Len(a)]
      BY <1>4, <1>5, <1>6, <2>2
    <3> QED
      BY <1>3, <3>1
  <2> QED
    BY <2>1, <2>2
<1> QED
  BY <1>0, <1>4, <1>5, <1>6

\* Every step of the fleet that leaves Subject up delivers.
LEMMA FleetDelivers ==
    ASSUME VivTypeOK, VivNext, listening, link[Subject] = "up", StillUp
    PROVE  \E ms : Delivers(ms)
<1>0. Subject \in Device
  BY FleetFacts
<1>1. CASE Connect \/ Pass \/ Snapshot
  <2>1. wire' = wire /\ queue' = queue
    BY <1>1 DEF Connect, Pass, Snapshot, brokers
  <2> QED
    BY <2>1, DeliversNothing
<1>2. CASE ConnectFails \/ Close
  BY <1>0, <1>2 DEF ConnectFails, Close, StillUp
<1>3. ASSUME NEW d \in Device,
             \/ OnConnect(d) \/ LoseConnection(d) \/ Reconnect(d) \/ Tick(d)
             \/ BrickDisconnect(d)
      PROVE  \E ms : Delivers(ms)
  <2>1. CASE OnConnect(d)
    BY <2>1, DeliversNothing DEF OnConnect, Published
  <2>2. CASE LoseConnection(d)
    <3>1. d # Subject
      BY <2>2 DEF LoseConnection, StillUp, VivTypeOK
    <3> QED
      BY <1>0, <2>2, <3>1, DeliversNothing DEF LoseConnection, Wills
  <2>3. CASE Reconnect(d) \/ Tick(d)
    BY <2>3, DeliversNothing DEF Reconnect, Tick, brokers
  <2>4. CASE BrickDisconnect(d)
    <3>1. d # Subject
      BY <2>4 DEF BrickDisconnect, StillUp, VivTypeOK
    <3> QED
      BY <1>0, <2>4, <3>1, DeliversNothing DEF BrickDisconnect, VivTypeOK
  <2> QED
    BY <1>3, <2>1, <2>2, <2>3, <2>4
<1>4. ASSUME NEW d \in Device, TickPublish(d) PROVE \E ms : Delivers(ms)
  <2>1. PICK sensor \in BOOLEAN, hash \in BOOLEAN :
          wire' = IF OnLine(d)
                    THEN Published(d, (IF sensor THEN <<Msg("sensor", NoValue, FALSE)>> ELSE <<>>)
                                      \o (IF hash THEN <<Msg("hash", pend[d], FALSE)>> ELSE <<>>))
                    ELSE wire
    BY <1>4 DEF TickPublish
  <2> DEFINE ms == (IF sensor THEN <<Msg("sensor", NoValue, FALSE)>> ELSE <<>>)
                   \o (IF hash THEN <<Msg("hash", pend[d], FALSE)>> ELSE <<>>)
  <2>2. pend[d] \in Hash
    BY <1>4 DEF TickPublish, VivTypeOK, Payload
  <2>3. ms \in Seq(Message) /\ \A i \in DOMAIN ms : ms[i].topic # "status"
    BY <2>2, ReportTopics
  <2>4. wire' = wire \/ wire' = wire \o ms
    BY <2>1 DEF Published
  <2>5. queue' = queue
    BY <1>4 DEF TickPublish
  <2> HIDE DEF ms
  <2>6. CASE wire' = wire
    BY <2>5, <2>6, DeliversNothing
  <2>7. CASE wire' = wire \o ms
    BY <2>3, <2>5, <2>7 DEF Delivers
  <2> QED
    BY <2>4, <2>6, <2>7
<1>5. ASSUME NEW d \in Device, NEW want \in Orders \cup {NoValue}, Command(d, want)
      PROVE  \E ms : Delivers(ms)
  <2>1. wire' = wire
    BY <1>5 DEF Command
  <2>2. queue'[Subject] = queue[Subject] \/ queue'[Subject] # <<>>
    <3>1. want \in Payload
      BY FleetFacts DEF Payload
    <3>2. Append(queue[Subject], want) # <<>>
      <4>1. queue[Subject] \in Seq(Payload)
        BY <1>0 DEF VivTypeOK
      <4> QED
        BY <3>1, <4>1, AppendProperties, Zenon
    <3>3. queue' = queue \/ queue' = [queue EXCEPT ![d] = Append(@, want)]
      BY <1>5 DEF Command, Sent
    <3>4. queue \in [Device -> Seq(Payload)]
      BY DEF VivTypeOK
    <3> QED
      BY <1>0, <3>2, <3>3, <3>4
  <2> QED
    BY <2>1, <2>2, DeliversNothing
<1>6. ASSUME NEW d \in Device, OnCommand(d) PROVE \E ms : Delivers(ms)
  <2>1. CASE d # Subject
    <3>1. wire' = wire
      BY <1>6, <2>1 DEF OnCommand, Published
    <3>2. queue'[Subject] = queue[Subject]
      BY <1>0, <1>6, <2>1 DEF OnCommand, VivTypeOK
    <3> QED
      BY <3>1, <3>2, DeliversNothing
  <2>2. CASE d = Subject
    <3> DEFINE ms == <<Msg("echo", NoValue, FALSE)>>
    <3>1. wire' = wire \o ms
      BY <1>6, <2>2 DEF OnCommand, Published, Echo
    <3>2. ms \in Seq(Message)
      BY MessageTypes, OneMessage
    <3>3. DOMAIN ms = {1} /\ ms[1].topic = "echo"
      BY DEF Msg
    <3> HIDE DEF ms
    <3> QED
      BY <3>1, <3>2, <3>3 DEF Delivers
  <2> QED
    BY <2>1, <2>2
<1>7. ASSUME NEW d \in Device, NEW i \in DOMAIN flashes[d], FlashDone(d, i)
      PROVE  \E ms : Delivers(ms)
  <2>1. wire' = wire /\ queue' = queue
    <3>1. CASE d = Subject
      BY <1>7, <3>1 DEF FlashDone, StillUp
    <3>2. CASE d # Subject
      BY <1>7, <3>2 DEF FlashDone, Published
    <3> QED
      BY <3>1, <3>2
  <2> QED
    BY <2>1, DeliversNothing
<1> QED
  BY <1>1, <1>2, <1>3, <1>4, <1>5, <1>6, <1>7 DEF VivNext

\* What is delivered is appended: what was on the wire stays where it was.
LEMMA DeliveredWire ==
    ASSUME VivTypeOK, NEW ms, Delivers(ms)
    PROVE  /\ Len(wire) \in Nat /\ Len(ms) \in Nat
           /\ DOMAIN wire = 1..Len(wire) /\ DOMAIN ms = 1..Len(ms)
           /\ Len(wire') = Len(wire) + Len(ms) /\ DOMAIN wire' = 1..(Len(wire) + Len(ms))
           /\ \A i \in 1..Len(wire) : wire'[i] = wire[i]
           /\ \A i \in 1..Len(ms) : wire'[Len(wire) + i] = ms[i]
           /\ \A i \in DOMAIN wire' : \/ i \in 1..Len(wire) /\ wire'[i] = wire[i]
                                     \/ \E j \in 1..Len(ms) : wire'[i] = ms[j]
<1>1. wire \in Seq(Message) /\ ms \in Seq(Message) /\ wire' = wire \o ms
  BY DEF VivTypeOK, Delivers
<1>2. /\ Len(wire) \in Nat /\ Len(ms) \in Nat
      /\ DOMAIN wire = 1..Len(wire) /\ DOMAIN ms = 1..Len(ms)
  BY <1>1, LenProperties
<1>3. /\ wire' \in Seq(Message) /\ Len(wire') = Len(wire) + Len(ms)
      /\ \A i \in 1..(Len(wire) + Len(ms)) :
           wire'[i] = IF i <= Len(wire) THEN wire[i] ELSE ms[i - Len(wire)]
  BY <1>1, ConcatProperties
<1>4. DOMAIN wire' = 1..(Len(wire) + Len(ms))
  BY <1>3, LenProperties
<1>5. \A i \in 1..Len(wire) : wire'[i] = wire[i]
  BY <1>2, <1>3
<1>6. \A i \in 1..Len(ms) : wire'[Len(wire) + i] = ms[i]
  <2> TAKE i \in 1..Len(ms)
  <2>1. Len(wire) + i \in 1..(Len(wire) + Len(ms)) /\ ~(Len(wire) + i <= Len(wire))
        /\ (Len(wire) + i) - Len(wire) = i
    BY <1>2
  <2> QED
    BY <1>3, <2>1
<1>7. \A i \in DOMAIN wire' : \/ i \in 1..Len(wire) /\ wire'[i] = wire[i]
                              \/ \E j \in 1..Len(ms) : wire'[i] = ms[j]
  <2> TAKE i \in DOMAIN wire'
  <2>1. CASE i <= Len(wire)
    BY <1>2, <1>4, <1>5, <2>1
  <2>2. CASE ~(i <= Len(wire))
    <3>1. i - Len(wire) \in 1..Len(ms) /\ wire'[i] = ms[i - Len(wire)]
      BY <1>2, <1>3, <1>4, <2>2
    <3> QED
      BY <3>1
  <2> QED
    BY <2>1, <2>2
<1> QED
  BY <1>2, <1>3, <1>4, <1>5, <1>6, <1>7

\* A step of the fleet keeps what is known of the watch.
LEMMA WatchFleet ==
    ASSUME VerifyTypeOK, WatchInv, Live(VivNext)
    PROVE  WatchInv'
<1>0. /\ VivTypeOK /\ VivNext
      /\ UNCHANGED <<phase, seen, heard, kept, echoed, green, verdict>>
      /\ (calm' => calm /\ (phase = "done" \/ StillUp))
  BY DEF VerifyTypeOK, Live
<1>1. BornInv'
  BY <1>0, BornStep DEF WatchInv
<1>2. listening' = listening /\ (~listening => wire' = wire)
  BY <1>0, FleetUnheard
<1>3. QuietInv'
  BY <1>0, <1>2 DEF WatchInv, QuietInv
<1>4. GapsAreReal'
  BY <1>0 DEF WatchInv, GapsAreReal
<1>5. ASSUME calm', phase \in {"watching", "probing"}
      PROVE  CalmInv' /\ BirthInv' /\ EchoInv'
  <2>1. calm /\ StillUp
    BY <1>0, <1>5
  <2>2. link[Subject] = "up" /\ Subject \notin bricking /\ listening
        /\ \A i \in DOMAIN wire : wire[i].topic = "status" => wire[i].payload = "online"
    BY <1>5, <2>1 DEF WatchInv, CalmInv, Asking
  <2>3. PICK ms : Delivers(ms)
    BY <1>0, <2>1, <2>2, FleetDelivers
  <2>4. /\ Len(wire) \in Nat /\ Len(ms) \in Nat
        /\ DOMAIN wire = 1..Len(wire) /\ DOMAIN ms = 1..Len(ms)
        /\ Len(wire') = Len(wire) + Len(ms) /\ DOMAIN wire' = 1..(Len(wire) + Len(ms))
        /\ \A i \in 1..Len(wire) : wire'[i] = wire[i]
        /\ \A i \in 1..Len(ms) : wire'[Len(wire) + i] = ms[i]
        /\ \A i \in DOMAIN wire' : \/ i \in 1..Len(wire) /\ wire'[i] = wire[i]
                                  \/ \E j \in 1..Len(ms) : wire'[i] = ms[j]
    BY <1>0, <2>3, DeliveredWire
  <2>5. \A i \in DOMAIN ms : ms[i].topic = "status" => ms[i].payload = "online"
    BY <2>3 DEF Delivers
  <2>6. CalmInv'
    <3>1. \A i \in DOMAIN wire' : wire'[i].topic = "status" => wire'[i].payload = "online"
      BY <2>2, <2>4, <2>5
    <3>2. link'[Subject] = "up" /\ Subject \notin bricking'
      BY <2>1 DEF StillUp
    <3> QED
      BY <1>2, <2>2, <3>1, <3>2 DEF CalmInv
  <2>7. BirthInv'
    <3> SUFFICES ASSUME phase = "watching"
                 PROVE  BothAhead' \/ OneAhead' \/ Recorded'
      BY <1>0 DEF BirthInv
    <3>1. BothAhead \/ OneAhead \/ Recorded
      BY <2>1 DEF WatchInv, BirthInv
    <3>2. CASE BothAhead
      <4>0. Len(wire) >= 2
        BY <3>2 DEF BothAhead
      <4>1. Len(wire') >= 2 /\ wire'[1] = wire[1] /\ wire'[2] = wire[2]
        BY <2>4, <4>0
      <4> QED
        BY <1>0, <3>2, <4>1, Zenon DEF BothAhead
    <3>3. CASE OneAhead
      <4>1. Len(wire') >= 1 /\ wire'[1] = wire[1]
        BY <2>4, <3>3 DEF OneAhead
      <4> QED
        BY <1>0, <3>3, <4>1 DEF OneAhead
    <3>4. CASE Recorded
      BY <1>0, <3>4 DEF Recorded
    <3> QED
      BY <3>1, <3>2, <3>3, <3>4
  <2>8. EchoInv'
    <3> SUFFICES ASSUME phase = "probing"
                 PROVE  /\ {"sensor", "hash"} \subseteq green
                             => {"status", "announce"} \subseteq green
                        /\ \/ echoed \/ queue'[Subject] # <<>>
                           \/ \E i \in DOMAIN wire' : wire'[i].topic = "echo"
      BY <1>0 DEF EchoInv
    <3>1. /\ {"sensor", "hash"} \subseteq green => {"status", "announce"} \subseteq green
          /\ \/ echoed \/ queue[Subject] # <<>>
             \/ \E i \in DOMAIN wire : wire[i].topic = "echo"
      BY <2>1 DEF WatchInv, EchoInv
    <3>2. CASE \E i \in DOMAIN wire : wire[i].topic = "echo"
      <4>1. PICK i \in 1..Len(wire) : wire[i].topic = "echo"
        BY <2>4, <3>2
      <4>2. i \in DOMAIN wire' /\ wire'[i] = wire[i]
        BY <2>4, <4>1
      <4> QED
        BY <3>1, <4>1, <4>2
    <3>3. CASE \E i \in DOMAIN ms : ms[i].topic = "echo"
      <4>1. PICK i \in 1..Len(ms) : ms[i].topic = "echo"
        BY <2>4, <3>3
      <4>2. Len(wire) + i \in DOMAIN wire' /\ wire'[Len(wire) + i] = ms[i]
        BY <2>4, <4>1
      <4> QED
        BY <3>1, <4>1, <4>2
    <3>4. \/ queue'[Subject] = queue[Subject] \/ queue'[Subject] # <<>>
          \/ \E i \in DOMAIN ms : ms[i].topic = "echo"
      BY <2>3 DEF Delivers
    <3> QED
      BY <3>1, <3>2, <3>3, <3>4
  <2> QED
    BY <2>6, <2>7, <2>8
<1>6. CASE ~(calm' /\ phase \in {"watching", "probing"})
  BY <1>0, <1>1, <1>3, <1>4, <1>6 DEF WatchInv, CalmInv, BirthInv, EchoInv, Asking
<1> QED
  BY <1>1, <1>3, <1>4, <1>5, <1>6 DEF WatchInv

\* Subscribing to a device that is up: what it is owed lies ahead.
LEMMA WatchSubscribe ==
    ASSUME VerifyTypeOK, WatchInv, Subscribe
    PROVE  WatchInv'
<1>0. /\ phase = "off" /\ phase' = "watching" /\ listening'
      /\ (calm' => link[Subject] = "up" /\ Subject \notin bricking)
      /\ UNCHANGED <<link, bricking, status, announce, heard>>
      /\ Subject \in Device
  BY FleetFacts DEF Subscribe, organs
<1>1. BornInv' /\ QuietInv' /\ EchoInv' /\ GapsAreReal'
  BY <1>0 DEF WatchInv, BornInv, QuietInv, EchoInv, GapsAreReal
<1>2. ASSUME calm' PROVE CalmInv' /\ BirthInv'
  <2> DEFINE s == Msg("status", "online", TRUE)
             a == Msg("announce", NoValue, TRUE)
  <2>1. status[Subject] = "online" /\ announce[Subject] /\ status[Subject] # NoValue
    <3>1. status[Subject] = "online" /\ announce[Subject]
      BY <1>0, <1>2 DEF WatchInv, BornInv
    <3>2. "online" # NoValue
      BY FleetAssumption
    <3> QED
      BY <3>1, <3>2
  <2>2. wire' = <<s>> \o <<a>>
    BY <2>1 DEF Subscribe
  <2>3. s.topic = "status" /\ s.payload = "online" /\ a.topic = "announce"
        /\ s \in Message /\ a \in Message
    BY MessageTypes DEF Msg
  <2> HIDE DEF s, a
  <2>4. Len(wire') = 2 /\ wire'[1] = s /\ wire'[2] = a /\ DOMAIN wire' = {1, 2}
    <3>1. /\ <<s>> \in Seq(Message) /\ Len(<<s>>) = 1 /\ <<s>>[1] = s
          /\ <<a>> \in Seq(Message) /\ Len(<<a>>) = 1 /\ <<a>>[1] = a
      BY <2>3
    <3>2. /\ wire' \in Seq(Message) /\ Len(wire') = 2
          /\ \A i \in 1..2 : wire'[i] = IF i <= 1 THEN <<s>>[i] ELSE <<a>>[i - 1]
      BY <2>2, <3>1, ConcatProperties
    <3>3. DOMAIN wire' = 1..2
      BY <3>2, LenProperties
    <3> QED
      BY <3>1, <3>2, <3>3
  <2>5. CalmInv'
    BY <1>0, <1>2, <2>3, <2>4 DEF CalmInv
  <2>6. BothAhead'
    <3>1. heard' = {}
      BY <1>0 DEF WatchInv, QuietInv
    <3>2. wire'[1] = Msg("status", "online", TRUE)
      BY <2>4 DEF s
    <3> QED
      BY <2>3, <2>4, <3>1, <3>2 DEF BothAhead
  <2> QED
    BY <2>5, <2>6 DEF BirthInv
<1>3. CASE ~calm'
  BY <1>1, <1>3 DEF WatchInv, CalmInv, BirthInv, Asking
<1> QED
  BY <1>1, <1>2, <1>3 DEF WatchInv

\* The callback takes what lies ahead in order, and an echo while probing is
\* the one that is waited for.
LEMMA WatchRecord ==
    ASSUME VerifyTypeOK, WatchInv, Record
    PROVE  WatchInv'
<1> DEFINE m == Head(wire)
<1>0. /\ wire # <<>> /\ wire' = Tail(wire)
      /\ seen' = [t \in DOMAIN seen |-> IF t = m.topic THEN m.payload ELSE seen[t]]
      /\ heard' = heard \cup {m.topic}
      /\ kept' = (kept \/ (m.topic = "status" /\ m.retained))
      /\ echoed' = (echoed \/ (m.topic = "echo" /\ phase = "probing"))
      /\ UNCHANGED <<link, bricking, queue, status, announce, listening, phase, green,
                     verdict, calm>>
  BY DEF Record, organs
<1>1. wire \in Seq(Message)
  BY DEF VerifyTypeOK, VivTypeOK
<1>2. /\ Len(wire) \in Nat \ {0} /\ DOMAIN wire = 1..Len(wire)
      /\ wire' \in Seq(Message) /\ Len(wire') = Len(wire) - 1
      /\ DOMAIN wire' = 1..(Len(wire) - 1)
      /\ \A i \in 1..(Len(wire) - 1) : wire'[i] = wire[i + 1]
      /\ m = wire[1]
  <2>1. Len(wire) \in Nat \ {0} /\ DOMAIN wire = 1..Len(wire)
    BY <1>0, <1>1, EmptySeq, LenProperties
  <2>2. /\ wire' \in Seq(Message) /\ Len(wire') = Len(wire) - 1
        /\ \A i \in 1..Len(wire') : wire'[i] = wire[i + 1]
    BY <1>0, <1>1, HeadTailProperties
  <2>3. DOMAIN wire' = 1..Len(wire')
    BY <2>2, LenProperties
  <2>4. m = wire[1]
    BY <1>0, <1>1
  <2> QED
    BY <2>1, <2>2, <2>3, <2>4
<1> HIDE DEF m
<1>3. BornInv' /\ GapsAreReal'
  BY <1>0 DEF WatchInv, BornInv, GapsAreReal
<1>4. QuietInv'
  BY <1>0 DEF WatchInv, QuietInv
<1>5. ASSUME calm, phase \in {"watching", "probing"}
      PROVE  CalmInv' /\ BirthInv' /\ EchoInv'
  <2>1. /\ link[Subject] = "up" /\ Subject \notin bricking /\ listening
        /\ \A i \in DOMAIN wire : wire[i].topic = "status" => wire[i].payload = "online"
    BY <1>5 DEF WatchInv, CalmInv, Asking
  <2>2. CalmInv'
    <3>1. \A i \in DOMAIN wire' : wire'[i].topic = "status" => wire'[i].payload = "online"
      <4> TAKE i \in DOMAIN wire'
      <4>1. i + 1 \in DOMAIN wire /\ wire'[i] = wire[i + 1]
        BY <1>2
      <4> QED
        BY <2>1, <4>1
    <3> QED
      BY <1>0, <2>1, <3>1 DEF CalmInv
  <2>3. seen'["status"] = IF m.topic = "status" THEN m.payload ELSE seen["status"]
    BY <1>0 DEF VerifyTypeOK, Read
  <2>4. m.topic = "status" => m.payload = "online"
    BY <1>2, <2>1
  <2>5. BirthInv'
    <3> SUFFICES ASSUME phase = "watching"
                 PROVE  OneAhead' \/ Recorded'
      BY <1>0 DEF BirthInv
    <3>1. BothAhead \/ OneAhead \/ Recorded
      BY <1>5 DEF WatchInv, BirthInv
    <3>2. CASE BothAhead
      <4>1. /\ heard = {} /\ Len(wire) >= 2 /\ wire[2].topic = "announce"
            /\ m = Msg("status", "online", TRUE)
        BY <1>2, <3>2, Zenon DEF BothAhead
      <4>2. m.topic = "status" /\ m.payload = "online" /\ m.retained
        BY <4>1 DEF Msg
      <4>3. heard' = {"status"} /\ kept' /\ seen'["status"] = "online"
        BY <1>0, <2>3, <4>1, <4>2
      <4>4. Len(wire') >= 1 /\ wire'[1].topic = "announce"
        <5>1. 1 \in 1..(Len(wire) - 1) /\ wire'[1] = wire[2]
          BY <1>2, <4>1
        <5> QED
          BY <1>2, <4>1, <5>1
      <4> QED
        BY <4>3, <4>4 DEF OneAhead
    <3>3. CASE OneAhead
      <4>1. m.topic = "announce" /\ heard = {"status"} /\ kept /\ seen["status"] = "online"
        BY <1>2, <3>3 DEF OneAhead
      <4>2. {"status", "announce"} \subseteq heard' /\ kept' /\ seen'["status"] = "online"
        BY <1>0, <2>3, <4>1
      <4> QED
        BY <4>2 DEF Recorded
    <3>4. CASE Recorded
      <4>1. {"status", "announce"} \subseteq heard' /\ kept' /\ seen'["status"] = "online"
        BY <1>0, <2>3, <2>4, <3>4 DEF Recorded
      <4> QED
        BY <4>1 DEF Recorded
    <3> QED
      BY <3>1, <3>2, <3>3, <3>4
  <2>6. EchoInv'
    <3> SUFFICES ASSUME phase = "probing"
                 PROVE  /\ {"sensor", "hash"} \subseteq green
                             => {"status", "announce"} \subseteq green
                        /\ \/ echoed' \/ queue[Subject] # <<>>
                           \/ \E i \in DOMAIN wire' : wire'[i].topic = "echo"
      BY <1>0 DEF EchoInv
    <3>1. /\ {"sensor", "hash"} \subseteq green => {"status", "announce"} \subseteq green
          /\ \/ echoed \/ queue[Subject] # <<>>
             \/ \E i \in DOMAIN wire : wire[i].topic = "echo"
      BY <1>5 DEF WatchInv, EchoInv
    <3>2. ASSUME NEW i \in DOMAIN wire, wire[i].topic = "echo"
          PROVE  echoed' \/ \E j \in DOMAIN wire' : wire'[j].topic = "echo"
      <4>1. CASE i = 1
        BY <1>0, <1>2, <3>2, <4>1
      <4>2. CASE i # 1
        <5>1. i - 1 \in DOMAIN wire' /\ wire'[i - 1] = wire[i]
          BY <1>2, <4>2
        <5> QED
          BY <3>2, <5>1
      <4> QED
        BY <4>1, <4>2
    <3>3. echoed => echoed'
      BY <1>0
    <3> QED
      BY <3>1, <3>2, <3>3
  <2> QED
    BY <2>2, <2>5, <2>6
<1>6. CASE ~(calm /\ phase \in {"watching", "probing"})
  BY <1>0, <1>3, <1>4, <1>6 DEF WatchInv, CalmInv, BirthInv, EchoInv, Asking
<1> QED
  BY <1>0, <1>3, <1>4, <1>5, <1>6 DEF WatchInv

\* The checks: a report that came after the retained messages finds them
\* recorded, and the probe is queued at the device.
LEMMA WatchCheck ==
    ASSUME VerifyTypeOK, WatchInv, Check
    PROVE  WatchInv'
<1>0. /\ phase = "watching" /\ phase' \in {"probing", "done"}
      /\ UNCHANGED <<link, bricking, status, announce, calm>>
  BY DEF Check, Done, organs
<1>1. BornInv' /\ QuietInv' /\ BirthInv'
  BY <1>0 DEF WatchInv, BornInv, QuietInv, BirthInv
<1>2. CASE ~TestOTA
  <2>1. phase' = "done"
    BY <1>2 DEF Check, Done
  <2> QED
    BY <1>1, <1>2, <2>1 DEF WatchInv, CalmInv, EchoInv, GapsAreReal, Asking
<1>3. CASE TestOTA
  <2>1. /\ phase' = "probing" /\ UNCHANGED <<wire, listening>>
        /\ green' = {i \in Items : \/ i = "status" /\ checkStatus
                                   \/ i = "sensor" /\ checkSensors
                                   \/ i = "hash" /\ checkRunningHash
                                   \/ i = "announce" /\ checkAnnounce}
        /\ Sent(Subject, IF checkRunningHash THEN seen["hash"] ELSE Noop)
    BY <1>3 DEF Check
  <2>2. CalmInv'
    BY <1>0, <2>1 DEF WatchInv, CalmInv, Asking
  <2>3. ASSUME calm, {"sensor", "hash"} \subseteq green'
        PROVE  {"status", "announce"} \subseteq green'
    <3>1. "sensor" \in heard
      BY <2>1, <2>3 DEF checkSensors
    <3>2. Recorded
      <4>1. BothAhead \/ OneAhead \/ Recorded
        BY <1>0, <2>3 DEF WatchInv, BirthInv
      <4>2. ~BothAhead
        BY <3>1 DEF BothAhead
      <4>3. ~OneAhead
        BY <3>1 DEF OneAhead
      <4> QED
        BY <4>1, <4>2, <4>3
    <3>3. checkStatus /\ checkAnnounce
      BY <3>2 DEF Recorded, checkStatus, checkAnnounce
    <3> QED
      BY <2>1, <3>3 DEF Items
  <2>4. ASSUME calm PROVE queue'[Subject] # <<>>
    <3> DEFINE p == IF checkRunningHash THEN seen["hash"] ELSE Noop
    <3>1. Subject \in Device /\ queue \in [Device -> Seq(Payload)] /\ p \in Payload
      BY FleetFacts DEF VerifyTypeOK, VivTypeOK, Payload
    <3>2. link[Subject] = "up"
      BY <1>0, <2>4 DEF WatchInv, CalmInv, Asking
    <3>3. queue' = [queue EXCEPT ![Subject] = Append(queue[Subject], p)]
      BY <2>1, <3>2 DEF Sent
    <3> HIDE DEF p
    <3>4. Append(queue[Subject], p) # <<>>
      <4>1. queue[Subject] \in Seq(Payload)
        BY <3>1
      <4> QED
        BY <3>1, <4>1, AppendProperties
    <3> QED
      BY <3>1, <3>3, <3>4
  <2>5. EchoInv' /\ GapsAreReal'
    BY <1>0, <2>1, <2>3, <2>4 DEF EchoInv, GapsAreReal
  <2> QED
    BY <1>1, <2>2, <2>5 DEF WatchInv
<1> QED
  BY <1>2, <1>3

\* The verdict: of a calm watch the echo has come.
LEMMA WatchEcho ==
    ASSUME VerifyTypeOK, WatchInv, EchoOrNot
    PROVE  WatchInv'
<1>0. /\ phase = "probing" /\ phase' = "done"
      /\ UNCHANGED <<link, bricking, status, announce, calm>>
  BY DEF EchoOrNot, Done, organs
<1>1. BornInv' /\ QuietInv' /\ CalmInv' /\ BirthInv' /\ EchoInv'
  BY <1>0 DEF WatchInv, BornInv, QuietInv, CalmInv, BirthInv, EchoInv, Asking
<1>2. ASSUME calm, verdict' # "cannot be managed" PROVE verdict' = "conformant"
  <2>1. /\ {"sensor", "hash"} \subseteq green => {"status", "announce"} \subseteq green
        /\ \/ echoed \/ queue[Subject] # <<>>
           \/ \E i \in DOMAIN wire : wire[i].topic = "echo"
    BY <1>0, <1>2 DEF WatchInv, EchoInv
  <2>2. Done(green \cup {"firmware"})
    BY <2>1 DEF EchoOrNot
  <2>3. verdict' = Report(green \cup {"firmware"})
    BY <2>2 DEF Done
  <2>4. green \subseteq Items
    BY DEF VerifyTypeOK
  <2>5. {"sensor", "hash"} \subseteq green
    BY <1>2, <2>3 DEF Report, Required
  <2>6. green \cup {"firmware"} = Items
    BY <2>1, <2>4, <2>5 DEF Items
  <2> QED
    BY <2>3, <2>5, <2>6 DEF Report, Required
<1>3. GapsAreReal'
  BY <1>0, <1>2 DEF GapsAreReal
<1> QED
  BY <1>1, <1>3 DEF WatchInv

\* Every step keeps what is known of the watch.
LEMMA WatchStep ==
    ASSUME VerifyTypeOK, WatchInv, [Next]_vars
    PROVE  WatchInv'
<1>1. CASE Deaf
  <2>1. /\ ~calm' /\ listening /\ ~listening' /\ wire' = <<>>
        /\ UNCHANGED <<link, bricking, status, announce, phase, heard, verdict>>
    BY <1>1 DEF Deaf, organs
  <2> QED
    BY <2>1 DEF WatchInv, BornInv, QuietInv, CalmInv, BirthInv, EchoInv, GapsAreReal, Asking
<1>2. CASE Over \/ UNCHANGED vars
  <2>1. UNCHANGED vars
    BY <1>2 DEF Over
  <2> QED
    BY <2>1 DEF vars, vivVars, verifyVars, organs, brokers, WatchInv, BornInv, QuietInv,
                CalmInv, BirthInv, EchoInv, GapsAreReal, Asking, BothAhead, OneAhead, Recorded
<1> QED
  BY <1>1, <1>2, WatchFleet, WatchSubscribe, WatchRecord, WatchCheck, WatchEcho DEF Next

\* A gap verify reports is one (main): for every fleet, every command meanwhile
\* and every interleaving of the callback with the device, a device that was up
\* when verify subscribed and stayed up, and that reported, is conformant.
THEOREM ReportedGapsAreReal == Spec => []GapsAreReal
<1>1. Init => WatchInv
  <2> SUFFICES ASSUME Init PROVE WatchInv
    OBVIOUS
  <2>1. phase = "off" /\ ~calm /\ heard = {} /\ wire = <<>> /\ ~listening
        /\ \A d \in Device : link[d] = "off"
    BY DEF Init, VivInit
  <2> QED
    BY <2>1 DEF WatchInv, BornInv, QuietInv, CalmInv, BirthInv, EchoInv, GapsAreReal, Asking
<1>2. VerifyTypeOK /\ WatchInv /\ [Next]_vars => WatchInv'
  BY WatchStep
<1>3. WatchInv => GapsAreReal
  BY DEF WatchInv
<1> QED
  BY <1>1, <1>2, <1>3, VerifyTypeCorrect, PTL DEF Spec
=============================================================================
