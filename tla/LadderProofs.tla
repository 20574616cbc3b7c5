---------------------------- MODULE LadderProofs ----------------------------
(***************************************************************************)
(* Proofs about Ladder, for every set of devices, with any number of doors *)
(* and properties.  What a door can carry depends on the device and on the *)
(* size of the write alone, and what carries a longer value carries a      *)
(* shorter one, so the invariant ties each piece of the history to the     *)
(* doors: what is unavailable fits none, what was carried fits one, and a  *)
(* write under way has a door that fits and is direct.                     *)
(***************************************************************************)
EXTENDS Ladder, NaturalFacts

\* The doors are positions of a list.
LEMMA DoorsAreNatural ==
    ASSUME dev \in Devices
    PROVE  Doors \in SUBSET Nat
<1>1. dev.declared \in Seq(Transport)
  BY LadderAssumption DEF DeviceType
<1>2. DOMAIN dev.declared = 1..Len(dev.declared) /\ Len(dev.declared) \in Nat
  BY <1>1
<1>3. \A x : DOMAIN <<x>> = 1..1
  OBVIOUS
<1>4. CASE dev.declared # <<>>
  BY <1>2, <1>4 DEF Doors, effectiveTransports
<1>5. CASE dev.declared = <<>> /\ dev.gateway
  BY <1>3, <1>5 DEF Doors, effectiveTransports
<1>6. CASE dev.declared = <<>> /\ ~dev.gateway
  BY <1>3, <1>6 DEF Doors, effectiveTransports
<1> QED
  BY <1>4, <1>5, <1>6

\* No step changes the device, nor what its doors can carry.
LEMMA SameDoors ==
    ASSUME dev' = dev
    PROVE  /\ effectiveTransports' = effectiveTransports
           /\ Doors' = Doors
           /\ \A i : Door(i)' = Door(i)
           /\ \A p, n : Capable(p, n)' = Capable(p, n)
<1>1. effectiveTransports' = effectiveTransports
  BY DEF effectiveTransports
<1>2. Doors' = Doors /\ \A i : Door(i)' = Door(i)
  BY <1>1 DEF Doors, Door
<1>3. \A p, i, n : Fits(i, dev.visitor[p], n)' = Fits(i, dev.visitor[p], n)
  BY <1>2 DEF Fits
<1> QED
  BY <1>1, <1>2, <1>3 DEF Capable

\* A door's limit is a number.
LEMMA DoorLimit ==
    ASSUME dev \in Devices, NEW i \in Doors
    PROVE  Door(i).max \in Nat
<1>1. dev.declared \in Seq(Transport)
  BY LadderAssumption DEF DeviceType
<1>2. CASE dev.declared # <<>>
  <2>1. Door(i) \in Transport
    BY <1>1, <1>2 DEF Doors, Door, effectiveTransports
  <2> QED
    BY <2>1 DEF Transport
<1>3. CASE dev.declared = <<>>
  <2>1. i = 1
    BY <1>3 DEF Doors, effectiveTransports
  <2>2. CASE dev.gateway
    BY <1>3, <2>1, <2>2, LadderAssumption DEF Door, effectiveTransports
  <2>3. CASE ~dev.gateway
    BY <1>3, <2>1, <2>3 DEF Door, effectiveTransports
  <2> QED
    BY <2>2, <2>3
<1> QED
  BY <1>2, <1>3

\* The doors that carry a value carry every shorter one.
LEMMA ShorterFits ==
    ASSUME dev \in Devices, NEW p, NEW m \in Nat, NEW n \in Nat, m <= n
    PROVE  Capable(p, n) \subseteq Capable(p, m)
<1> SUFFICES ASSUME NEW i \in Doors, Fits(i, dev.visitor[p], n)
             PROVE  Fits(i, dev.visitor[p], m)
  BY DEF Capable
<1>1. Door(i).max \in Nat
  BY DoorLimit
<1> QED
  BY <1>1 DEF Fits

\* selectTransport's loop ends at one of the doors it may choose from.
LEMMA FirstDoor ==
    ASSUME NEW S \in SUBSET Nat, S # {}
    PROVE  (CHOOSE i \in S : \A j \in S : i <= j) \in S
BY LeastNatural

LEMMA OlderIsAge ==
    ASSUME NEW a \in Age \cup {Never}
    PROVE  Older(a) \in Age \cup {Never}
BY LadderAssumption DEF Older, Age

-----------------------------------------------------------------------------
(* The inductive invariant *)

\* A write under way has a door that can carry it and that is no gateway's.
JobsHaveDoors ==
    \A w \in Writer : job[w] # Idle =>
        /\ job[w].door \in Capable(job[w].prop, job[w].size)
        /\ Door(job[w].door).direct
        /\ w = "handler" => job[w].size = dev.visitor[job[w].prop].size

\* What the doors can carry decides what was refused and what was carried.
FittingInv ==
    /\ \A u \in unavailable : Capable(u[1], u[2]) = {}
    /\ \A c \in carried : Capable(c[1], c[2]) # {}
    /\ \A p \in written : \E i \in Capable(p, dev.visitor[p].size) : Door(i).direct

\* Only what is read-only or written is reported.
FateInv ==
    \A p \in Property :
        fate[p] = "reported" => dev.visitor[p].readOnly \/ p \in written

LadderInv == LadderTypeOK /\ JobsHaveDoors /\ FittingInv /\ FateInv

LEMMA InvInit == Init => LadderInv
<1> SUFFICES ASSUME Init PROVE LadderInv
  OBVIOUS
<1>1. LadderTypeOK
  <2>1. dev \in Devices /\ near \in [Type -> BOOLEAN]
        /\ session \in [Type -> BOOLEAN] /\ kept \in [Type -> BOOLEAN]
    BY Zenon DEF Init
  <2>2. /\ heard \in [Type -> Age \cup {Never}]
        /\ job \in [Writer -> {Idle} \cup [prop : Property, size : Nat, door : Doors]]
        /\ fate \in [Property -> {"todo", "skipped", "deferred", "reported"}]
    BY DEF Init, NewClient
  <2>3. /\ phase \in {"off", "on", "failed"} /\ conn \in BOOLEAN
        /\ subs \subseteq Doors
    BY DEF Init, NewClient
  <2>4. faults \in 0..MaxFaults
    BY LadderAssumption DEF Init
  <2>5. written \subseteq Property /\ unavailable \subseteq Property \X Nat
        /\ carried \subseteq Property \X Nat
    BY DEF Init, NewClient
  <2> QED
    BY <2>1, <2>2, <2>3, <2>4, <2>5, Zenon DEF LadderTypeOK
<1>2. JobsHaveDoors /\ FittingInv /\ FateInv
  BY DEF Init, NewClient, JobsHaveDoors, FittingInv, FateInv
<1> QED
  BY <1>1, <1>2 DEF LadderInv

-----------------------------------------------------------------------------
(* The steps that leave the writers and the history alone *)

Quiet == dev' = dev /\ job' = job /\ fate' = fate /\ history' = history

LEMMA QuietInv ==
    ASSUME LadderInv, Quiet, LadderTypeOK'
    PROVE  LadderInv'
<1>1. /\ job' = job /\ fate' = fate /\ written' = written
      /\ unavailable' = unavailable /\ carried' = carried /\ dev' = dev
  BY DEF Quiet, history
<1>2. (\A i : Door(i)' = Door(i)) /\ (\A p, n : Capable(p, n)' = Capable(p, n))
  BY <1>1, SameDoors
<1>3. JobsHaveDoors'
  BY <1>1, <1>2 DEF LadderInv, JobsHaveDoors
<1>4. FittingInv'
  BY <1>1, <1>2 DEF LadderInv, FittingInv
<1>5. FateInv'
  BY <1>1 DEF LadderInv, FateInv
<1> QED
  BY <1>3, <1>4, <1>5 DEF LadderInv

\* A message that arrives, and a subscription, keep the types.
LEMMA SubscribedType ==
    ASSUME LadderTypeOK, NEW S \in SUBSET Doors, Subscribed(S)
    PROVE  /\ conn' \in BOOLEAN /\ subs' \subseteq Doors
           /\ heard' \in [Type -> Age \cup {Never}]
BY LadderAssumption DEF LadderTypeOK, Subscribed, Age

LEMMA SubscribeAllType ==
    ASSUME LadderTypeOK, SubscribeAll
    PROVE  /\ conn' \in BOOLEAN /\ subs' \subseteq Doors
           /\ heard' \in [Type -> Age \cup {Never}] /\ faults' \in 0..MaxFaults
<1> DEFINE all == {i \in Doors : Listens(i)}
<1>1. CASE Subscribed(all) /\ UNCHANGED faults
  BY <1>1, SubscribedType DEF LadderTypeOK
<1>2. CASE Fault /\ \E i \in all : Subscribed(all \ {i})
  <2>1. PICK i \in all : Subscribed(all \ {i})
    BY <1>2
  <2>2. faults' \in 0..MaxFaults
    BY <1>2, LadderAssumption DEF Fault, LadderTypeOK
  <2> QED
    BY <2>1, <2>2, SubscribedType
<1> QED
  BY <1>1, <1>2 DEF SubscribeAll

LEMMA ArrivesType ==
    ASSUME LadderTypeOK, NEW i \in Doors, Arrives(i), session' \in [Type -> BOOLEAN]
    PROVE  LadderTypeOK' /\ Quiet
<1>1. Quiet
  BY DEF Arrives, Quiet
<1>2. Doors' = Doors
  BY <1>1, SameDoors DEF Quiet
<1>3. kept' \in [Type -> BOOLEAN]
  BY DEF Arrives, LadderTypeOK
<1>4. heard' \in [Type -> Age \cup {Never}]
  <2>1. 0 \in Age \cup {Never} /\ heard \in [Type -> Age \cup {Never}]
    BY LadderAssumption DEF LadderTypeOK, Age
  <2>2. heard' = heard \/ heard' = [heard EXCEPT ![Door(i).type] = 0]
    BY DEF Arrives
  <2> QED
    BY <2>1, <2>2
<1> QED
  BY <1>1, <1>2, <1>3, <1>4 DEF LadderTypeOK, Arrives, history

LEMMA QuietSteps ==
    ASSUME LadderTypeOK,
           \/ \E t \in Type : Approach(t) \/ Leave(t)
           \/ \E i \in Doors : Speak(i) \/ Will(i)
           \/ Start \/ LoseBroker \/ Reconnect \/ Tick
    PROVE  LadderTypeOK' /\ Quiet
<1> USE LadderAssumption
<1>1. dev' = dev => Doors' = Doors
  BY SameDoors
<1>2. ASSUME NEW t \in Type, Approach(t) PROVE LadderTypeOK' /\ Quiet
  BY <1>1, <1>2 DEF Approach, Fault, LadderTypeOK, Quiet, client, history
<1>3. ASSUME NEW t \in Type, Leave(t) PROVE LadderTypeOK' /\ Quiet
  BY <1>1, <1>3 DEF Leave, LadderTypeOK, Quiet, client, history
<1>4. ASSUME NEW i \in Doors, Speak(i) PROVE LadderTypeOK' /\ Quiet
  BY <1>4, ArrivesType DEF Speak, LadderTypeOK
<1>5. ASSUME NEW i \in Doors, Will(i) PROVE LadderTypeOK' /\ Quiet
  <2>1. session' \in [Type -> BOOLEAN]
    BY <1>5 DEF Will, LadderTypeOK
  <2> QED
    BY <1>5, <2>1, ArrivesType DEF Will
<1>6. CASE Start
  <2>1. /\ conn' \in BOOLEAN /\ subs' \subseteq Doors
        /\ heard' \in [Type -> Age \cup {Never}] /\ faults' \in 0..MaxFaults
    <3>1. CASE SubscribeAll
      BY <3>1, SubscribeAllType
    <3>2. CASE UNCHANGED <<conn, subs, heard>> /\ (Fault \/ UNCHANGED faults)
      BY <3>2 DEF LadderTypeOK, Fault
    <3> QED
      BY <1>6, <3>1, <3>2 DEF Start
  <2>2. phase' \in {"off", "on", "failed"} /\ Quiet /\ near' = near
        /\ session' = session /\ kept' = kept
    BY <1>6 DEF Start, Quiet, radio, history
  <2> QED
    BY <1>1, <2>1, <2>2 DEF LadderTypeOK, Quiet, history
<1>7. CASE LoseBroker
  <2>1. conn' \in BOOLEAN /\ subs' \subseteq Doors
    BY <1>7, Zenon DEF LoseBroker
  <2>2. faults' \in 0..MaxFaults
    <3>1. faults \in 0..MaxFaults /\ faults < MaxFaults /\ faults' = faults + 1
      BY <1>7 DEF LoseBroker, Fault, LadderTypeOK
    <3> QED
      BY <3>1
  <2> QED
    BY <1>1, <1>7, <2>1, <2>2 DEF LoseBroker, LadderTypeOK, Quiet, radio, history
<1>8. CASE Reconnect
  <2>1. /\ conn' \in BOOLEAN /\ subs' \subseteq Doors
        /\ heard' \in [Type -> Age \cup {Never}] /\ faults' \in 0..MaxFaults
    BY <1>8, SubscribeAllType DEF Reconnect
  <2> QED
    BY <1>1, <1>8, <2>1 DEF Reconnect, LadderTypeOK, Quiet, radio, history
<1>9. CASE Tick
  <2>1. heard' \in [Type -> Age \cup {Never}]
    BY <1>9, OlderIsAge DEF Tick, LadderTypeOK
  <2> QED
    BY <1>1, <1>9, <2>1 DEF Tick, LadderTypeOK, Quiet, radio, history
<1> QED
  BY <1>2, <1>3, <1>4, <1>5, <1>6, <1>7, <1>8, <1>9

-----------------------------------------------------------------------------
(* The writers *)

\* A write that returns an error only ends: the handler leaves the property out.
LEMMA RefusedInv ==
    ASSUME LadderInv, NEW w \in Writer, NEW p \in Property,
           NEW why \in {"skipped", "deferred"}, Refused(w, p, why),
           dev' = dev, unavailable' \subseteq Property \X Nat,
           \A u \in unavailable' : Capable(u[1], u[2]) = {}
    PROVE  /\ job' \in [Writer -> {Idle} \cup [prop : Property, size : Nat, door : Doors]]
           /\ fate' \in [Property -> {"todo", "skipped", "deferred", "reported"}]
           /\ written' \subseteq Property /\ carried' \subseteq Property \X Nat
           /\ JobsHaveDoors' /\ FittingInv' /\ FateInv'
<1>1. /\ job' = [job EXCEPT ![w] = Idle]
      /\ written' = written /\ carried' = carried
      /\ fate' = fate \/ fate' = [fate EXCEPT ![p] = why]
  BY DEF Refused
<1>2. LadderTypeOK /\ JobsHaveDoors /\ FittingInv /\ FateInv
  BY DEF LadderInv
<1>3. /\ (\A i : Door(i)' = Door(i)) /\ (\A q, n : Capable(q, n)' = Capable(q, n))
  BY SameDoors
<1>4. /\ job' \in [Writer -> {Idle} \cup [prop : Property, size : Nat, door : Doors]]
      /\ fate' \in [Property -> {"todo", "skipped", "deferred", "reported"}]
      /\ written' \subseteq Property /\ carried' \subseteq Property \X Nat
  BY <1>1, <1>2 DEF LadderTypeOK
<1>5. JobsHaveDoors'
  BY <1>1, <1>2, <1>3 DEF LadderTypeOK, JobsHaveDoors
<1>6. FittingInv'
  BY <1>1, <1>2, <1>3 DEF FittingInv
<1>7. FateInv'
  BY <1>1, <1>2 DEF LadderTypeOK, FateInv
<1> QED
  BY <1>4, <1>5, <1>6, <1>7

\* A write looks for a door: DeviceDataWrite up to the publication.
LEMMA WriteInv ==
    ASSUME LadderInv, NEW w \in Writer, NEW p \in Property, NEW n \in Nat,
           w = "handler" => n = dev.visitor[p].size, Write(w, p, n), dev' = dev
    PROVE  /\ job' \in [Writer -> {Idle} \cup [prop : Property, size : Nat, door : Doors]]
           /\ fate' \in [Property -> {"todo", "skipped", "deferred", "reported"}]
           /\ written' \subseteq Property /\ carried' \subseteq Property \X Nat
           /\ unavailable' \subseteq Property \X Nat
           /\ JobsHaveDoors' /\ FittingInv' /\ FateInv'
<1>1. LadderTypeOK /\ JobsHaveDoors /\ FittingInv /\ FateInv
  BY DEF LadderInv
<1>2. CASE Refused(w, p, "skipped") /\ UNCHANGED unavailable
  <2>1. unavailable' \subseteq Property \X Nat /\ \A u \in unavailable' : Capable(u[1], u[2]) = {}
    BY <1>1, <1>2 DEF LadderTypeOK, FittingInv
  <2> QED
    BY <1>2, <2>1, RefusedInv
<1>3. CASE Select(w, p, n)
  <2> DEFINE open == Open(p, n)
             first == CHOOSE i \in open : \A j \in open : i <= j
  <2>1. \/ unavailable' = unavailable
        \/ unavailable' = unavailable \cup {<<p, n>>} /\ Capable(p, n) = {}
    BY <1>3 DEF Select
  <2>2. unavailable' \subseteq Property \X Nat /\ \A u \in unavailable' : Capable(u[1], u[2]) = {}
    <3>1. <<p, n>> \in Property \X Nat /\ <<p, n>>[1] = p /\ <<p, n>>[2] = n
      OBVIOUS
    <3>2. unavailable \subseteq Property \X Nat /\ \A u \in unavailable : Capable(u[1], u[2]) = {}
      BY <1>1 DEF LadderTypeOK, FittingInv
    <3>3. \A u : u \in unavailable' =>
                 u \in unavailable \/ (u = <<p, n>> /\ Capable(p, n) = {})
      BY <2>1
    <3>4. \A u \in unavailable' : Capable(u[1], u[2]) = {}
      BY <3>1, <3>2, <3>3
    <3> QED
      BY <3>1, <3>2, <3>3, <3>4
  <2>3. ASSUME NEW why \in {"skipped", "deferred"}, Refused(w, p, why)
        PROVE  /\ job' \in [Writer -> {Idle} \cup [prop : Property, size : Nat, door : Doors]]
               /\ fate' \in [Property -> {"todo", "skipped", "deferred", "reported"}]
               /\ written' \subseteq Property /\ carried' \subseteq Property \X Nat
               /\ JobsHaveDoors' /\ FittingInv' /\ FateInv'
    BY <2>2, <2>3, RefusedInv
  <2>4. CASE /\ open # {} /\ Door(first).direct
             /\ job' = [job EXCEPT ![w] = [prop |-> p, size |-> n, door |-> first]]
             /\ UNCHANGED <<fate, written, carried>>
    <3>1. open \subseteq Capable(p, n) /\ Capable(p, n) \subseteq Doors
      BY DEF Open, Capable
    <3>2. open \in SUBSET Nat
      BY <1>1, <3>1, DoorsAreNatural DEF LadderTypeOK
    <3>3. first \in Capable(p, n) /\ first \in Doors
      BY <2>4, <3>1, <3>2, FirstDoor
    <3> HIDE DEF open, first
    <3>4. (\A i : Door(i)' = Door(i)) /\ (\A q, m : Capable(q, m)' = Capable(q, m))
      BY SameDoors
    <3>5. job' \in [Writer -> {Idle} \cup [prop : Property, size : Nat, door : Doors]]
      BY <1>1, <2>4, <3>3 DEF LadderTypeOK
    <3>6. JobsHaveDoors'
      <4> SUFFICES ASSUME NEW v \in Writer, job'[v] # Idle
                   PROVE  /\ job'[v].door \in Capable(job'[v].prop, job'[v].size)
                          /\ Door(job'[v].door).direct
                          /\ v = "handler" =>
                               job'[v].size = dev.visitor[job'[v].prop].size
        BY <3>4 DEF JobsHaveDoors
      <4>1. CASE v = w
        <5>1. job'[v] = [prop |-> p, size |-> n, door |-> first]
          BY <1>1, <2>4, <4>1 DEF LadderTypeOK
        <5>2. job'[v].prop = p /\ job'[v].size = n /\ job'[v].door = first
          BY <5>1
        <5> QED
          BY <2>4, <3>3, <4>1, <5>2
      <4>2. CASE v # w
        BY <1>1, <2>4, <4>2 DEF LadderTypeOK, JobsHaveDoors
      <4> QED
        BY <4>1, <4>2
    <3>7. FittingInv'
      BY <1>1, <2>2, <2>4, <3>4 DEF FittingInv
    <3>8. FateInv'
      BY <1>1, <2>4 DEF FateInv
    <3> QED
      BY <1>1, <2>2, <2>4, <3>5, <3>6, <3>7, <3>8 DEF LadderTypeOK
  <2>5. \/ \E why \in {"skipped", "deferred"} : Refused(w, p, why)
        \/ /\ open # {} /\ Door(first).direct
           /\ job' = [job EXCEPT ![w] = [prop |-> p, size |-> n, door |-> first]]
           /\ UNCHANGED <<fate, written, carried>>
    BY <1>3 DEF Select
  <2> QED
    BY <2>2, <2>3, <2>4, <2>5
<1> QED
  BY <1>2, <1>3 DEF Write

LEMMA HandleInv ==
    ASSUME LadderInv, NEW p \in Property, Handle(p)
    PROVE  LadderInv'
<1>1. LadderTypeOK /\ JobsHaveDoors /\ FittingInv /\ FateInv
  BY DEF LadderInv
<1>2. /\ dev' = dev /\ near' = near /\ session' = session /\ kept' = kept
      /\ phase' = phase /\ conn' = conn /\ subs' = subs /\ heard' = heard
      /\ faults' = faults
  BY DEF Handle, radio, client
<1>3. /\ Doors' = Doors /\ (\A i : Door(i)' = Door(i))
      /\ (\A q, n : Capable(q, n)' = Capable(q, n))
  BY <1>2, SameDoors
<1>6. dev.visitor[p].size \in Nat
  <2>1. dev \in DeviceType
    BY <1>1, LadderAssumption DEF LadderTypeOK
  <2> QED
    BY <2>1 DEF DeviceType, Visitor
<1>4. CASE UNCHANGED <<job, history>>
  <2>1. \/ fate' = [fate EXCEPT ![p] = "skipped"]
        \/ fate' = [fate EXCEPT ![p] = "reported"] /\ dev.visitor[p].readOnly
        \/ Write("handler", p, dev.visitor[p].size)
    BY DEF Handle
  <2>2. CASE Write("handler", p, dev.visitor[p].size)
    BY <1>1, <1>2, <1>3, <1>6, <2>2, WriteInv DEF LadderInv, LadderTypeOK, Writer
  <2>3. CASE \/ fate' = [fate EXCEPT ![p] = "skipped"]
             \/ fate' = [fate EXCEPT ![p] = "reported"] /\ dev.visitor[p].readOnly
    <3>1. fate' \in [Property -> {"todo", "skipped", "deferred", "reported"}]
      BY <1>1, <2>3 DEF LadderTypeOK
    <3>2. FateInv'
      BY <1>1, <1>2, <1>4, <2>3 DEF LadderTypeOK, FateInv, history
    <3>3. JobsHaveDoors' /\ FittingInv'
      BY <1>1, <1>2, <1>3, <1>4 DEF JobsHaveDoors, FittingInv, history
    <3> QED
      BY <1>1, <1>2, <1>3, <1>4, <3>1, <3>2, <3>3
         DEF LadderInv, LadderTypeOK, history
  <2> QED
    BY <2>1, <2>2, <2>3
<1>5. CASE Write("handler", p, dev.visitor[p].size)
  BY <1>1, <1>2, <1>3, <1>5, <1>6, WriteInv DEF LadderInv, LadderTypeOK, Writer
<1> QED
  BY <1>4, <1>5 DEF Handle

LEMMA CallInv ==
    ASSUME LadderInv, NEW p \in Property, NEW n \in Size, Call(p, n)
    PROVE  LadderInv'
<1>1. LadderTypeOK
  BY DEF LadderInv
<1>2. /\ dev' = dev /\ near' = near /\ session' = session /\ kept' = kept
      /\ phase' = phase /\ conn' = conn /\ subs' = subs /\ heard' = heard
      /\ faults' = faults
  BY DEF Call, radio, client
<1>3. Doors' = Doors
  BY <1>2, SameDoors
<1>4. Write("caller", p, n) /\ "caller" \in Writer /\ n \in Nat
  BY LadderAssumption DEF Call, Writer
<1> QED
  BY <1>1, <1>2, <1>3, <1>4, WriteInv DEF LadderInv, LadderTypeOK

LEMMA PublishInv ==
    ASSUME LadderInv, NEW w \in Writer, Publish(w)
    PROVE  LadderInv'
<1>1. LadderTypeOK /\ JobsHaveDoors /\ FittingInv /\ FateInv
  BY DEF LadderInv
<1> DEFINE p == job[w].prop
           n == job[w].size
<1>2. /\ dev' = dev /\ near' = near /\ session' = session /\ kept' = kept
      /\ phase' = phase /\ conn' = conn /\ subs' = subs /\ heard' = heard
      /\ unavailable' = unavailable
  BY DEF Publish, radio, client
<1>3. /\ Doors' = Doors /\ (\A i : Door(i)' = Door(i))
      /\ (\A q, m : Capable(q, m)' = Capable(q, m))
  BY <1>2, SameDoors
<1>4. /\ p \in Property /\ n \in Nat /\ job[w].door \in Capable(p, n)
      /\ Door(job[w].door).direct
      /\ w = "handler" => n = dev.visitor[p].size
  BY <1>1 DEF Publish, LadderTypeOK, JobsHaveDoors
<1>5. faults' \in 0..MaxFaults
  BY <1>1, LadderAssumption DEF Publish, Fault, LadderTypeOK
<1> HIDE DEF p, n
<1>6. CASE Refused(w, p, "skipped")
  <2>1. unavailable' \subseteq Property \X Nat /\ \A u \in unavailable' : Capable(u[1], u[2]) = {}
    BY <1>1, <1>2 DEF LadderTypeOK, FittingInv
  <2> QED
    BY <1>1, <1>2, <1>3, <1>4, <1>5, <1>6, <2>1, RefusedInv DEF LadderInv, LadderTypeOK
<1>7. CASE /\ carried' = carried \cup {<<p, n>>}
           /\ written' = IF w = "handler" THEN written \cup {p} ELSE written
           /\ fate' = IF w = "handler" THEN [fate EXCEPT ![p] = "reported"] ELSE fate
           /\ job' = [job EXCEPT ![w] = Idle]
  <2>1. /\ job' \in [Writer -> {Idle} \cup [prop : Property, size : Nat, door : Doors]]
        /\ fate' \in [Property -> {"todo", "skipped", "deferred", "reported"}]
        /\ written' \subseteq Property /\ carried' \subseteq Property \X Nat
    BY <1>1, <1>4, <1>7 DEF LadderTypeOK
  <2>2. JobsHaveDoors'
    BY <1>1, <1>2, <1>3, <1>7 DEF LadderTypeOK, JobsHaveDoors
  <2>3. FittingInv'
    BY <1>1, <1>2, <1>3, <1>4, <1>7 DEF FittingInv
  <2>4. FateInv'
    BY <1>1, <1>2, <1>7 DEF LadderTypeOK, FateInv
  <2> QED
    BY <1>1, <1>2, <1>3, <1>5, <2>1, <2>2, <2>3, <2>4 DEF LadderInv, LadderTypeOK
<1> QED
  BY <1>6, <1>7 DEF Publish, p, n

LEMMA RestartInv ==
    ASSUME LadderInv, Restart
    PROVE  LadderInv'
<1>1. LadderTypeOK /\ FittingInv
  BY DEF LadderInv
<1>2. /\ dev' = dev /\ near' = near /\ session' = session /\ kept' = kept
      /\ unavailable' = unavailable /\ carried' = carried
  BY DEF Restart, radio
<1>3. /\ Doors' = Doors /\ (\A i : Door(i)' = Door(i))
      /\ (\A q, n : Capable(q, n)' = Capable(q, n))
  BY <1>2, SameDoors
<1>4. /\ heard' \in [Type -> Age \cup {Never}]
      /\ job' \in [Writer -> {Idle} \cup [prop : Property, size : Nat, door : Doors]]
      /\ fate' \in [Property -> {"todo", "skipped", "deferred", "reported"}]
      /\ phase' \in {"off", "on", "failed"} /\ conn' \in BOOLEAN
      /\ subs' \subseteq Doors /\ written' \subseteq Property
  BY DEF Restart
<1>5. faults' \in 0..MaxFaults
  BY <1>1, LadderAssumption DEF Restart, Fault, LadderTypeOK
<1>6. JobsHaveDoors' /\ FateInv'
  BY DEF Restart, JobsHaveDoors, FateInv
<1>7. FittingInv'
  BY <1>1, <1>2, <1>3 DEF Restart, FittingInv
<1> QED
  BY <1>1, <1>2, <1>3, <1>4, <1>5, <1>6, <1>7 DEF LadderInv, LadderTypeOK

LEMMA InvStep == LadderInv /\ [Next]_vars => LadderInv'
<1> SUFFICES ASSUME LadderInv, [Next]_vars PROVE LadderInv'
  OBVIOUS
<1>1. CASE UNCHANGED vars
  <2>1. /\ dev' = dev /\ radio' = radio /\ client' = client /\ job' = job
        /\ fate' = fate /\ history' = history /\ faults' = faults
    BY <1>1 DEF vars
  <2>2. Doors' = Doors
    BY <2>1, SameDoors
  <2>3. LadderTypeOK' /\ Quiet
    BY <2>1, <2>2 DEF LadderInv, LadderTypeOK, Quiet, radio, client, history
  <2> QED
    BY <2>3, QuietInv
<1>2. CASE \/ \E t \in Type : Approach(t) \/ Leave(t)
           \/ \E i \in Doors : Speak(i) \/ Will(i)
           \/ Start \/ LoseBroker \/ Reconnect \/ Tick
  <2>1. LadderTypeOK' /\ Quiet
    BY <1>2, QuietSteps DEF LadderInv
  <2> QED
    BY <2>1, QuietInv
<1>3. CASE Restart
  BY <1>3, RestartInv
<1>4. ASSUME NEW p \in Property, Handle(p) \/ \E n \in Size : Call(p, n)
      PROVE  LadderInv'
  BY <1>4, HandleInv, CallInv
<1>5. ASSUME NEW w \in Writer, Publish(w) PROVE LadderInv'
  BY <1>5, PublishInv
<1> QED
  BY <1>1, <1>2, <1>3, <1>4, <1>5 DEF Next

-----------------------------------------------------------------------------
(* Theorems *)

LEMMA InvAlways == Spec => []LadderInv
BY InvInit, InvStep, PTL DEF Spec

\* For any devices, doors and properties the client, the writers and the history
\* keep their types, and a selected door is one of the device's (selectTransport).
THEOREM LadderTypeCorrect == Spec => []LadderTypeOK
<1>1. LadderInv => LadderTypeOK
  BY DEF LadderInv
<1> QED
  BY <1>1, InvAlways, PTL

\* What selectTransport has called unavailable on the device is never carried,
\* before or after, at that length or a greater one, whichever doors open, close
\* or are restarted.
THEOREM UnavailableForever == Spec => []UnavailableIsForever
<1>1. ASSUME LadderInv, NEW u \in unavailable, NEW c \in carried, u[1] = c[1]
      PROVE  c[2] < u[2]
  <2>1. u[2] \in Nat /\ c[2] \in Nat /\ dev \in Devices
    BY <1>1 DEF LadderInv, LadderTypeOK
  <2>2. Capable(u[1], u[2]) = {} /\ Capable(u[1], c[2]) # {}
    BY <1>1 DEF LadderInv, FittingInv
  <2>3. ~(u[2] <= c[2])
    BY <2>1, <2>2, ShorterFits
  <2> QED
    BY <2>1, <2>3
<1>2. LadderInv => UnavailableIsForever
  BY <1>1 DEF UnavailableIsForever
<1> QED
  BY <1>2, InvAlways, PTL

\* dataHandler reports a property that can be written only after a direct door
\* that fits it has carried its desired value.
THEOREM ReportsFollow == Spec => []ReportsFollowWrites
<1>1. LadderInv => ReportsFollowWrites
  BY DEF LadderInv, FittingInv, FateInv, ReportsFollowWrites
<1> QED
  BY <1>1, InvAlways, PTL
=============================================================================
