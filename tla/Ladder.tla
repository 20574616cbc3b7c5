------------------------------- MODULE Ladder -------------------------------
(***************************************************************************)
(* The transport ladder of the mapper (driver/transport.go): a device with *)
(* several doors, each open at times of its own, and the writes that look  *)
(* for one.  Two goroutines write: the handler that gives a started device *)
(* its desired values, one property after the other (device/device.go,     *)
(* dataHandler), and a caller of WriteDevice.                              *)
(*                                                                         *)
(*   device -Speak, Will-> heard -IsUp-> Select -> Publish -> written      *)
(*                                                                         *)
(* A door is a position in the list of transports, its last-seen time is   *)
(* kept per type, as in the code, and is an age that saturates at Horizon. *)
(* Time passes between the choice of a door and the publication, which     *)
(* waits for deviceMutex; the publication itself is one step.              *)
(*                                                                         *)
(* Simplifications.  One device; frames of other nodes, which the handler  *)
(* drops before it marks the door, are left out; the twins come in any     *)
(* order; what is written is left out but for its size; a caller's value   *)
(* converts; a connection that comes after InitDevice has given up is left *)
(* to DevPanel.                                                            *)
(***************************************************************************)
EXTENDS Naturals, Sequences, FiniteSets

CONSTANTS
    Property,    \* the properties of the device
    Type,        \* the types of transport: wifi, lora, thread, ble
    AnyType,     \* requiresTransport is not set
    Devices,     \* the devices considered: see DeviceType
    Size,        \* the sizes of the values that callers write
    LoRaBytes,   \* what one LoRa frame carries, 240 bytes
    Never,       \* no timestamp
    Horizon,     \* bound on ages
    MaxFaults    \* bound on failures, lost connections, restarts and arrivals

Wifi == "wifi"
Lora == "lora"
Ota  == "ota"

\* One way of reaching a device; 0 is unset.
Transport ==
    [type : Type,
     direct : BOOLEAN,                 \* it has a topicPrefix
     relayed : BOOLEAN,                \* it has a gateway
     config : BOOLEAN, ota : BOOLEAN,  \* what it is declared to carry
     max : Nat,                        \* maxWriteBytes
     stale : Nat]                      \* staleAfterSeconds

\* One property of the device: its twin, its visitor and its desired value.
Visitor ==
    [known : BOOLEAN,                  \* the model declares it, its visitor parses
     readOnly : BOOLEAN,
     valid : BOOLEAN,                  \* the desired value converts
     command : BOOLEAN,                \* it has a commandTopic
     pin : Type \cup {Ota, AnyType},   \* requiresTransport
     size : Nat]                       \* bytes of the formatted desired value

DeviceType ==
    [declared : Seq(Transport),
     prefix : BOOLEAN, gateway : BOOLEAN, node : BOOLEAN,  \* the legacy fields
     interval : Nat,                                       \* expectedIntervalSeconds
     visitor : [Property -> Visitor]]

ASSUME LadderAssumption ==
    /\ Devices \subseteq DeviceType
    /\ {Wifi, Lora} \subseteq Type /\ Ota \notin Type /\ AnyType \notin Type \cup {Ota}
    /\ Size \subseteq Nat
    /\ LoRaBytes \in Nat /\ Horizon \in Nat /\ MaxFaults \in Nat
    /\ Never \notin Nat

VARIABLES
    dev,         \* the device's configuration
    near,        \* near[t]: the device is in reach of its doors of type t
    session,     \* session[t]: the broker has yet to publish the device's will
    kept,        \* kept[t]: a message of the device is retained under its prefix
    phase,       \* of the client: "off", "on" or "failed"
    conn,        \* it is connected to the broker
    subs,        \* the doors it listens at
    heard,       \* heard[t]: age of lastSeenPer[t]
    job,         \* job[w]: what w writes, its size and the door selected for it
    fate,        \* fate[p]: what the handler did with p's twin
    written,     \* the properties whose desired value the handler published
    unavailable, \* the writes, by size, a writer was told no transport can ever carry
    carried,     \* the writes, by size, a transport has carried
    faults

radio   == <<near, session, kept>>
client  == <<phase, conn, subs, heard>>
history == <<written, unavailable, carried>>
vars    == <<dev, radio, client, job, fate, history, faults>>

Writer == {"handler", "caller"}
Idle   == [prop |-> Never, size |-> 0, door |-> 0]
Age    == 0..Horizon

-----------------------------------------------------------------------------
(* The doors of a device *)

\* The declared transports, or the one the legacy fields stand for.
effectiveTransports ==
    IF dev.declared # <<>> THEN dev.declared
    ELSE IF dev.gateway
      THEN <<[type |-> Lora, direct |-> FALSE, relayed |-> TRUE, config |-> TRUE,
              ota |-> FALSE, max |-> LoRaBytes, stale |-> dev.interval * 3]>>
    ELSE <<[type |-> Wifi, direct |-> dev.prefix, relayed |-> FALSE, config |-> TRUE,
            ota |-> TRUE, max |-> 0, stale |-> 0]>>

Door(i) == effectiveTransports[i]
Doors   == DOMAIN effectiveTransports
HasDoor(t) == \E i \in Doors : Door(i).type = t

\* A door that was seen once is believed for ever.
isUpOnceSeen(i) ==
    LET t == Door(i) IN t.stale = 0 \/ heard[t.type] = Never \/ heard[t.type] >= 0

\* A door without a limit, and one never heard from, are taken to be open.
isUp(i) ==
    LET t == Door(i)
    IN  \/ t.stale = 0
        \/ heard[t.type] = Never
        \/ heard[t.type] < t.stale

\* The doors that can carry a write of n bytes in principle.
Fits(i, v, n) ==
    LET t == Door(i)
    IN  /\ v.pin # AnyType => t.type = v.pin
        /\ t.config \/ t.ota
        /\ v.pin = Ota => t.ota
        /\ t.max > 0 => n <= t.max

\* The temporary facts before the permanent ones.
CapableNow(p, n) == {i \in Doors : isUp(i) /\ Fits(i, dev.visitor[p], n)}

Capable(p, n) == {i \in Doors : Fits(i, dev.visitor[p], n)}

Listens(i) == Door(i).direct \/ Door(i).relayed

-----------------------------------------------------------------------------

NewClient ==
    /\ phase = "off" /\ conn = FALSE /\ subs = {}
    /\ heard = [t \in Type |-> Never]
    /\ job = [w \in Writer |-> Idle]
    /\ fate = [p \in Property |-> "todo"]
    /\ written = {}

Init ==
    /\ dev \in Devices
    /\ near \in {f \in [Type -> BOOLEAN] : \A t \in Type : f[t] => HasDoor(t)}
    /\ session = near
    /\ kept = near
    /\ NewClient
    /\ unavailable = {} /\ carried = {}
    /\ faults = 0

Fault == faults < MaxFaults /\ faults' = faults + 1

-----------------------------------------------------------------------------
(* The device and the broker *)

\* The device comes into reach of a type of transport, or leaves.
Approach(t) ==
    /\ HasDoor(t) /\ ~near[t] /\ Fault
    /\ near' = [near EXCEPT ![t] = TRUE]
    /\ session' = [session EXCEPT ![t] = TRUE]
    /\ UNCHANGED <<dev, kept, client, job, fate, history>>

Leave(t) ==
    /\ near[t] /\ near' = [near EXCEPT ![t] = FALSE]
    /\ UNCHANGED <<dev, session, kept, client, job, fate, history, faults>>

\* A message under a door's prefix, or in a frame of its gateway: markSeen.
Arrives(i) ==
    /\ kept' = IF Door(i).direct THEN [kept EXCEPT ![Door(i).type] = TRUE] ELSE kept
    /\ heard' = IF i \in subs THEN [heard EXCEPT ![Door(i).type] = 0] ELSE heard
    /\ UNCHANGED <<dev, near, phase, conn, subs, job, fate, history, faults>>

\* The device speaks at a door.
Speak(i) ==
    /\ Listens(i) /\ near[Door(i).type]
    /\ Arrives(i) /\ UNCHANGED session

\* The broker misses the device and publishes its will, a message like any
\* other under the device's prefix.
Will(i) ==
    /\ Door(i).direct
    /\ session[Door(i).type] /\ ~near[Door(i).type]
    /\ session' = [session EXCEPT ![Door(i).type] = FALSE]
    /\ Arrives(i)

-----------------------------------------------------------------------------
(* The connection *)

\* The connection handler subscribes at every door, and the broker sends what
\* it retains there.
Subscribed(S) ==
    /\ conn' = TRUE /\ subs' = S
    /\ heard' = [t \in Type |->
                   IF kept[t] /\ \E i \in S : Door(i).direct /\ Door(i).type = t
                     THEN 0 ELSE heard[t]]

\* A subscription that fails is logged and left at that.
SubscribeAll ==
    LET all == {i \in Doors : Listens(i)}
    IN  \/ Subscribed(all) /\ UNCHANGED faults
        \/ Fault /\ \E i \in all : Subscribed(all \ {i})

\* InitDevice: the legacy fields are required whatever is declared.
Configured ==
    /\ dev.gateway \/ dev.prefix
    /\ dev.gateway => dev.node

Start ==
    /\ phase = "off"
    /\ \/ Configured /\ phase' = "on" /\ SubscribeAll
       \/ Configured /\ Fault /\ phase' = "failed" /\ UNCHANGED <<conn, subs, heard>>
       \/ ~Configured /\ phase' = "failed" /\ UNCHANGED <<conn, subs, heard, faults>>
    /\ UNCHANGED <<dev, radio, job, fate, history>>

\* UpdateDevice, or a new process: a client that has heard nothing.
Restart ==
    /\ phase # "off" /\ Fault
    /\ phase' = "off" /\ conn' = FALSE /\ subs' = {}
    /\ heard' = [t \in Type |-> Never]
    /\ job' = [w \in Writer |-> Idle]
    /\ fate' = [p \in Property |-> "todo"]
    /\ written' = {}
    /\ UNCHANGED <<dev, radio, unavailable, carried>>

LoseBroker ==
    /\ conn /\ Fault
    /\ conn' = FALSE /\ subs' = {}
    /\ UNCHANGED <<dev, radio, phase, heard, job, fate, history>>

Reconnect ==
    /\ phase = "on" /\ ~conn /\ SubscribeAll
    /\ UNCHANGED <<dev, radio, phase, job, fate, history>>

-----------------------------------------------------------------------------
(* Writing *)

\* An error is logged and the property reported all the same.
RefusedReported(w, p, why) ==
    /\ fate' = IF w = "handler" THEN [fate EXCEPT ![p] = "reported"] ELSE fate
    /\ job' = [job EXCEPT ![w] = Idle]
    /\ UNCHANGED <<written, carried>>

\* A write returns an error: the handler leaves the property out, whatever the
\* error was.
Refused(w, p, why) ==
    /\ fate' = IF w = "handler" THEN [fate EXCEPT ![p] = why] ELSE fate
    /\ job' = [job EXCEPT ![w] = Idle]
    /\ UNCHANGED <<written, carried>>

\* The capable doors that are open.
Open(p, n) == {i \in Capable(p, n) : isUp(i)}

\* No door is open and the write goes to none.
SelectNone(w, p, n) ==
    LET open == Open(p, n)
    IN  /\ job' = [job EXCEPT ![w] =
                     [prop |-> p, size |-> n,
                      door |-> IF open = {} THEN 0
                               ELSE CHOOSE i \in open : \A j \in open : i <= j]]
        /\ UNCHANGED <<fate, history>>

\* selectTransport and the check at the head of writeVia: the first capable
\* door that is open, which is refused if it is a gateway's.  With every
\* capable door shut the error speaks of deferring.
Select(w, p, n) ==
    LET open == Open(p, n)
        i == CHOOSE i \in open : \A j \in open : i <= j
    IN  /\ unavailable' = unavailable \cup (IF Capable(p, n) = {} THEN {<<p, n>>} ELSE {})
        /\ \/ /\ open # {} /\ Door(i).direct
              /\ job' = [job EXCEPT ![w] = [prop |-> p, size |-> n, door |-> i]]
              /\ UNCHANGED <<fate, written, carried>>
           \/ open # {} /\ ~Door(i).direct /\ Refused(w, p, "skipped")
           \/ /\ open = {}
              /\ Refused(w, p, IF Capable(p, n) = {} THEN "skipped" ELSE "deferred")

\* DeviceDataWrite of n bytes.
Write(w, p, n) ==
    \/ ~dev.visitor[p].command /\ Refused(w, p, "skipped") /\ UNCHANGED unavailable
    \/ dev.visitor[p].command /\ Select(w, p, n)

\* dataHandler takes up the next twin; setVisitor writes the desired value of
\* every property that is not read-only, set or not.
Handle(p) ==
    /\ phase = "on" /\ job["handler"] = Idle /\ fate[p] = "todo"
    /\ LET v == dev.visitor[p]
       IN  \/ /\ ~v.known \/ (~v.readOnly /\ ~v.valid)
              /\ fate' = [fate EXCEPT ![p] = "skipped"]
              /\ UNCHANGED <<job, history>>
           \/ /\ v.known /\ v.readOnly
              /\ fate' = [fate EXCEPT ![p] = "reported"]
              /\ UNCHANGED <<job, history>>
           \/ v.known /\ ~v.readOnly /\ v.valid /\ Write("handler", p, v.size)
    /\ UNCHANGED <<dev, radio, client, faults>>

\* WriteDevice, for a property it finds in the model; it asks neither whether
\* the property is read-only nor whether the client was started nor what the
\* handler is doing.
Call(p, n) ==
    /\ job["caller"] = Idle
    /\ dev.visitor[p].known
    /\ Write("caller", p, n)
    /\ UNCHANGED <<dev, radio, client, faults>>

\* The publication waits for the broker, however long it takes.
PublishWaits(w) ==
    /\ job[w] # Idle /\ conn
    /\ carried' = carried \cup {<<job[w].prop, job[w].size>>}
    /\ written' = IF w = "handler" THEN written \cup {job[w].prop} ELSE written
    /\ fate' = IF w = "handler" THEN [fate EXCEPT ![job[w].prop] = "reported"] ELSE fate
    /\ job' = [job EXCEPT ![w] = Idle]
    /\ UNCHANGED <<dev, radio, client, unavailable, faults>>

\* writeVia publishes.  A failure of the connection is an error, after the
\* timeout at the latest; without the broker the client library may also
\* take the message and drop it (QoS 0, while it reconnects).  A client that was
\* never connected gives an error, and one not yet made a panic that net/http
\* recovers.
Publish(w) ==
    /\ job[w] # Idle
    /\ \/ /\ phase = "on"
          /\ carried' = carried \cup {<<job[w].prop, job[w].size>>}
          /\ written' = IF w = "handler" THEN written \cup {job[w].prop} ELSE written
          /\ fate' = IF w = "handler"
                       THEN [fate EXCEPT ![job[w].prop] = "reported"] ELSE fate
          /\ job' = [job EXCEPT ![w] = Idle]
          /\ UNCHANGED faults
       \/ ~conn /\ Refused(w, job[w].prop, "skipped") /\ UNCHANGED faults
       \/ conn /\ Fault /\ Refused(w, job[w].prop, "skipped")
    /\ UNCHANGED <<dev, radio, client, unavailable>>

-----------------------------------------------------------------------------

Older(age) == IF age = Never \/ age = Horizon THEN age ELSE age + 1

Tick ==
    /\ heard' = [t \in Type |-> Older(heard[t])]
    /\ UNCHANGED <<dev, radio, phase, conn, subs, job, fate, history, faults>>

Next ==
    \/ \E t \in Type : Approach(t) \/ Leave(t)
    \/ \E i \in Doors : Speak(i) \/ Will(i)
    \/ Start \/ Restart \/ LoseBroker \/ Reconnect
    \/ \E p \in Property : Handle(p) \/ \E n \in Size : Call(p, n)
    \/ \E w \in Writer : Publish(w)
    \/ Tick

Spec == Init /\ [][Next]_vars

\* Time passes, and the handler's goroutine runs; its publications have a timeout.
Fairness ==
    /\ WF_vars(Tick)
    /\ WF_vars(\E p \in Property : Handle(p))
    /\ WF_vars(Publish("handler"))

FairSpec == Spec /\ Fairness

-----------------------------------------------------------------------------
(* Properties *)

\* Type correctness; a door selected for a write is one of the device's.
LadderTypeOK ==
    /\ dev \in Devices
    /\ near \in [Type -> BOOLEAN] /\ session \in [Type -> BOOLEAN]
    /\ kept \in [Type -> BOOLEAN]
    /\ phase \in {"off", "on", "failed"} /\ conn \in BOOLEAN /\ subs \subseteq Doors
    /\ heard \in [Type -> Age \cup {Never}]
    /\ job \in [Writer -> {Idle} \cup [prop : Property, size : Nat, door : Doors]]
    /\ fate \in [Property -> {"todo", "skipped", "deferred", "reported"}]
    /\ written \subseteq Property
    /\ unavailable \subseteq Property \X Nat /\ carried \subseteq Property \X Nat
    /\ faults \in 0..MaxFaults

\* "No transport on this device can ever carry this, so saying 'try later'
\* would be a lie" (selectTransport), and the other way round: no door carries
\* later, nor has carried before, a value of a property as long as one that a
\* writer was told is unavailable, whichever doors open and close and whoever
\* writes.
UnavailableIsForever ==
    \A refused \in unavailable, sent \in carried :
        refused[1] = sent[1] => sent[2] < refused[2]

\* dataHandler reports no property that can be written before this client has
\* published its desired value without an error, and no value was published at
\* a door that is relayed or too small: a twin never answers for a write that
\* a shut door, a refused one or a timeout has swallowed.
ReportsFollowWrites ==
    \A p \in Property :
        fate[p] = "reported" =>
            \/ dev.visitor[p].readOnly
            \/ /\ p \in written
               /\ \E i \in Capable(p, dev.visitor[p].size) : Door(i).direct

\* "This is the AwaitingTransportWindow case, and it is not a failure"
\* (selectTransport): a desired value whose doors were shut does not stay
\* deferred while the client is connected, unless they stay shut.
DeferredIsWritten ==
    \A p \in Property :
        <>[](fate[p] = "deferred" /\ conn) => <>[](Open(p, dev.visitor[p].size) = {})

\* "Reachability derived from 'we saw it once' is believed forever" (isUp): a
\* door with a limit that the device has left is eventually taken for shut,
\* although the broker's will and its retained messages still come from it.
DoorsDecay ==
    \A t \in Type :
        (~near[t] /\ heard[t] # Never) ~>
            \/ near[t] \/ heard[t] = Never
            \/ \A i \in Doors : Door(i).type = t /\ Door(i).stale > 0 => ~isUp(i)

\* The handler of a started device comes to an end: one door that is shut, or
\* a broker that is gone, holds up none of the properties behind it.
HandlerFinishes ==
    \A p \in Property : (phase = "on") ~> (phase # "on" \/ fate[p] # "todo")
=============================================================================
