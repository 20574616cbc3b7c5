------------------------------ MODULE Vivarium ------------------------------
(***************************************************************************)
(* The vivarium (internal/vivarium, cmd/vivarium): one process that keeps  *)
(* a fleet of simulated devices on a real broker.  Every device has a      *)
(* goroutine that reports on its own schedule, a callback for firmware     *)
(* commands and, for every command it obeys, one more goroutine that       *)
(* changes the device after the time a flash takes.  All of them share the *)
(* organism under its mutex, but not from the decision to the effect.      *)
(*                                                                         *)
(* The broker keeps the last retained status and announcement of a device, *)
(* queues commands for it while it is subscribed, and queues on wire what  *)
(* it has still to deliver to the one subscriber that watches Subject.     *)
(* Sensors (values, boot count, battery), echoes and announcements are     *)
(* abstracted to the fact that one was published.                          *)
(***************************************************************************)
EXTENDS Integers, Sequences, SequencesExt, FiniteSets

CONSTANTS
    N,            \* devices are 1..N, in the order the fleet file lists them
    Gateways,
    Fleet,        \* [1..N -> [hash, gateway, mode, fails, failMode, flaky, lossy]]
    Subject,      \* the device the subscriber watches
    Orders,       \* hashes the rest of the system commands
    OutageEvery, OutageFor, QuietFor,   \* in units of Pass; QuietFor is 30 minutes
    MaxCommands,  \* bound: commands sent to the fleet
    MaxFaults,    \* bound: lost connections and reports, a connect that fails, an end
    MaxWire,      \* bound: a device waits with its report behind so many messages
    NoValue       \* "nothing published yet", a zero time, no gateway

Device == 1..N

Mode == {"none", "reportsWithoutRunning", "bootLoop", "bricks", "ignores",
         "wrongHash", "intermittent"}

\* The hash `torpor verify` probes with when it saw none.
Noop == "verify-noop"

Hash == {Fleet[d].hash : d \in Device} \cup Orders \cup {"corrupt", Noop}

ASSUME FleetAssumption ==
    /\ N \in Nat /\ Subject \in Device /\ NoValue \notin Gateways /\ NoValue \notin Hash
    /\ OutageEvery \in Nat /\ OutageFor \in Nat \ {0} /\ QuietFor \in Nat
    /\ NoValue \notin Int /\ NoValue \notin {"online", "offline"}
    /\ MaxCommands \in Nat /\ MaxFaults \in Nat /\ MaxWire \in Nat
    /\ \A d \in Device :
         Fleet[d] \in [hash : Hash, gateway : Gateways \cup {NoValue}, mode : Mode,
                       fails : SUBSET Orders, failMode : Mode,
                       flaky : BOOLEAN, lossy : BOOLEAN]

VARIABLES
    proc,      \* "starting", "living", "closed" or "died"
    started,   \* how many devices Run has connected
    organ,     \* the organism: [running, reported, bricked, silent]
    link,      \* its client: "off", "open" (OnConnect to come), "up", "lost"
    queue,     \* commands the broker has still to deliver to the device
    flashes,   \* the goroutines onCommand started: <<[want, mode], ...>>
    bricking,  \* devices whose FailBricks holds the mutex, about to disconnect
    pend,      \* the hash tick has read and not published yet
    status,    \* retained <prefix>/status
    announce,  \* a retained torpor/announce/<device> is there
    gw,        \* gatewayState: [down, nextAt, until], times relative to now
    wire,      \* messages of Subject on their way to the subscriber
    listening, \* the subscriber's subscriptions are in place
    commands, faults

organs  == <<organ, flashes, bricking, pend>>
brokers == <<queue, status, announce, wire, listening>>
vivVars == <<proc, started, organs, link, brokers, gw, commands, faults>>

Msg(topic, payload, retained) ==
    [topic |-> topic, payload |-> payload, retained |-> retained]

\* What the broker forwards to the subscriber when d publishes ms: a live
\* message is delivered without the retained flag.
Published(d, ms) == IF listening /\ d = Subject THEN wire \o ms ELSE wire

\* The client can send.  IsConnected is also true while it reconnects, but a
\* QoS 0 publish is dropped then.
OnLine(d) == link[d] \in {"open", "up"}

Alive == proc \in {"starting", "living"}

-----------------------------------------------------------------------------
\* rngFor and the seed make a run repeatable; every draw is a choice here.
VivInit ==
    /\ proc = "starting" /\ started = 0
    /\ organ = [d \in Device |->
                  [running |-> Fleet[d].hash, reported |-> Fleet[d].hash,
                   bricked |-> FALSE, silent |-> 0]]
    /\ link = [d \in Device |-> "off"]
    /\ queue = [d \in Device |-> <<>>]
    /\ flashes = [d \in Device |-> <<>>]
    /\ bricking = {}
    /\ pend = [d \in Device |-> NoValue]
    /\ status = [d \in Device |-> NoValue]
    /\ announce = [d \in Device |-> FALSE]
    /\ gw = [g \in Gateways |-> [down |-> FALSE, nextAt |-> NoValue, until |-> 0]]
    /\ wire = <<>> /\ listening = FALSE
    /\ commands = 0 /\ faults = 0

\* The broker notices that clients are gone without a DISCONNECT: their will is
\* published and what was queued for them is dropped.
Wills(ds) ==
    /\ status' = [d \in Device |-> IF d \in ds THEN "offline" ELSE status[d]]
    /\ queue' = [d \in Device |-> IF d \in ds THEN <<>> ELSE queue[d]]
    /\ wire' = IF Subject \in ds
                 THEN Published(Subject, <<Msg("status", "offline", FALSE)>>) ELSE wire

\* Run connects the devices one after the other and starts each one's life.
Connect ==
    /\ proc = "starting"
    /\ LET d == started + 1
       IN  /\ link' = [link EXCEPT ![d] = "open"]
           /\ started' = d
           /\ proc' = IF d = N THEN "living" ELSE "starting"
    /\ UNCHANGED <<organs, brokers, gw, commands, faults>>

\* A device that cannot connect ends Run with an error and main the process:
\* the devices connected before it drop, and their flashes with them.
ConnectFails ==
    /\ proc = "starting" /\ faults < MaxFaults
    /\ proc' = "died" /\ faults' = faults + 1
    /\ Wills({d \in Device : OnLine(d)})
    /\ link' = [d \in Device |-> "off"]
    /\ flashes' = [d \in Device |-> <<>>]
    /\ bricking' = {}
    /\ pend' = [d \in Device |-> NoValue]
    /\ UNCHANGED <<started, organ, announce, listening, gw, commands>>

\* The OnConnect handler, a goroutine of the client: subscribe, then the
\* retained birth and the retained announcement.
OnConnect(d) ==
    /\ link[d] = "open"
    /\ link' = [link EXCEPT ![d] = "up"]
    /\ status' = [status EXCEPT ![d] = "online"]
    /\ announce' = [announce EXCEPT ![d] = TRUE]
    /\ wire' = Published(d, <<Msg("status", "online", FALSE),
                              Msg("announce", NoValue, FALSE)>>)
    /\ UNCHANGED <<proc, started, organs, queue, listening, gw, commands, faults>>

\* The connection of one device drops; the client reconnects by itself.
LoseConnection(d) ==
    /\ OnLine(d) /\ faults < MaxFaults
    /\ link' = [link EXCEPT ![d] = "lost"]
    /\ Wills({d})
    /\ faults' = faults + 1
    /\ UNCHANGED <<proc, started, organs, announce, listening, gw, commands>>

Reconnect(d) ==
    /\ link[d] = "lost"
    /\ link' = [link EXCEPT ![d] = "open"]
    /\ UNCHANGED <<proc, started, organs, brokers, gw, commands, faults>>

\* The context ends: every client that is connected says goodbye, which
\* publishes no will, and the process is gone.
Close ==
    /\ proc = "living" /\ faults < MaxFaults
    /\ proc' = "closed"
    /\ link' = [d \in Device |-> "off"]
    /\ queue' = [d \in Device |-> <<>>]
    /\ flashes' = [d \in Device |-> <<>>]
    /\ bricking' = {}
    /\ pend' = [d \in Device |-> NoValue]
    /\ faults' = faults + 1
    /\ UNCHANGED <<started, organ, status, announce, wire, listening, gw, commands>>

-----------------------------------------------------------------------------
\* An outage that is over does not clear the gateway.
IsDownForever(g) ==
    LET s == gw[g]
    IN  IF OutageEvery = 0 THEN s
        ELSE IF s.nextAt = NoValue THEN [s EXCEPT !.nextAt = OutageEvery]
        ELSE IF ~s.down /\ s.nextAt = 0 THEN [s EXCEPT !.down = TRUE, !.until = OutageFor]
        ELSE s

\* gatewayState.isDown: the outages of a gateway advance when somebody asks.
IsDown(g) ==
    LET s == gw[g]
        over == IF s.down /\ s.until = 0
                  THEN [s EXCEPT !.down = FALSE, !.nextAt = OutageEvery] ELSE s
        due == IF ~over.down /\ over.nextAt = 0
                  THEN [over EXCEPT !.down = TRUE, !.until = OutageFor] ELSE over
    IN  IF OutageEvery = 0 THEN s
        ELSE IF due.nextAt = NoValue THEN [due EXCEPT !.nextAt = OutageEvery] ELSE due

\* Time passes for the silences and the gateways; at 0 a moment is past.
Earlier(t) == IF t = NoValue \/ t = 0 THEN t ELSE t - 1

Pass ==
    /\ Alive
    /\ organ' = [d \in Device |->
                   [organ[d] EXCEPT !.silent = Earlier(@)]]
    /\ gw' = [g \in Gateways |->
                [gw[g] EXCEPT !.nextAt = Earlier(@), !.until = Earlier(@)]]
    /\ <<organ, gw>>' # <<organ, gw>>
    /\ UNCHANGED <<proc, started, link, queue, flashes, bricking, pend, status,
                   announce, wire, listening, commands, faults>>

\* tick, under the mutex: a bricked or a silent device says nothing; the others
\* take the hash they report, and ask the gateway they are behind, which the code
\* does after the unlock: the two commute, as the hash is a local by then.
Tick(d) ==
    /\ Alive /\ d <= started /\ d \notin bricking /\ pend[d] = NoValue
    /\ Len(wire) < MaxWire
    /\ ~organ[d].bricked /\ organ[d].silent = 0
    /\ LET g == Fleet[d].gateway
           asked == IF g = NoValue THEN gw ELSE [gw EXCEPT ![g] = IsDown(g)]
       IN  /\ gw' = asked
           /\ pend' = IF g # NoValue /\ asked[g].down THEN pend
                      ELSE [pend EXCEPT ![d] = organ[d].reported]
    /\ UNCHANGED <<proc, started, organ, flashes, bricking, link, brokers,
                   commands, faults>>

\* tick, after the unlock: the sensors and the hash, each of which a lossy
\* device may drop, and nothing at all without a connection.
TickPublish(d) ==
    /\ pend[d] # NoValue
    /\ \E sensor, hash \in BOOLEAN :
         LET ms == (IF sensor THEN <<Msg("sensor", NoValue, FALSE)>> ELSE <<>>)
                   \o (IF hash THEN <<Msg("hash", pend[d], FALSE)>> ELSE <<>>)
         IN  /\ \/ sensor /\ hash /\ UNCHANGED faults
                \/ Fleet[d].lossy /\ ~(sensor /\ hash) /\ faults < MaxFaults
                     /\ faults' = faults + 1
             /\ wire' = IF OnLine(d) THEN Published(d, ms) ELSE wire
    /\ pend' = [pend EXCEPT ![d] = NoValue]
    /\ UNCHANGED <<proc, started, organ, flashes, bricking, link, queue, status,
                   announce, listening, gw, commands>>

\* printTruth: Snapshot asks the gateway of every device.
Snapshot ==
    /\ Alive /\ bricking = {}
    /\ LET asked == {Fleet[d].gateway : d \in Device}
       IN  gw' = [g \in Gateways |-> IF g \in asked THEN IsDown(g) ELSE gw[g]]
    /\ gw' # gw
    /\ UNCHANGED <<proc, started, organs, link, brokers, commands, faults>>

-----------------------------------------------------------------------------
\* A firmware command for d (the mapper's, or a probe's) reaches the broker,
\* which delivers it only to a subscription that is in place.
Sent(d, payload) ==
    queue' = IF link[d] = "up" THEN [queue EXCEPT ![d] = Append(@, payload)] ELSE queue

\* Somebody writes a firmware command; one without a '|' is NoValue.
Command(d, want) ==
    /\ commands < MaxCommands
    /\ commands' = commands + 1
    /\ Sent(d, want)
    /\ UNCHANGED <<proc, started, organs, link, status, announce, wire, listening,
                   gw, faults>>

\* FailChance spares any device.
ModesSpared(d, want) ==
    {"none", IF want \in Fleet[d].fails THEN Fleet[d].failMode ELSE Fleet[d].mode}

\* How this device takes firmware `want`: its own behaviour, the cohort's for
\* the hashes the cohort cannot run, and neither when FailChance decides so.
Modes(d, want) ==
    LET mode == IF want \in Fleet[d].fails THEN Fleet[d].failMode ELSE Fleet[d].mode
    IN  {mode} \cup (IF Fleet[d].flaky THEN {"none"} ELSE {})

\* A command without a '|' is taken for a hash.
ObeysAnything(d, want) == ~organ[d].bricked /\ want # organ[d].running

\* A command that changes something, for a device that can be changed.
Obeys(d, want) == want # NoValue /\ ~organ[d].bricked /\ want # organ[d].running

\* Only what is obeyed is echoed.
EchoObeyed(d, want) == IF Obeys(d, want) THEN <<Msg("echo", NoValue, FALSE)>> ELSE <<>>

\* The echo of a command: whatever it is.
Echo(d, want) == <<Msg("echo", NoValue, FALSE)>>

\* onCommand: echo first; then a command that is obeyed starts a goroutine
\* that flashes after the delay.
OnCommand(d) ==
    /\ queue[d] # <<>> /\ link[d] = "up" /\ d \notin bricking
    /\ LET want == Head(queue[d])
       IN  /\ wire' = Published(d, Echo(d, want))
           /\ IF ~Obeys(d, want)
                THEN flashes' = flashes
                ELSE \E m \in Modes(d, want) :
                       flashes' = [flashes EXCEPT
                                     ![d] = Append(@, [want |-> want, mode |-> m])]
    /\ queue' = [queue EXCEPT ![d] = Tail(@)]
    /\ UNCHANGED <<proc, started, organ, bricking, pend, link, status, announce,
                   listening, gw, commands, faults>>

\* What a flash leaves behind, by its mode.
Flashed(o, f) ==
    CASE f.mode = "ignores" -> o
      [] f.mode = "bricks" -> [o EXCEPT !.bricked = TRUE]
      [] f.mode = "reportsWithoutRunning" -> [o EXCEPT !.reported = f.want]
      [] f.mode = "wrongHash" -> [o EXCEPT !.running = "corrupt", !.reported = "corrupt"]
      [] f.mode = "bootLoop" ->
           [o EXCEPT !.running = f.want, !.reported = f.want]
      [] f.mode = "intermittent" ->
           [o EXCEPT !.running = f.want, !.reported = f.want, !.silent = QuietFor]
      [] OTHER -> [o EXCEPT !.running = f.want, !.reported = f.want]

\* One of the goroutines wakes up and takes the mutex; it asks nothing again.
\* A brick publishes "offline" before it disconnects.
FlashDone(d, i) ==
    /\ d \notin bricking
    /\ organ' = [organ EXCEPT ![d] = Flashed(@, flashes[d][i])]
    /\ LET bricks == flashes[d][i].mode = "bricks" /\ link[d] # "off"
       IN  /\ bricking' = IF bricks THEN bricking \cup {d} ELSE bricking
           /\ status' = IF bricks /\ OnLine(d)
                          THEN [status EXCEPT ![d] = "offline"] ELSE status
           /\ wire' = IF bricks /\ OnLine(d)
                        THEN Published(d, <<Msg("status", "offline", FALSE)>>) ELSE wire
    /\ flashes' = [flashes EXCEPT ![d] = RemoveAt(@, i)]
    /\ UNCHANGED <<proc, started, pend, link, queue, announce, listening, gw,
                   commands, faults>>

BrickDisconnect(d) ==
    /\ d \in bricking
    /\ bricking' = bricking \ {d}
    /\ link' = [link EXCEPT ![d] = "off"]
    /\ queue' = [queue EXCEPT ![d] = <<>>]
    /\ UNCHANGED <<proc, started, organ, flashes, pend, status, announce, wire,
                   listening, gw, commands, faults>>

VivNext ==
    \/ Connect \/ ConnectFails \/ Close \/ Pass \/ Snapshot
    \/ \E d \in Device :
         \/ OnConnect(d) \/ LoseConnection(d) \/ Reconnect(d)
         \/ Tick(d) \/ TickPublish(d)
         \/ \E want \in Orders \cup {NoValue} : Command(d, want)
         \/ OnCommand(d)
         \/ \E i \in DOMAIN flashes[d] : FlashDone(d, i)
         \/ BrickDisconnect(d)

-----------------------------------------------------------------------------
Organism == [running : Hash, reported : Hash, bricked : BOOLEAN,
             silent : 0..QuietFor]
Payload  == Hash \cup {NoValue}
Flash    == [want : Hash, mode : Mode]
GatewayState == [down : BOOLEAN, nextAt : Nat \cup {NoValue}, until : Nat]

\* Only a status and a hash carry a payload that is read.
Message ==
    [topic : {"status"}, payload : {"online", "offline"}, retained : BOOLEAN]
      \cup [topic : {"hash"}, payload : Hash, retained : BOOLEAN]
      \cup [topic : {"sensor", "announce", "echo"}, payload : {NoValue}, retained : BOOLEAN]

\* The types of the fleet and its broker.
VivTypeOK ==
    /\ proc \in {"starting", "living", "closed", "died"}
    /\ started \in 0..N /\ (proc = "starting" => started < N)
    /\ organ \in [Device -> Organism]
    /\ link \in [Device -> {"off", "open", "up", "lost"}]
    /\ queue \in [Device -> Seq(Payload)]
    /\ flashes \in [Device -> Seq(Flash)]
    /\ bricking \subseteq Device
    /\ pend \in [Device -> Payload]
    /\ status \in [Device -> {NoValue, "online", "offline"}]
    /\ announce \in [Device -> BOOLEAN]
    /\ gw \in [Gateways -> GatewayState]
    /\ wire \in Seq(Message) /\ listening \in BOOLEAN
    /\ commands \in 0..MaxCommands /\ faults \in 0..MaxFaults
=============================================================================
