---------------------------- MODULE SerialBridge ----------------------------
(***************************************************************************)
(* A device on a serial cable and the bridge that surfaces it on MQTT:     *)
(* firmware/nrf9160/src/main.c and cmd/bridge.                             *)
(*                                                                         *)
(* The firmware has two threads that write lines to one UART without a     *)
(* lock: main, which reports every ten seconds, and the lower-priority     *)
(* rx_thread, which answers commands.  main preempts rx_thread in the      *)
(* middle of a line and is never preempted by it.  The bridge reads lines, *)
(* drops what does not parse and publishes the rest; it keeps no state but *)
(* its connections.  A line is handled when its end is written: the port   *)
(* and the broker keep the order.                                          *)
(*                                                                         *)
(* Lines are abstracted to a topic and a value; the lengths that meet a    *)
(* buffer are kept.  The line a writer left unfinished is open; what it    *)
(* becomes depends on where it was cut.                                    *)
(***************************************************************************)
EXTENDS Integers, Sequences

CONSTANTS
    Commands,     \* [id, form, suffix, value, tail]: what may be sent to the device
    RxBuf,        \* sizeof(buf) in rx_thread
    LineBuf,      \* sizeof(line) in pub
    TokenBuf,     \* sizeof(last_firmware_token)
    StateBuf,     \* sizeof(state) in handle_line
    AnnounceLen,  \* characters of the announcement, fixed at build time
    MaxCommands,  \* bound
    MaxFaults,    \* bound: resets, hangs, kills, cables, connections, noise
    None          \* nothing there

Garbled == "garbled"   \* a value or a topic that two writers made together

\* The two suffixes of the firmware property and the longest of main's own.
CommandLen  == 25   \* text/firmware_url/command
StateLen    == 23   \* text/firmware_url/state

Forms == {"flash", "noop", "malformed",   \* firmware_url: <hash>|<url>, own hash, no '|'
          "other"}                        \* another property's command

ASSUME SerialAssumption ==
    /\ \A n \in {RxBuf, LineBuf, TokenBuf, StateBuf, AnnounceLen, MaxCommands, MaxFaults} :
         n \in Nat
    /\ RxBuf > 0 /\ TokenBuf > 0 /\ StateBuf > 0
    /\ \A c \in Commands :
         /\ c.form \in Forms /\ c.suffix \in Nat /\ c.value \in Nat
         /\ c.form # "other" => c.suffix = CommandLen
         /\ c.form = "other" => c.suffix > 8
         /\ c.tail = None \/ (c.tail \in Commands
                                /\ 4 + c.tail.suffix + 1 + c.tail.value < RxBuf)
         /\ c # None /\ c.id # None
    /\ \A c, d \in Commands : c.id = d.id => c = d

VARIABLES
    boot,      \* "fresh" (main sleeps 500 ms), "running" or "hung"
    script,    \* the topics main has still to write before it sleeps
    half,      \* rx_thread's line when it was preempted, None otherwise
    open,      \* what the bridge's scanner has of a line that was left unfinished
    inq,       \* lines written to the port that rx_thread has not read
    last,      \* the token last_firmware_token was filled from
    cable,     \* the serial cable is in
    alive,     \* the bridge: "run", "ending" (serial closed), "leaving" (on a
               \* signal), "stopped" (by the signal) or "dead"
    conn,      \* its MQTT connection: "up", "lost" or "off"
    broker,    \* the last payload of topics; status and announce are retained
    commands, faults,
    overread,  \* history: a line longer than its buffer was written
    again      \* history: a token was acted on that repeats the one before

device == <<boot, script, half, open, inq, last, overread, again>>
bridge == <<cable, alive, conn>>
vars   == <<device, bridge, broker, commands, faults>>

Topics == {"sensor", "hash", "status", "announce", "echo"}

-----------------------------------------------------------------------------
\* main: its birth, and what it writes every cycle.
Birth == <<"status", "announce">>
\* The birth is written once and no more.
CycleBare == <<"sensor", "hash">>

Cycle == <<"sensor", "hash", "status", "announce">>

Own(topic) == [topic |-> topic, value |-> IF topic = "status" THEN "online" ELSE "own"]

\* The callbacks and readLoop go on while the signal handler says goodbye.
Serving == alive \in {"run", "leaving"}

\* readLoop on one line: not a PUB line, or one for a topic nobody reads, changes
\* nothing; a client that is not connected drops the publish.
Hears(line) ==
    broker' = IF Serving /\ cable /\ conn = "up" /\ line.topic \in Topics
                THEN [broker EXCEPT ![line.topic] = line.value] ELSE broker

\* Where a line can be cut: before its topic is complete, before the space after
\* it, in its value.
Where == {"prefix", "topic", "value"}

\* The line an unfinished one becomes when other characters, or the end of the
\* stream, follow it.
Merged(o) ==
    CASE o.cut = "prefix" -> [topic |-> None, value |-> None]
      [] o.cut = "topic"  -> [topic |-> Garbled, value |-> None]
      [] o.cut = "value"  -> [topic |-> o.topic, value |-> Garbled]

Cut(line, where) == [topic |-> line.topic, value |-> line.value, cut |-> where]

\* pub: a whole line, after whatever was left on the wire.
Write(line) ==
    /\ Hears(IF open = None THEN line ELSE Merged(open))
    /\ open' = None

\* pub prints as many characters as snprintf would have written.
PubLen(suffix, value) == 4 + suffix + 1 + value + 2

Init ==
    /\ boot = "fresh" /\ script = <<>> /\ half = None /\ open = None
    /\ inq = <<>> /\ last = None
    /\ cable = TRUE /\ alive = "run" /\ conn = "up"
    /\ broker = [t \in Topics |-> None]
    /\ commands = 0 /\ faults = 0
    /\ overread = FALSE /\ again = FALSE

\* main's sleep ends.
Wake ==
    /\ boot # "hung" /\ script = <<>>
    /\ script' = IF boot = "fresh" THEN Birth \o Cycle ELSE Cycle
    /\ boot' = "running"
    /\ UNCHANGED <<half, open, inq, last, overread, again, bridge, broker,
                   commands, faults>>

\* rx_thread preempts main instead.
MainLinePreempted ==
    /\ boot # "hung" /\ script # <<>>
    /\ \/ inq = <<>> /\ Hears(Own(Head(script)))
       \/ inq # <<>> /\ Hears(Merged(Cut(Own(Head(script)), "value")))
    /\ script' = Tail(script)
    /\ UNCHANGED <<boot, half, open, inq, last, overread, again, bridge, commands,
                   faults>>

MainLine ==
    /\ boot # "hung" /\ script # <<>>
    /\ Write(Own(Head(script)))
    /\ script' = Tail(script)
    /\ overread' = (overread \/ (Head(script) = "announce"
                                   /\ PubLen(8, AnnounceLen) >= LineBuf))
    /\ UNCHANGED <<boot, half, inq, last, again, bridge, commands, faults>>

-----------------------------------------------------------------------------
\* The characters of a command's line: SUB, suffix, value.
Size(c) == 4 + c.suffix + 1 + c.value

\* The buffer's last character is used, too.
ReceivedOneMore(c) == IF Size(c) <= RxBuf THEN c ELSE c.tail

\* rx_thread: a line that does not fit loses its first RxBuf characters, as
\* often as that happens, and what is left is handled as a line of its own.
Received(c) == IF Size(c) < RxBuf THEN c ELSE c.tail

\* The echo of on_firmware_url, and that of a property it does not know, whose
\* topic is cut to its buffer.
Echo(c) ==
    IF c.form # "other"
      THEN [topic |-> "echo", value |-> c.id, len |-> PubLen(StateLen, c.value)]
      ELSE LET n == IF c.suffix - 2 < StateBuf THEN c.suffix - 2 ELSE StateBuf - 1
           IN  [topic |-> None, value |-> None, len |-> PubLen(n, c.value)]

\* None is no line and no topic.
ASSUME NoneAssumption ==
    None \notin Topics \cup {Garbled} /\ \A c \in Commands : Echo(c) # None

\* strncmp of the whole buffer with one that strncpy filled but for its last
\* character: a longer token never matches.
Repeats(c) == last = c.id /\ c.value < TokenBuf

\* on_firmware_url after the echo: dedup, then malformed, no-op or flash.
Handle(c) ==
    /\ last' = c.id
    /\ again' = (again \/ (c.form = "flash" /\ ~Repeats(c) /\ last = c.id))

\* handle_line of the next line; its echo is written whole, or main wakes up in
\* the middle of it.
RxLine ==
    /\ boot # "hung" /\ script = <<>> /\ half = None /\ inq # <<>>
    /\ inq' = Tail(inq)
    /\ LET c == Received(Head(inq))
       IN  IF c = None
             THEN UNCHANGED <<broker, open, half, overread, last, again>>
             ELSE /\ overread' = (overread \/ Echo(c).len >= LineBuf)
                  /\ IF c.form = "other" THEN UNCHANGED <<last, again>>
                                         ELSE Handle(c)
                  /\ \/ Write(Echo(c)) /\ half' = None
                     \/ \E where \in Where :
                          /\ open' = Cut(Echo(c), where) /\ half' = Echo(c)
                          /\ UNCHANGED broker
    /\ UNCHANGED <<boot, script, bridge, commands, faults>>

\* The rest of a line that was cut: the line itself when nothing came between,
\* and otherwise a line the bridge drops.
RxRest ==
    /\ boot # "hung" /\ script = <<>> /\ half # None
    /\ IF open = None THEN UNCHANGED broker ELSE Hears(half)
    /\ open' = None /\ half' = None
    /\ UNCHANGED <<boot, script, inq, last, overread, again, bridge, commands,
                   faults>>

\* Other characters, or the end of the stream, follow what is on the wire: a
\* line of rx_thread's that main interrupted, one that main is writing, or none.
Torn ==
    \/ open # None /\ Hears(Merged(open))
    \/ open = None /\ UNCHANGED broker
    \/ /\ open = None /\ script # <<>> /\ boot # "hung"
       /\ \E where \in Where :
            Hears(Merged(Cut(Own(Head(script)), where)))

\* The board resets; its banner ends the line.
Reset ==
    /\ faults < MaxFaults /\ faults' = faults + 1
    /\ Torn
    /\ boot' = "fresh" /\ script' = <<>> /\ half' = None /\ open' = None
    /\ inq' = <<>> /\ last' = None
    /\ UNCHANGED <<overread, again, bridge, commands>>

\* The board stops for good, between two lines or inside one of main's.
Hang ==
    /\ boot # "hung" /\ faults < MaxFaults /\ faults' = faults + 1
    /\ boot' = "hung"
    /\ \/ UNCHANGED open
       \/ /\ open = None /\ script # <<>>
          /\ \E where \in Where : open' = Cut(Own(Head(script)), where)
    /\ UNCHANGED <<script, half, inq, last, overread, again, bridge,
                   broker, commands>>

-----------------------------------------------------------------------------
\* A command is published while the bridge is subscribed: onCommand writes it
\* to the port as one line.
OnCommand(c) ==
    /\ commands < MaxCommands /\ commands' = commands + 1
    /\ Serving /\ conn = "up"
    /\ inq' = IF cable THEN Append(inq, c) ELSE inq
    /\ UNCHANGED <<boot, script, half, open, last, overread, again, bridge,
                   broker, faults>>

\* The device polls its UART and loses characters it is late for, ends of line
\* included: one line or two become none, or a shorter one than they were.
Noise ==
    /\ faults < MaxFaults /\ faults' = faults + 1
    /\ \E n \in 1..2 :
         /\ n <= Len(inq)
         /\ LET size == IF n = 1 THEN Size(inq[1]) ELSE Size(inq[1]) + 1 + Size(inq[2])
                rest == SubSeq(inq, n + 1, Len(inq))
            IN  \/ inq' = rest
                \/ \E c \in Commands : Size(c) < size /\ inq' = <<c>> \o rest
    /\ UNCHANGED <<boot, script, half, open, last, overread, again, bridge,
                   broker, commands>>

\* The cable falls out; the scanner hands on the line it has half of.
Unplug ==
    /\ cable /\ faults < MaxFaults /\ faults' = faults + 1
    /\ Torn
    /\ cable' = FALSE /\ open' = None /\ inq' = <<>>
    /\ UNCHANGED <<boot, script, half, last, overread, again, alive, conn,
                   commands>>

Plug ==
    /\ ~cable /\ cable' = TRUE
    /\ UNCHANGED <<device, alive, conn, broker, commands, faults>>

\* A read that times out is no end of the stream.
SerialClosedByCable ==
    /\ alive = "run" /\ ~cable
    /\ alive' = "ending"
    /\ UNCHANGED <<device, cable, conn, broker, commands, faults>>

\* The scanner stops: the read fails without a cable, or a hundred reads in a row
\* time out, which only a device that writes nothing can bring about.  At the
\* end of its input it hands on the line it has half of (Unplug has done so already).
SerialClosed ==
    /\ alive = "run" /\ (~cable \/ boot = "hung")
    /\ alive' = "ending"
    /\ IF open = None THEN UNCHANGED broker ELSE Hears(Merged(open))
    /\ open' = None
    /\ UNCHANGED <<boot, script, half, inq, last, overread, again, cable, conn, commands,
                   faults>>

\* No will was set, and nobody says goodbye.
OfflineUnsaid == UNCHANGED broker

Offline == broker' = [broker EXCEPT !["status"] = "offline"]

\* main waits for its signals after readLoop has returned.
BridgeEndsOpen ==
    /\ alive = "ending" /\ alive' = "dead"
    /\ IF conn = "up" THEN Offline ELSE UNCHANGED broker
    /\ UNCHANGED <<device, cable, conn, commands, faults>>

\* readLoop's last words, then main returns and the connection with it.
BridgeEnds ==
    /\ alive = "ending"
    /\ alive' = "dead" /\ conn' = "off"
    /\ IF conn = "up" THEN Offline ELSE UNCHANGED broker
    /\ UNCHANGED <<device, cable, commands, faults>>

\* SIGTERM: a goroutine publishes "offline", disconnects, for which the broker
\* publishes no will, and exits; readLoop is not stopped meanwhile.
SignalCaught ==
    /\ alive = "run" /\ faults < MaxFaults /\ faults' = faults + 1
    /\ alive' = "leaving"
    /\ IF conn = "up" THEN Offline ELSE UNCHANGED broker
    /\ UNCHANGED <<device, cable, conn, commands>>

BridgeStops ==
    /\ alive = "leaving"
    /\ alive' = "stopped" /\ conn' = "off"
    /\ UNCHANGED <<device, cable, broker, commands, faults>>

\* The bridge is killed, and the broker publishes the will.
BridgeKilled ==
    /\ conn # "off" /\ faults < MaxFaults /\ faults' = faults + 1
    /\ alive' = "dead" /\ conn' = "off"
    /\ IF conn = "up" THEN Offline ELSE UNCHANGED broker
    /\ UNCHANGED <<device, cable, commands>>

\* A new process with an empty scanner: the start of a line is lost to it.
BridgeStarts ==
    /\ conn = "off" /\ cable
    /\ alive' = "run" /\ conn' = "up" /\ open' = None
    /\ UNCHANGED <<boot, script, half, inq, last, overread, again, cable, broker, commands,
                   faults>>

\* The connection to the broker drops, and the broker publishes the will.
ConnectionLost ==
    /\ conn = "up" /\ faults < MaxFaults /\ faults' = faults + 1
    /\ conn' = "lost" /\ Offline
    /\ UNCHANGED <<device, cable, alive, commands>>

\* The client reconnects; OnConnect subscribes and publishes nothing.
Reconnect ==
    /\ conn = "lost" /\ conn' = "up"
    /\ UNCHANGED <<device, cable, alive, broker, commands, faults>>

Next ==
    \/ Wake \/ MainLine \/ RxLine \/ RxRest \/ Reset \/ Hang
    \/ \E c \in Commands : OnCommand(c)
    \/ Noise \/ Unplug \/ Plug \/ SerialClosed \/ BridgeEnds \/ SignalCaught
    \/ BridgeStops \/ BridgeKilled \/ BridgeStarts \/ ConnectionLost \/ Reconnect

\* Both threads run, the bridge reads on to its end and its client reconnects.
\* Nothing makes anybody plug the cable in or start the bridge.
Fairness ==
    /\ WF_vars(Wake) /\ WF_vars(MainLine) /\ SF_vars(RxRest) /\ SF_vars(RxLine)
    /\ WF_vars(SerialClosed) /\ WF_vars(BridgeEnds) /\ WF_vars(BridgeStops)
    /\ WF_vars(Reconnect)

Spec == Init /\ [][Next]_vars
FairSpec == Spec /\ Fairness

-----------------------------------------------------------------------------
Ids == {c.id : c \in Commands}
Pieces == [topic : {"echo", None}, value : Ids \cup {None}, cut : Where]
OwnPieces == {Cut(Own(t), where) : t \in Topics, where \in Where}
Echoes == [topic : {"echo", None}, value : Ids \cup {None}, len : Nat]

SerialTypeOK ==
    /\ boot \in {"fresh", "running", "hung"}
    /\ script \in Seq(Topics)
    /\ half \in Echoes \cup {None} /\ open \in Pieces \cup OwnPieces \cup {None}
    /\ boot # "hung" => open \in Pieces \cup {None} /\ (open # None => half # None)
    /\ inq \in Seq(Commands)
    /\ last \in Ids \cup {None}
    /\ cable \in BOOLEAN /\ overread \in BOOLEAN /\ again \in BOOLEAN
    /\ alive \in {"run", "ending", "leaving", "stopped", "dead"}
    /\ conn \in {"up", "lost", "off"}
    /\ conn = "off" <=> alive \in {"stopped", "dead"}
    /\ broker \in [Topics -> Ids \cup {None, Garbled, "own", "online", "offline"}]
    /\ commands \in 0..MaxCommands /\ faults \in 0..MaxFaults

\* pub never prints past its buffer: every line rx_thread accepts is echoed in no
\* more characters than it came in, whichever property it is for, and that is
\* one less than the buffers hold.
NoOverread == ~overread

\* The preemption of rx_thread by main costs a reading or an echo and never the
\* device's identity: a hash, a status or an announcement that the device did not
\* write gets to the broker only when the board resets, the cable falls out, or the
\* board hangs for good inside one of main's own lines and readLoop, giving up,
\* hands the half of it on.
IdentityIntact ==
    [][\A t \in {"hash", "status", "announce"} :
         broker'[t] = Garbled /\ broker[t] # Garbled =>
            boot' = "fresh" \/ ~cable' \/ (boot = "hung" /\ alive' = "ending")]_vars

\* "Keep the last token and return early if it repeats" (docs/device-contract.md:107,
\* on_firmware_url): a flash is not acted on again when the command before it was
\* the same one.
RepeatsReturnEarly == ~again

\* "If the bridge dies, the device is unreachable, and saying so is correct"
\* (main): whenever the bridge is dead or has lost the broker, however it came to
\* that, the retained status is "offline".  A bridge that was stopped by a
\* signal is left out: a report between its goodbye and its disconnect stays.
GoneReadsOffline ==
    conn # "up" /\ alive # "stopped" => broker["status"] = "offline"

\* The same of a bridge that a signal stops: its last word is its goodbye.
StoppedReadsOffline == alive = "stopped" => broker["status"] = "offline"

\* Serial has no retention (main.c, "every cycle rather than only at boot"): after
\* a reset, a restart of the bridge or a lost connection the device is online and
\* announced again, without anybody asking it.
OnlineAgain ==
    LET attached == boot # "hung" /\ cable /\ alive = "run" /\ conn = "up"
    IN  attached ~> \/ broker["status"] = "online" /\ broker["announce"] = "own"
                    \/ ~attached

\* A bridge that looks alive while doing nothing (main, the read timeout): a
\* device that writes nothing any more is offline in the end.
SilentIsOffline ==
    boot = "hung" ~>
        (broker["status"] = "offline" \/ boot # "hung" \/ alive = "stopped")
=============================================================================
