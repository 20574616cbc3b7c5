------------------------- MODULE SerialBridgeProofs -------------------------
(***************************************************************************)
(* Proofs about SerialBridge, for all commands and all sizes of buffers.   *)
(***************************************************************************)
EXTENDS SerialBridge, TLAPS

Values == Ids \cup {None, Garbled, "own", "online", "offline"}
Identity == {"hash", "status", "announce"}

\* A line that says nothing wrong about who the device is.
Honest(line) ==
    line.value \in Values /\ (line.topic \in Identity => line.value # Garbled)

Intact == \A t \in Identity : broker'[t] = Garbled => broker[t] = Garbled

LEMMA HearsType ==
    ASSUME broker \in [Topics -> Values], NEW line, line.value \in Values, Hears(line)
    PROVE  /\ broker' \in [Topics -> Values]
           /\ conn # "up" => broker' = broker
BY DEF Hears

LEMMA HearsHonest ==
    ASSUME broker \in [Topics -> Values], NEW line, Honest(line), Hears(line)
    PROVE  Intact
<1> SUFFICES ASSUME NEW t \in Identity, broker'[t] = Garbled PROVE broker[t] = Garbled
  BY DEF Intact
<1>1. t \in Topics
  BY DEF Identity, Topics
<1>2. CASE broker' = broker
  BY <1>2
<1>3. CASE broker' = [broker EXCEPT ![line.topic] = line.value]
  <2>1. CASE t = line.topic
    BY <1>1, <1>3, <2>1 DEF Honest
  <2>2. CASE t # line.topic
    BY <1>1, <1>3, <2>2
  <2> QED
    BY <2>1, <2>2
<1> QED
  BY <1>2, <1>3 DEF Hears

\* What main writes, what rx_thread writes, and what a cut of the latter becomes.
LEMMA OwnHonest ==
    ASSUME NEW t \in Topics
    PROVE  Honest(Own(t)) /\ \A where : Cut(Own(t), where).cut = where
BY DEF Own, Honest, Values, Garbled, Cut

LEMMA EchoType ==
    ASSUME NEW c \in Commands
    PROVE  /\ Echo(c) \in Echoes /\ Echo(c) # None
           /\ \A where \in Where : Cut(Echo(c), where) \in Pieces
<1>1. c.value \in Nat /\ c.suffix \in Nat /\ c.id \in Ids /\ StateBuf \in Nat /\ StateBuf > 0
  BY SerialAssumption DEF Ids
<1>2. c.form = "other" => c.suffix > 8
  BY SerialAssumption
<1>3. Echo(c) \in Echoes
  BY <1>1, <1>2 DEF Echo, Echoes, PubLen, StateLen
<1>4. \A where \in Where : Cut(Echo(c), where) \in Pieces
  BY <1>3 DEF Cut, Echoes, Pieces
<1> QED
  BY <1>3, <1>4, NoneAssumption

LEMMA EchoesHonest ==
    ASSUME NEW e \in Echoes
    PROVE  Honest(e)
<1>1. e.value \in Values /\ e.topic \in {"echo", None}
  BY DEF Echoes, Values
<1>2. e.topic \notin Identity
  BY <1>1, NoneAssumption DEF Identity, Topics
<1> QED
  BY <1>1, <1>2 DEF Honest

LEMMA MergedHonest ==
    ASSUME NEW o \in Pieces
    PROVE  Honest(Merged(o))
<1>1. o.topic \in {"echo", None} /\ o.cut \in {"prefix", "topic", "value"}
  BY DEF Pieces, Where
<1>2. None \notin Identity /\ "echo" \notin Identity /\ Garbled \notin Identity
  BY NoneAssumption DEF Identity, Topics, Garbled
<1>3. CASE o.cut = "prefix"
  BY <1>2, <1>3 DEF Merged, Honest, Values
<1>4. CASE o.cut = "topic"
  BY <1>2, <1>4 DEF Merged, Honest, Values
<1>5. CASE o.cut = "value"
  BY <1>1, <1>2, <1>5 DEF Merged, Honest, Values
<1> QED
  BY <1>1, <1>3, <1>4, <1>5

LEMMA MergedValue ==
    ASSUME NEW o, o.cut \in Where
    PROVE  Merged(o).value \in Values
<1>1. o.cut \in {"prefix", "topic", "value"}
  BY DEF Where
<1>2. CASE o.cut = "prefix"
  BY <1>2 DEF Merged, Values
<1>3. CASE o.cut = "topic"
  BY <1>3 DEF Merged, Values
<1>4. CASE o.cut = "value"
  BY <1>4 DEF Merged, Values
<1> QED
  BY <1>1, <1>2, <1>3, <1>4

\* Whatever was cut, what becomes of it is a line.
LEMMA OpenValue ==
    ASSUME SerialTypeOK, open # None
    PROVE  Merged(open).value \in Values
<1>1. open \in Pieces \/ open \in OwnPieces
  BY DEF SerialTypeOK
<1>2. CASE open \in Pieces
  BY <1>2, MergedHonest DEF Honest
<1>3. CASE open \in OwnPieces
  <2>1. open.cut \in Where
    BY <1>3 DEF OwnPieces, Cut
  <2> QED
    BY <2>1, MergedValue
<1> QED
  BY <1>1, <1>2, <1>3

LEMMA WriteHonest ==
    ASSUME SerialTypeOK, boot # "hung", NEW line, Honest(line), Write(line)
    PROVE  /\ broker' \in [Topics -> Values] /\ open' = None
           /\ Intact /\ (conn # "up" => broker' = broker)
<1>1. broker \in [Topics -> Values] /\ open \in Pieces \cup {None}
  BY DEF SerialTypeOK, Values
<1> DEFINE said == IF open = None THEN line ELSE Merged(open)
<1>2. Honest(said) /\ Hears(said)
  BY <1>1, MergedHonest DEF Write
<1>3. said.value \in Values
  BY <1>2 DEF Honest
<1> HIDE DEF said
<1> QED
  BY <1>1, <1>2, <1>3, HearsType, HearsHonest DEF Write

LEMMA TornType ==
    ASSUME SerialTypeOK, Torn
    PROVE  broker' \in [Topics -> Values] /\ (conn # "up" => broker' = broker)
<1>1. broker \in [Topics -> Values]
  BY DEF SerialTypeOK, Values
<1>2. CASE open # None /\ Hears(Merged(open))
  <2>1. Merged(open).value \in Values
    BY <1>2, OpenValue
  <2> QED
    BY <1>1, <1>2, <2>1, HearsType
<1>3. CASE broker' = broker
  BY <1>1, <1>3
<1>4. CASE \E where \in Where : Hears(Merged(Cut(Own(Head(script)), where)))
  <2>1. PICK where \in Where : Hears(Merged(Cut(Own(Head(script)), where)))
    BY <1>4
  <2>2. Merged(Cut(Own(Head(script)), where)).value \in Values
    BY <2>1, MergedValue DEF Cut
  <2> QED
    BY <1>1, <2>1, <2>2, HearsType
<1> QED
  BY <1>2, <1>3, <1>4 DEF Torn

-----------------------------------------------------------------------------
(* Type correctness and the identity *)

\* The parts of the type invariant that a step changes together.
Places   == boot \in {"fresh", "running", "hung"} /\ script \in Seq(Topics)
Lines    == /\ half \in Echoes \cup {None} /\ inq \in Seq(Commands)
            /\ open \in Pieces \cup OwnPieces \cup {None}
            /\ (boot # "hung" => open \in Pieces \cup {None} /\ (open # None => half # None))
Memory   == last \in Ids \cup {None}
Flags    == cable \in BOOLEAN /\ overread \in BOOLEAN /\ again \in BOOLEAN
Process  == /\ alive \in {"run", "ending", "leaving", "stopped", "dead"}
            /\ conn \in {"up", "lost", "off"}
            /\ (conn = "off" <=> alive \in {"stopped", "dead"})
Broker   == broker \in [Topics -> Values]
Counters == commands \in 0..MaxCommands /\ faults \in 0..MaxFaults

LEMMA Parts ==
    SerialTypeOK <=> /\ Places /\ Lines /\ Memory /\ Flags /\ Process
                     /\ Broker /\ Counters
BY DEF SerialTypeOK, Places, Lines, Memory, Flags, Process, Broker, Counters, Values

LEMMA PartsNext ==
    SerialTypeOK' <=> /\ Places' /\ Lines' /\ Memory' /\ Flags' /\ Process'
                      /\ Broker' /\ Counters'
BY DEF SerialTypeOK, Places, Lines, Memory, Flags, Process, Broker, Counters, Values

LEMMA TypeInit == Init => SerialTypeOK
<1> SUFFICES ASSUME Init PROVE SerialTypeOK
  OBVIOUS
<1>1. Places /\ Lines /\ Memory
  BY DEF Init, Places, Lines, Memory
<1>2. Flags
  BY Zenon DEF Init, Flags
<1>3. Process
  BY DEF Init, Process
<1>4. Broker
  BY DEF Init, Broker, Values
<1>5. Counters
  BY SerialAssumption DEF Init, Counters
<1> QED
  BY <1>1, <1>2, <1>3, <1>4, <1>5, Parts

\* What the steps of the device do to the broker.
Spoke == /\ broker' \in [Topics -> Values] /\ Intact
         /\ (conn # "up" => broker' = broker)

LEMMA WakeType ==
    ASSUME SerialTypeOK, Wake
    PROVE  SerialTypeOK' /\ UNCHANGED broker
<1>1. script' \in Seq(Topics)
  <2>1. Cycle \in Seq(Topics) /\ Birth \in Seq(Topics)
    BY DEF Cycle, Birth, Topics
  <2>2. Birth \o Cycle \in Seq(Topics)
    BY <2>1
  <2> QED
    BY <2>1, <2>2 DEF Wake
<1>2. Places' /\ Lines' /\ Memory' /\ Flags' /\ Process' /\ Broker' /\ Counters'
  BY <1>1, Parts DEF Wake, bridge, Places, Lines, Memory, Flags, Process, Broker, Counters
<1> QED
  BY <1>2, PartsNext DEF Wake

LEMMA MainLineType ==
    ASSUME SerialTypeOK, MainLine
    PROVE  SerialTypeOK' /\ Spoke
<1>1. script \in Seq(Topics) /\ script # <<>>
  BY DEF SerialTypeOK, MainLine
<1>2. Head(script) \in Topics /\ Tail(script) \in Seq(Topics)
  BY <1>1
<1>3. Spoke /\ open' = None
  BY <1>2, OwnHonest, WriteHonest DEF MainLine, Spoke
<1>4. overread' \in BOOLEAN
  BY Zenon DEF MainLine
<1>5. Places' /\ Lines' /\ Memory' /\ Flags' /\ Process' /\ Broker' /\ Counters'
  BY <1>2, <1>3, <1>4, Parts
     DEF MainLine, Spoke, bridge, Places, Lines, Memory, Flags, Process, Broker, Counters
<1> QED
  BY <1>3, <1>5, PartsNext

\* What rx_thread makes of the next line.
LEMMA ReceivedType ==
    ASSUME NEW c \in Commands
    PROVE  /\ Received(c) \in Commands \cup {None}
           /\ Received(c) # None =>
                4 + Received(c).suffix + 1 + Received(c).value < RxBuf
BY SerialAssumption DEF Received, Size

LEMMA RxLineType ==
    ASSUME SerialTypeOK, RxLine
    PROVE  SerialTypeOK' /\ Spoke
<1> DEFINE c == Received(Head(inq))
<1>1. inq \in Seq(Commands) /\ inq # <<>>
  BY DEF SerialTypeOK, RxLine
<1>2. Head(inq) \in Commands /\ Tail(inq) \in Seq(Commands)
  BY <1>1
<1>3. c \in Commands \cup {None}
  BY <1>2, ReceivedType
<1>4. /\ boot' = boot /\ script' = script /\ inq' = Tail(inq) /\ cable' = cable
      /\ alive' = alive /\ conn' = conn /\ commands' = commands /\ faults' = faults
      /\ half = None /\ boot # "hung"
  BY DEF RxLine, bridge
<1>5. Places' /\ Process' /\ Counters'
  BY <1>4, Parts DEF Places, Process, Counters
<1>6. overread' \in BOOLEAN /\ again' \in BOOLEAN
  <2>1. /\ overread' = overread \/ overread' = (overread \/ Echo(c).len >= LineBuf)
        /\ \/ again' = again
           \/ again' = (again \/ (c.form = "flash" /\ ~Repeats(c) /\ last = c.id))
    BY DEF RxLine, Handle
  <2>2. overread \in BOOLEAN /\ again \in BOOLEAN
    BY DEF SerialTypeOK
  <2> QED
    BY <2>1, <2>2, Zenon
<1>7. Flags'
  BY <1>4, <1>6, Parts DEF Flags
<1> HIDE DEF c
<1>8. CASE c = None
  <2>1. UNCHANGED <<broker, open, half, last>>
    BY <1>8 DEF RxLine, c
  <2>2. Lines' /\ Memory' /\ Broker'
    BY <1>2, <1>4, <2>1, Parts DEF Lines, Memory, Broker
  <2>3. Spoke
    BY <2>1, Parts DEF Spoke, Intact, Broker
  <2> QED
    BY <1>5, <1>7, <2>2, <2>3, PartsNext
<1>9. CASE c # None
  <2>1. c \in Commands
    BY <1>3, <1>9
  <2>2. /\ last' = last \/ last' = c.id
        /\ \/ Write(Echo(c)) /\ half' = None
           \/ \E where \in Where :
                /\ open' = Cut(Echo(c), where) /\ half' = Echo(c)
                /\ UNCHANGED broker
    BY <1>9 DEF RxLine, c, Handle
  <2>3. c.id \in Ids
    BY <2>1 DEF Ids
  <2>4. Memory'
    BY <2>2, <2>3, Parts DEF Memory
  <2>5. Lines' /\ Spoke
    <3>1. CASE Write(Echo(c)) /\ half' = None
      <4>1. Honest(Echo(c))
        BY <2>1, EchoType, EchoesHonest
      <4>2. Spoke /\ open' = None
        BY <1>4, <3>1, <4>1, WriteHonest DEF Spoke
      <4> QED
        BY <1>2, <1>4, <3>1, <4>2 DEF Lines
    <3>2. CASE \E where \in Where :
                 open' = Cut(Echo(c), where) /\ half' = Echo(c) /\ UNCHANGED broker
      <4>1. open' \in Pieces /\ half' \in Echoes /\ half' # None /\ broker' = broker
        BY <2>1, <3>2, EchoType
      <4>2. Spoke
        BY <4>1, Parts DEF Spoke, Intact, Broker
      <4> QED
        BY <1>2, <1>4, <4>1, <4>2 DEF Lines
    <3> QED
      BY <2>2, <3>1, <3>2
  <2>6. Broker'
    BY <2>5 DEF Spoke, Broker
  <2> QED
    BY <1>5, <1>7, <2>4, <2>5, <2>6, PartsNext
<1> QED
  BY <1>8, <1>9

LEMMA RxRestType ==
    ASSUME SerialTypeOK, RxRest
    PROVE  SerialTypeOK' /\ Spoke
<1>1. half \in Echoes /\ broker \in [Topics -> Values]
  BY DEF RxRest, SerialTypeOK, Values
<1>2. Honest(half) /\ half.value \in Values
  BY <1>1, EchoesHonest DEF Honest
<1>3. Spoke
  <2>1. CASE broker' = broker
    BY <1>1, <2>1 DEF Spoke, Intact
  <2>2. CASE Hears(half)
    BY <1>1, <1>2, <2>2, HearsType, HearsHonest DEF Spoke
  <2> QED
    BY <2>1, <2>2 DEF RxRest
<1>4. Places' /\ Lines' /\ Memory' /\ Flags' /\ Process' /\ Broker' /\ Counters'
  BY <1>3, Parts
     DEF RxRest, Spoke, bridge, Places, Lines, Memory, Flags, Process, Broker, Counters
<1> QED
  BY <1>3, <1>4, PartsNext

LEMMA ResetType ==
    ASSUME SerialTypeOK, Reset
    PROVE  SerialTypeOK' /\ (conn # "up" => broker' = broker)
<1>1. broker' \in [Topics -> Values] /\ (conn # "up" => broker' = broker)
  BY TornType DEF Reset
<1>2. faults' \in 0..MaxFaults
  BY SerialAssumption, Parts DEF Reset, Counters
<1>3. Places' /\ Lines' /\ Memory' /\ Flags' /\ Process' /\ Broker' /\ Counters'
  BY <1>1, <1>2, Parts
     DEF Reset, bridge, Places, Lines, Memory, Flags, Process, Broker, Counters
<1> QED
  BY <1>1, <1>3, PartsNext

LEMMA UnplugType ==
    ASSUME SerialTypeOK, Unplug
    PROVE  SerialTypeOK' /\ (conn # "up" => broker' = broker)
<1>1. broker' \in [Topics -> Values] /\ (conn # "up" => broker' = broker)
  BY TornType DEF Unplug
<1>2. faults' \in 0..MaxFaults
  BY SerialAssumption, Parts DEF Unplug, Counters
<1>3. cable' \in BOOLEAN
  BY Zenon DEF Unplug
<1>4. Places' /\ Lines' /\ Memory' /\ Flags' /\ Process' /\ Broker' /\ Counters'
  BY <1>1, <1>2, <1>3, Parts
     DEF Unplug, Places, Lines, Memory, Flags, Process, Broker, Counters
<1> QED
  BY <1>1, <1>4, PartsNext

\* Damaged lines are lines.
LEMMA NoiseLines ==
    ASSUME inq \in Seq(Commands), Noise
    PROVE  inq' \in Seq(Commands)
<1>1. PICK n \in 1..2 :
        /\ n <= Len(inq)
        /\ \/ inq' = SubSeq(inq, n + 1, Len(inq))
           \/ \E c \in Commands : inq' = <<c>> \o SubSeq(inq, n + 1, Len(inq))
  BY DEF Noise
<1> DEFINE rest == SubSeq(inq, n + 1, Len(inq))
<1>2. rest \in Seq(Commands)
  BY <1>1
<1> HIDE DEF rest
<1>3. ASSUME NEW c \in Commands PROVE <<c>> \o rest \in Seq(Commands)
  <2>1. <<c>> \in Seq(Commands)
    OBVIOUS
  <2> QED
    BY <1>2, <2>1
<1> QED
  BY <1>1, <1>2, <1>3 DEF rest

\* The steps that only bring lines or lose them.
LEMMA QuietType ==
    ASSUME SerialTypeOK,
           Hang \/ Noise \/ Plug \/ \E c \in Commands : OnCommand(c)
    PROVE  SerialTypeOK' /\ UNCHANGED <<broker, alive, conn>>
<1> USE SerialAssumption, Parts
<1>1. CASE Hang
  <2>1. open' \in Pieces \cup OwnPieces \cup {None} /\ boot' = "hung"
    <3>1. CASE UNCHANGED open
      BY <1>1, <3>1 DEF Hang, SerialTypeOK
    <3>2. CASE script # <<>> /\ \E where \in Where : open' = Cut(Own(Head(script)), where)
      <4>1. Head(script) \in Topics
        BY <3>2 DEF SerialTypeOK
      <4> QED
        BY <1>1, <3>2, <4>1 DEF Hang, OwnPieces
    <3> QED
      BY <1>1, <3>1, <3>2 DEF Hang
  <2>2. Places' /\ Lines' /\ Memory' /\ Flags' /\ Process' /\ Broker' /\ Counters'
    BY <1>1, <2>1 DEF Hang, bridge, Places, Lines, Memory, Flags, Process, Broker, Counters
  <2> QED
    BY <1>1, <2>2, PartsNext DEF Hang, bridge
<1>2. CASE Noise
  <2>1. inq' \in Seq(Commands)
    BY <1>2, NoiseLines DEF SerialTypeOK
  <2>2. Places' /\ Lines' /\ Memory' /\ Flags' /\ Process' /\ Broker' /\ Counters'
    BY <1>2, <2>1 DEF Noise, bridge, Places, Lines, Memory, Flags, Process, Broker, Counters
  <2> QED
    BY <1>2, <2>2, PartsNext DEF Noise, bridge
<1>3. CASE Plug
  <2>1. cable' \in BOOLEAN
    BY <1>3, Zenon DEF Plug
  <2>2. Places' /\ Lines' /\ Memory' /\ Flags' /\ Process' /\ Broker' /\ Counters'
    BY <1>3, <2>1 DEF Plug, device, Places, Lines, Memory, Flags, Process, Broker, Counters
  <2> QED
    BY <1>3, <2>2, PartsNext DEF Plug, device
<1>4. ASSUME NEW c \in Commands, OnCommand(c)
      PROVE  SerialTypeOK' /\ UNCHANGED <<broker, alive, conn>>
  <2>1. Places' /\ Lines' /\ Memory' /\ Flags' /\ Process' /\ Broker' /\ Counters'
    BY <1>4 DEF OnCommand, bridge, Places, Lines, Memory, Flags, Process, Broker, Counters
  <2> QED
    BY <1>4, <2>1, PartsNext DEF OnCommand, bridge
<1> QED
  BY <1>1, <1>2, <1>3, <1>4

\* readLoop's end, which hands on what the scanner has.
LEMMA ClosedType ==
    ASSUME SerialTypeOK, SerialClosed
    PROVE  SerialTypeOK' /\ conn' = conn /\ (conn # "up" => broker' = broker)
<1>1. broker' \in [Topics -> Values] /\ (conn # "up" => broker' = broker)
  <2>1. broker \in [Topics -> Values]
    BY DEF SerialTypeOK, Values
  <2>2. CASE broker' = broker
    BY <2>1, <2>2
  <2>3. CASE open # None /\ Hears(Merged(open))
    BY <2>1, <2>3, OpenValue, HearsType
  <2> QED
    BY <2>2, <2>3 DEF SerialClosed
<1>2. Places' /\ Lines' /\ Memory' /\ Flags' /\ Process' /\ Broker' /\ Counters'
  BY <1>1, Parts
     DEF SerialClosed, Places, Lines, Memory, Flags, Process, Broker, Counters
<1> QED
  BY <1>1, <1>2, PartsNext DEF SerialClosed

\* The other steps of the bridge, which say nothing but "offline".
BridgeStep ==
    \/ BridgeEnds \/ SignalCaught \/ BridgeStops \/ BridgeKilled
    \/ BridgeStarts \/ ConnectionLost \/ Reconnect

LEMMA BridgeType ==
    ASSUME SerialTypeOK, BridgeStep
    PROVE  /\ SerialTypeOK' /\ overread' = overread
           /\ broker' = broker \/ broker' = [broker EXCEPT !["status"] = "offline"]
<1>1. /\ UNCHANGED <<boot, script, half, inq, last, overread, again>>
      /\ open' = open \/ open' = None
      /\ cable' = cable /\ commands' = commands
  BY DEF device, BridgeStep, BridgeEnds, SignalCaught, BridgeStops, BridgeKilled,
         BridgeStarts, ConnectionLost, Reconnect
<1>2. broker' = broker \/ broker' = [broker EXCEPT !["status"] = "offline"]
  BY DEF BridgeStep, BridgeEnds, SignalCaught, BridgeStops, BridgeKilled,
         BridgeStarts, ConnectionLost, Reconnect, Offline
<1>3. faults' = faults \/ (faults < MaxFaults /\ faults' = faults + 1)
  BY DEF BridgeStep, BridgeEnds, SignalCaught, BridgeStops, BridgeKilled,
         BridgeStarts, ConnectionLost, Reconnect
<1>4. Process'
  BY Parts DEF Process, BridgeStep, BridgeEnds, SignalCaught, BridgeStops,
               BridgeKilled, BridgeStarts, ConnectionLost, Reconnect
<1>5. Places' /\ Lines' /\ Memory' /\ Flags'
  BY <1>1, Parts DEF Places, Lines, Memory, Flags
<1>6. Broker' /\ Counters'
  BY <1>1, <1>2, <1>3, SerialAssumption, Parts DEF Broker, Values, Counters
<1> QED
  BY <1>1, <1>2, <1>4, <1>5, <1>6, PartsNext

LEMMA TypeStep == SerialTypeOK /\ [Next]_vars => SerialTypeOK'
<1> SUFFICES ASSUME SerialTypeOK, [Next]_vars PROVE SerialTypeOK'
  OBVIOUS
<1>1. CASE UNCHANGED vars
  <2>1. Places' /\ Lines' /\ Memory' /\ Flags' /\ Process' /\ Broker' /\ Counters'
    BY <1>1, Parts DEF vars, device, bridge, Places, Lines, Memory, Flags, Process,
                       Broker, Counters
  <2> QED
    BY <2>1, PartsNext
<1>2. CASE Wake \/ MainLine \/ RxLine \/ RxRest
  BY <1>2, WakeType, MainLineType, RxLineType, RxRestType
<1>3. CASE Reset \/ Unplug
  BY <1>3, ResetType, UnplugType
<1>4. CASE Hang \/ Noise \/ Plug \/ \E c \in Commands : OnCommand(c)
  BY <1>4, QuietType
<1>5. CASE SerialClosed \/ BridgeStep
  BY <1>5, ClosedType, BridgeType
<1> QED
  BY <1>1, <1>2, <1>3, <1>4, <1>5 DEF Next, BridgeStep

-----------------------------------------------------------------------------
(* Theorems *)

\* For any commands and sizes the two threads, the wire, the bridge and the broker
\* keep their types: a line is open only while rx_thread is inside it, and a
\* bridge that has ended has no connection (cmd/bridge, main).
THEOREM SerialTypeCorrect == Spec => []SerialTypeOK
BY TypeInit, TypeStep, PTL DEF Spec

\* A retained status of a bridge that died or lost its broker is "offline", for
\* any number of faults (main's will and its last words).
THEOREM GoneIsOffline == Spec => []GoneReadsOffline
<1>1. Init => GoneReadsOffline
  BY DEF Init, GoneReadsOffline
<1>2. SerialTypeOK /\ GoneReadsOffline /\ [Next]_vars => GoneReadsOffline'
  <2> SUFFICES ASSUME SerialTypeOK, GoneReadsOffline, [Next]_vars
               PROVE  GoneReadsOffline'
    OBVIOUS
  <2>1. broker \in [Topics -> Values] /\ "status" \in Topics
    BY DEF SerialTypeOK, Values, Topics
  <2>2. ASSUME UNCHANGED <<alive, conn>>, conn # "up" => broker' = broker
        PROVE  GoneReadsOffline'
    BY <2>2 DEF GoneReadsOffline
  <2>3. CASE UNCHANGED vars
    BY <2>2, <2>3 DEF vars, bridge
  <2>4. CASE Wake
    BY <2>2, <2>4 DEF Wake, bridge
  <2>5. CASE MainLine
    BY <2>2, <2>5, MainLineType DEF MainLine, bridge, Spoke
  <2>6. CASE RxLine
    BY <2>2, <2>6, RxLineType DEF RxLine, bridge, Spoke
  <2>7. CASE RxRest
    BY <2>2, <2>7, RxRestType DEF RxRest, bridge, Spoke
  <2>8. CASE Reset
    BY <2>2, <2>8, ResetType DEF Reset, bridge
  <2>9. CASE Unplug
    BY <2>2, <2>9, UnplugType DEF Unplug
  <2>10. CASE Hang \/ Noise \/ Plug \/ \E c \in Commands : OnCommand(c)
    BY <2>2, <2>10, QuietType
  <2>11. CASE Reconnect \/ BridgeStarts \/ BridgeStops
    BY <2>11 DEF Reconnect, BridgeStarts, BridgeStops, GoneReadsOffline
  <2>12. CASE BridgeEnds
    BY <2>1, <2>12 DEF BridgeEnds, Offline, GoneReadsOffline
  <2>13. CASE SignalCaught
    BY <2>1, <2>13 DEF SignalCaught, Offline, GoneReadsOffline
  <2>14. CASE BridgeKilled
    BY <2>1, <2>14 DEF BridgeKilled, Offline, GoneReadsOffline, SerialTypeOK
  <2>15. CASE ConnectionLost
    BY <2>1, <2>15 DEF ConnectionLost, Offline, GoneReadsOffline
  <2>16. CASE SerialClosed
    BY <2>16, ClosedType DEF SerialClosed, GoneReadsOffline
  <2> QED
    BY <2>3, <2>4, <2>5, <2>6, <2>7, <2>8, <2>9, <2>10, <2>11, <2>12, <2>13, <2>14,
       <2>15, <2>16 DEF Next
<1> QED
  BY <1>1, <1>2, SerialTypeCorrect, PTL DEF Spec

\* No preemption and no command puts an identity on the broker that the device did
\* not write (pub, without a lock): only a reset, the cable, or a board that hangs
\* inside main's line does, when readLoop hands on the half of it.
THEOREM IdentityStaysIntact == Spec => IdentityIntact
<1> DEFINE Ends == boot' = "fresh" \/ ~cable' \/ (boot = "hung" /\ alive' = "ending")
           Step == \A t \in {"hash", "status", "announce"} :
                     broker'[t] = Garbled /\ broker[t] # Garbled => Ends
<1>1. SerialTypeOK /\ [Next]_vars => [Step]_vars
  <2> SUFFICES ASSUME SerialTypeOK, Next PROVE Intact \/ Ends
    BY DEF Intact, Identity
  <2>1. CASE MainLine \/ RxLine \/ RxRest
    BY <2>1, MainLineType, RxLineType, RxRestType DEF Spoke
  <2>2. CASE Reset \/ Unplug
    BY <2>2 DEF Reset, Unplug
  <2>3. CASE Wake \/ Hang \/ Noise \/ Plug \/ \E c \in Commands : OnCommand(c)
    BY <2>3, WakeType, QuietType DEF Intact
  <2>4. CASE SerialClosed
    BY <2>4 DEF SerialClosed
  <2>5. CASE BridgeStep
    <3>1. broker \in [Topics -> Values] /\ Identity \subseteq Topics
      BY DEF SerialTypeOK, Values, Identity, Topics
    <3>2. broker' = broker \/ broker' = [broker EXCEPT !["status"] = "offline"]
      BY <2>5, BridgeType
    <3> QED
      BY <3>1, <3>2 DEF Intact, Garbled
  <2> QED
    BY <2>1, <2>2, <2>3, <2>4, <2>5 DEF Next, BridgeStep
<1> QED
  BY <1>1, SerialTypeCorrect, PTL DEF Spec, IdentityIntact

\* pub's buffer takes all that rx_thread's lets through, and the announcement.
SizesFit == RxBuf <= LineBuf /\ PubLen(8, AnnounceLen) < LineBuf

\* Where the sizes fit, no line is printed past pub's buffer, whatever commands of
\* whatever property arrive.
THEOREM PrintsWithinBuffer ==
    ASSUME SizesFit
    PROVE  Spec => []NoOverread
<1>1. Init => NoOverread
  BY DEF Init, NoOverread
<1>2. SerialTypeOK /\ NoOverread /\ [Next]_vars => NoOverread'
  <2> SUFFICES ASSUME SerialTypeOK, ~overread, [Next]_vars PROVE ~overread'
    BY DEF NoOverread
  <2>1. LineBuf \in Nat /\ RxBuf \in Nat /\ AnnounceLen \in Nat /\ StateBuf \in Nat
    BY SerialAssumption
  <2>2. CASE MainLine
    <3>1. ~(PubLen(8, AnnounceLen) >= LineBuf)
      BY <2>1, SizesFit DEF SizesFit, PubLen
    <3> QED
      BY <2>2, <3>1, Zenon DEF MainLine
  <2>3. CASE RxLine
    <3> DEFINE c == Received(Head(inq))
    <3>1. Head(inq) \in Commands
      BY <2>3 DEF RxLine, SerialTypeOK
    <3>2. CASE c = None
      BY <2>3, <3>2 DEF RxLine
    <3>3. CASE c # None
      <4>1. c \in Commands /\ 4 + c.suffix + 1 + c.value < RxBuf
        BY <3>1, <3>3, ReceivedType
      <4>2. /\ c.suffix \in Nat /\ c.value \in Nat
            /\ c.form # "other" => c.suffix = 25
        BY <4>1, SerialAssumption DEF CommandLen
      <4>3. overread' = (overread \/ Echo(c).len >= LineBuf)
        BY <2>3, <3>3 DEF RxLine
      <4> HIDE DEF c
      <4>4. Echo(c).len < LineBuf
        BY <2>1, <4>1, <4>2, SizesFit DEF Echo, PubLen, StateLen, SizesFit
      <4>5. Echo(c).len \in Nat
        BY <4>1, EchoType DEF Echoes
      <4>6. ~(Echo(c).len >= LineBuf)
        BY <2>1, <4>4, <4>5
      <4> QED
        BY <4>3, <4>6
    <3> QED
      BY <3>2, <3>3
  <2>4. CASE \/ UNCHANGED vars \/ Wake \/ RxRest \/ Reset \/ Unplug
             \/ Hang \/ Noise \/ Plug \/ (\E c \in Commands : OnCommand(c))
             \/ SerialClosed \/ BridgeStep
    <3>1. overread' = overread
      BY <2>4, BridgeType
         DEF vars, device, Wake, RxRest, Reset, Unplug, Hang, Noise, Plug, OnCommand,
             SerialClosed
    <3> QED
      BY <3>1
  <2> QED
    BY <2>2, <2>3, <2>4 DEF Next, BridgeStep
<1> QED
  BY <1>1, <1>2, SerialTypeCorrect, PTL DEF Spec
=============================================================================
