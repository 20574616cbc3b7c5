--------------------------- MODULE DevPanelProofs ---------------------------
(***************************************************************************)
(* The mapper's device table keeps its types and never runs a device twice *)
(* or unstoppably, for any devices, values, callers and number of calls.   *)
(***************************************************************************)
EXTENDS DevPanel, TLAPS

\* Whoever is past Lock holds the mutex.
MutexInv == \A c \in Caller : call[c].pc \in {"work", "stopped"} => mutex = c

\* The cancelFunc kept is that of the youngest instance, which alone can be in
\* the table.
YoungestInv ==
    /\ muxs = made
    /\ \A d \in Device : devices[d] \in {0, made[d]}
    /\ \A d \in Device, k \in Instance : k > made[d] => inst[d][k].run = "none"

\* A call in the middle of stopping works on the youngest instance.
StoppedInv ==
    \A c \in Caller : call[c].pc = "stopped" => made[call[c].id] # 0

\* An update carries the value to start with.
ValueInv == \A c \in Caller : call[c].op \in {"Update", "Twins"} => call[c].value \in Value

\* A dead process has no calls.
DownInv == up \/ \A c \in Caller : call[c].pc = "idle"

CallInv == ValueInv /\ MutexInv /\ StoppedInv /\ DownInv

PanelInv == PanelTypeOK /\ CallInv /\ YoungestInv /\ OneRunner
-----------------------------------------------------------------------------
(* Types *)

LEMMA FirstInstance == 1 \in Instance /\ Instance \subseteq Nat /\ 0 \notin Instance
  BY PanelAssumption DEF Instance

LEMMA RecordTypes ==
  /\ NoInstance \in InstanceType
  /\ NoCall \in CallType
  /\ \A v \in Value : Started(v) \in InstanceType
  /\ \A i \in InstanceType : Cancelled(i) \in InstanceType /\ Disconnected(i) \in InstanceType
  BY PanelAssumption
  DEF NoInstance, NoCall, Started, InstanceType, CallType, Cancelled, Disconnected

LEMMA MovedType ==
  ASSUME NEW i \in InstanceType,
         NEW run \in {"none", "start", "init", "apply", "report", "mute", "over"},
         NEW client \in {"nil", "made", "dialing", "open", "failed", "closed"}
  PROVE  /\ Moved(i, run, client) \in InstanceType
         /\ Moved(i, run, client).run = run
         /\ Moved(i, run, client).cancelled = i.cancelled
  BY DEF InstanceType, Moved

\* Exactly one instance changes.
LEMMA OneChanges ==
  ASSUME inst \in [Device -> [Instance -> InstanceType]],
         NEW d \in Device, NEW k \in Instance, NEW i \in InstanceType,
         inst' = [inst EXCEPT ![d][k] = i]
  PROVE  /\ inst' \in [Device -> [Instance -> InstanceType]]
         /\ inst'[d][k] = i
         /\ \A e \in Device, j \in Instance : (e # d \/ j # k) => inst'[e][j] = inst[e][j]
<1>1. inst' = [inst EXCEPT ![d] = [inst[d] EXCEPT ![k] = i]]
  OBVIOUS
<1>2. [inst[d] EXCEPT ![k] = i] \in [Instance -> InstanceType]
  OBVIOUS
<1>3. inst'[d] = [inst[d] EXCEPT ![k] = i]
  BY <1>1
<1>4. inst' \in [Device -> [Instance -> InstanceType]]
  BY <1>1, <1>2
<1> QED
  BY <1>1, <1>2, <1>3, <1>4

\* What DevInit and DevStart set up is well typed.
LEMMA FleetType ==
  ASSUME store \in [Device -> Value \cup {NoValue}], NEW d \in Device
  PROVE  Registered(d) \in {0} \cup Instance /\ Fleet(d) \in [Instance -> InstanceType]
<1>1. Registered(d) \in {0} \cup Instance
  BY FirstInstance DEF Registered
<1>2. ASSUME NEW k \in Instance
      PROVE  (IF k = Registered(d) THEN Started(store[d]) ELSE NoInstance) \in InstanceType
  <2>1. CASE k = Registered(d)
    <3>1. store[d] \in Value
      BY <2>1, FirstInstance DEF Registered
    <3> QED
      BY <2>1, <3>1, RecordTypes
  <2>2. CASE k # Registered(d)
    BY <2>2, RecordTypes
  <2> QED
    BY <2>1, <2>2
<1> QED
  BY <1>1, <1>2 DEF Fleet

LEMMA InitType == Init => PanelTypeOK
<1> SUFFICES ASSUME Init PROVE PanelTypeOK
  OBVIOUS
<1>1. devices \in [Device -> {0} \cup Instance] /\ inst \in [Device -> [Instance -> InstanceType]]
  BY FleetType DEF Init
<1>2. call \in [Caller -> CallType]
  BY RecordTypes DEF Init
<1> QED
  BY <1>1, <1>2, PanelAssumption DEF Init, PanelTypeOK

LEMMA DieType == PanelTypeOK /\ Die /\ faults' \in 0..MaxFaults => PanelTypeOK'
<1> SUFFICES ASSUME PanelTypeOK, Die, faults' \in 0..MaxFaults PROVE PanelTypeOK'
  OBVIOUS
<1>1. inst' \in [Device -> [Instance -> InstanceType]] /\ call' \in [Caller -> CallType]
  BY RecordTypes DEF Die
<1> QED
  BY <1>1 DEF Die, PanelTypeOK

\* One field of one instance changes.
LEMMA BecomesType ==
  ASSUME PanelTypeOK, NEW d \in Device, NEW k \in Instance,
         NEW run \in {"none", "start", "init", "apply", "report", "mute", "over"},
         NEW client \in {"nil", "made", "dialing", "open", "failed", "closed"},
         Becomes(d, k, run, client),
         told' \in [Device -> Value \cup {NoValue, Manual}], faults' \in 0..MaxFaults
  PROVE  PanelTypeOK'
<1>1. inst' \in [Device -> [Instance -> InstanceType]]
  BY MovedType, OneChanges DEF Becomes, PanelTypeOK
<1> QED
  BY <1>1 DEF Becomes, PanelTypeOK, panel

LEMMA PcType ==
  ASSUME call \in [Caller -> CallType], NEW c \in Caller,
         NEW p \in {"idle", "lock", "work", "stopped"},
         call' = [call EXCEPT ![c].pc = p]
  PROVE  /\ call' \in [Caller -> CallType]
         /\ p # "idle" => \A o \in Caller : call[o].pc # "idle" => call'[o].pc # "idle"
<1>1. [call[c] EXCEPT !.pc = p] \in CallType /\ [call[c] EXCEPT !.pc = p].pc = p
  BY DEF CallType
<1>2. call'[c] = [call[c] EXCEPT !.pc = p] /\ \A o \in Caller : o # c => call'[o] = call[o]
  OBVIOUS
<1>3. call' \in [Caller -> CallType]
  BY <1>1
<1> QED
  BY <1>1, <1>2, <1>3

LEMMA ReturnType ==
  ASSUME PanelTypeOK, NEW c \in Caller, Return(c)
  PROVE  mutex' = NoCaller /\ call' \in [Caller -> CallType]
  BY RecordTypes DEF Return, PanelTypeOK

\* The two halves of stopDev, the update and the removal keep the types.
LEMMA StopType ==
  ASSUME PanelTypeOK, NEW c \in Caller, NEW d \in Device,
         NEW table \in [Device -> {0} \cup Instance], StopDevice(c, d, table)
  PROVE  PanelTypeOK'
<1>1. CASE devices[d] = 0 \/ inst[d][devices[d]].client = "nil"
  BY <1>1, DieType DEF StopDevice, PanelTypeOK
<1>2. CASE ~(devices[d] = 0 \/ inst[d][devices[d]].client = "nil")
  <2>1. devices[d] \in Instance
    BY <1>2 DEF PanelTypeOK
  <2>2. inst[d][devices[d]] \in InstanceType
    BY <2>1 DEF PanelTypeOK
  <2>3. inst' \in [Device -> [Instance -> InstanceType]]
    BY <1>2, <2>1, <2>2, RecordTypes, OneChanges DEF StopDevice, PanelTypeOK
  <2>4. /\ call' \in [Caller -> CallType]
        /\ \A o \in Caller : call[o].pc # "idle" => call'[o].pc # "idle"
    BY <1>2, PcType DEF StopDevice, PanelTypeOK
  <2> QED
    BY <1>2, <2>3, <2>4 DEF StopDevice, PanelTypeOK
<1> QED
  BY <1>1, <1>2

LEMMA UpdateStartType ==
  ASSUME PanelTypeOK, NEW c \in Caller, UpdateStart(c), call[c].value \in Value
  PROVE  PanelTypeOK'
<1> DEFINE d == call[c].id
           k == made[d] + 1
           old == IF call[c].pc = "stopped" THEN {muxs[d]} ELSE {}
           new == [j \in Instance |-> IF j = k THEN Started(call[c].value)
                                      ELSE IF j \in old THEN Cancelled(inst[d][j])
                                      ELSE inst[d][j]]
<1>1. d \in Device /\ k \in Instance
  BY DEF UpdateStart, PanelTypeOK, CallType
<1>2. inst' = [inst EXCEPT ![d] = new]
  BY DEF UpdateStart
<1>3. new \in [Instance -> InstanceType]
  <2>1. ASSUME NEW j \in Instance PROVE inst[d][j] \in InstanceType
    BY <1>1 DEF PanelTypeOK
  <2> QED
    BY <2>1, RecordTypes
<1>4. inst' \in [Device -> [Instance -> InstanceType]]
  <2> HIDE DEF new, d
  <2> QED
    BY <1>1, <1>2, <1>3 DEF PanelTypeOK
<1>5. /\ devices' \in [Device -> {0} \cup Instance]
      /\ muxs' \in [Device -> {0} \cup Instance]
      /\ made' \in [Device -> {0} \cup Instance]
  BY <1>1 DEF UpdateStart, PanelTypeOK
<1> QED
  BY <1>4, <1>5, ReturnType DEF UpdateStart, PanelTypeOK

\* An instance's own steps.
LEMMA StepType ==
  ASSUME PanelTypeOK, NEW d \in Device, NEW k \in Instance, Step(d, k) \/ DialFails(d, k)
  PROVE  PanelTypeOK'
<1>0. inst[d][k] \in InstanceType
  BY DEF PanelTypeOK
<1>1. CASE NewClient(d, k)
  BY <1>1, BecomesType DEF NewClient, PanelTypeOK
<1>2. CASE Dial(d, k)
  BY <1>2, BecomesType DEF Dial, PanelTypeOK
<1>3. CASE Connected(d, k)
  BY <1>3, BecomesType DEF Connected, PanelTypeOK
<1>4. CASE Apply(d, k)
  <2>1. inst[d][k].client \in {"nil", "made", "dialing", "open", "failed", "closed"}
    BY <1>0 DEF InstanceType
  <2>2. told' \in [Device -> Value \cup {NoValue, Manual}]
    BY <1>4, <1>0 DEF Apply, Published, PanelTypeOK, InstanceType
  <2>3. faults' \in 0..MaxFaults
    BY <1>4 DEF Apply, PanelTypeOK
  <2>4. \E run \in {"report", "mute"} : Becomes(d, k, run, inst[d][k].client)
    BY <1>4 DEF Apply
  <2> QED
    BY <2>1, <2>2, <2>3, <2>4, BecomesType
<1>5. CASE Exit(d, k)
  <2>1. inst[d][k].client \in {"nil", "made", "dialing", "open", "failed", "closed"}
    BY <1>0 DEF InstanceType
  <2> QED
    BY <1>5, <2>1, BecomesType DEF Exit, PanelTypeOK
<1>7. CASE BadConfig(d, k)
  BY <1>7, BecomesType DEF BadConfig, PanelTypeOK
<1>6. CASE DialFails(d, k)
  <2>1. faults' \in 0..MaxFaults
    BY <1>6, PanelAssumption DEF DialFails, PanelTypeOK
  <2> QED
    BY <1>6, <2>1, BecomesType DEF DialFails, PanelTypeOK
<1> QED
  BY <1>1, <1>2, <1>3, <1>4, <1>5, <1>6, <1>7 DEF Step

\* A call's steps.
LEMMA HandlerType ==
  ASSUME PanelTypeOK, ValueInv, NEW c \in Caller, Handler(c)
  PROVE  PanelTypeOK'
<1> DEFINE d == call[c].id
<1>0. d \in Device /\ call[c] \in CallType
  BY DEF PanelTypeOK, CallType
<1>1. CASE UpdateStop(c)
  BY <1>0, <1>1, StopType DEF UpdateStop, PanelTypeOK
<1>2. CASE UpdateStart(c)
  BY <1>2, UpdateStartType DEF UpdateStart, ValueInv
<1>3. CASE RemoveStop(c)
  <2>1. [devices EXCEPT ![d] = 0] \in [Device -> {0} \cup Instance]
    BY DEF PanelTypeOK
  <2> QED
    BY <1>0, <1>3, <2>1, StopType DEF RemoveStop
<1>4. CASE RemoveCancel(c)
  <2>1. CASE muxs[d] \in Instance
    <3>1. inst[d][muxs[d]] \in InstanceType
      BY <1>0, <2>1 DEF PanelTypeOK
    <3>2. inst' \in [Device -> [Instance -> InstanceType]]
      BY <1>0, <1>4, <2>1, <3>1, RecordTypes, OneChanges DEF RemoveCancel, PanelTypeOK
    <3> QED
      BY <1>4, <3>2, ReturnType DEF RemoveCancel, PanelTypeOK, panel
  <2>2. CASE muxs[d] \notin Instance
    <3>1. [inst[d] EXCEPT ![muxs[d]] = Cancelled(inst[d][muxs[d]])] = inst[d]
      BY <1>0, <2>2 DEF PanelTypeOK
    <3>2. inst' = inst
      BY <1>0, <1>4, <3>1 DEF RemoveCancel, PanelTypeOK
    <3> QED
      BY <1>4, <3>2, ReturnType DEF RemoveCancel, PanelTypeOK, panel
  <2> QED
    BY <2>1, <2>2
<1>5. CASE NotFound(c)
  <2>1. devices' \in [Device -> {0} \cup Instance]
    BY <1>5 DEF NotFound, PanelTypeOK
  <2> QED
    BY <1>5, <2>1, ReturnType DEF NotFound, ReturnError, PanelTypeOK
<1>6. CASE TwinsRelock(c)
  <2>1. devices[d] \in Instance /\ inst[d][devices[d]] \in InstanceType
    BY <1>0, <1>6 DEF TwinsRelock, PanelTypeOK
  <2>2. Retwinned(inst[d][devices[d]], call[c].value) \in InstanceType
    BY <1>0, <2>1 DEF Retwinned, InstanceType, CallType
  <2>3. inst' \in [Device -> [Instance -> InstanceType]]
    BY <1>0, <1>6, <2>1, <2>2, OneChanges DEF TwinsRelock, PanelTypeOK
  <2>4. [call[c] EXCEPT !.pc = "lock", !.op = "Update"] \in CallType
    BY <1>0 DEF CallType
  <2>5. /\ call' \in [Caller -> CallType]
        /\ \A o \in Caller : call[o].pc # "idle" => call'[o].pc # "idle"
    <3>1. [call[c] EXCEPT !.pc = "lock", !.op = "Update"].pc # "idle"
      BY <1>0 DEF CallType
    <3>2. call' = [call EXCEPT ![c] = [call[c] EXCEPT !.pc = "lock", !.op = "Update"]]
      BY <1>6 DEF TwinsRelock
    <3> QED
      BY <2>4, <3>1, <3>2 DEF PanelTypeOK
  <2> QED
    BY <1>6, <2>3, <2>5 DEF TwinsRelock, PanelTypeOK, panel
<1>7. ASSUME NEW v \in Value \cup {NoValue, Manual}, Access(c, v) PROVE PanelTypeOK'
  <2>1. told' \in [Device -> Value \cup {NoValue, Manual}]
    BY <1>7, <1>0 DEF Access, Published, PanelTypeOK
  <2> QED
    BY <1>7, <2>1, ReturnType DEF Access, PanelTypeOK, panel
<1>8. CASE Read(c)
  <2>1. devices[d] \in Instance /\ inst[d][devices[d]] \in InstanceType
    BY <1>0, <1>8 DEF Read, PanelTypeOK
  <2>2. inst[d][devices[d]].value \in Value \cup {NoValue, Manual}
    BY <2>1 DEF InstanceType
  <2>3. CASE Die /\ UNCHANGED faults
    BY <2>3, DieType DEF PanelTypeOK
  <2> QED
    BY <1>7, <1>8, <2>2, <2>3 DEF Read
<1>9. CASE Write(c)
  BY <1>7, <1>9 DEF Write
<1> QED
  BY <1>1, <1>2, <1>3, <1>4, <1>5, <1>6, <1>8, <1>9 DEF Handler

LEMMA TypeStep == PanelTypeOK /\ ValueInv /\ [Next]_vars => PanelTypeOK'
<1> SUFFICES ASSUME PanelTypeOK, ValueInv, [Next]_vars PROVE PanelTypeOK'
  OBVIOUS
<1>1. CASE Kill
  BY <1>1, DieType, PanelAssumption DEF Kill, PanelTypeOK
<1>2. CASE Boot
  <2>1. /\ devices' \in [Device -> {0} \cup Instance]
        /\ inst' \in [Device -> [Instance -> InstanceType]]
    BY <1>2, FleetType DEF Boot, PanelTypeOK
  <2> QED
    BY <1>2, <2>1 DEF Boot, PanelTypeOK
<1>3. ASSUME NEW c \in Caller, Begin(c) PROVE PanelTypeOK'
  <2>1. PICK op \in Ops, d \in Device, v \in Value \cup {NoValue} :
          /\ call' = [call EXCEPT ![c] = [op |-> op, id |-> d, value |-> v, pc |-> "lock"]]
          /\ v # NoValue <=> op \in {"Update", "Twins"}
          /\ store' = CASE op = "Update" -> [store EXCEPT ![d] = v]
                         [] op = "Remove" -> [store EXCEPT ![d] = NoValue]
                         [] OTHER         -> store
    BY <1>3 DEF Begin
  <2>2. call' \in [Caller -> CallType]
    BY <2>1, PanelAssumption DEF PanelTypeOK, CallType
  <2>3. store' \in [Device -> Value \cup {NoValue}]
    BY <2>1 DEF PanelTypeOK
  <2>4. calls' \in 0..MaxCalls
    BY <1>3, PanelAssumption DEF Begin, PanelTypeOK
  <2> QED
    BY <1>3, <2>2, <2>3, <2>4 DEF Begin, PanelTypeOK, panel
<1>4. ASSUME NEW c \in Caller, Lock(c) PROVE PanelTypeOK'
  <2>1. call' \in [Caller -> CallType]
    BY <1>4, PcType DEF Lock, PanelTypeOK
  <2> QED
    BY <1>4, <2>1 DEF Lock, PanelTypeOK, panel
<1>5. CASE UNCHANGED vars
  BY <1>5 DEF vars, panel, PanelTypeOK
<1> QED
  BY <1>1, <1>2, <1>3, <1>4, <1>5, HandlerType, StepType DEF Next

-----------------------------------------------------------------------------
(* One runner *)

\* DevStart starts what DevInit put in the table and nothing else.
LEMMA FleetRuns ==
  ASSUME NEW d \in Device, NEW k \in Instance, Fleet(d)[k].run # "none"
  PROVE  k = Registered(d)
  BY DEF Fleet, NoInstance

LEMMA InitInv == Init => PanelInv
<1> SUFFICES ASSUME Init PROVE PanelInv
  OBVIOUS
<1>1. PanelTypeOK
  BY InitType
<1>2. \A c \in Caller : call[c].pc = "idle" /\ call[c].op = "none"
  BY DEF Init, NoCall
<1>3. CallInv
  BY <1>2 DEF CallInv, ValueInv, MutexInv, StoppedInv, DownInv
<1>4. ASSUME NEW d \in Device, NEW k \in Instance, inst[d][k].run # "none"
      PROVE  devices[d] = k /\ muxs[d] = k /\ made[d] = k
  BY <1>4, FleetRuns DEF Init
<1>5. YoungestInv
  <2>1. ASSUME NEW d \in Device, NEW k \in Instance, k > made[d]
        PROVE  inst[d][k].run = "none"
    BY <1>4, <2>1, FirstInstance
  <2> QED
    BY <2>1 DEF YoungestInv, Init
<1>6. OneRunner
  BY <1>4 DEF OneRunner, Running
<1> QED
  BY <1>1, <1>3, <1>5, <1>6 DEF PanelInv

LEMMA DieInv == PanelTypeOK' /\ Die => PanelInv'
<1> SUFFICES ASSUME PanelTypeOK', Die PROVE PanelInv'
  OBVIOUS
<1>1. \A c \in Caller : call'[c].pc = "idle" /\ call'[c].op = "none"
  BY DEF Die, NoCall
<1>2. CallInv'
  BY <1>1 DEF CallInv, ValueInv, MutexInv, StoppedInv, DownInv
<1>3. \A d \in Device, k \in Instance : inst'[d][k].run = "none"
  BY DEF Die, NoInstance
<1>4. YoungestInv'
  BY <1>3 DEF YoungestInv, Die
<1>5. OneRunner'
  BY <1>3 DEF OneRunner, Running
<1> QED
  BY <1>2, <1>4, <1>5 DEF PanelInv

LEMMA BootInv == PanelInv /\ PanelTypeOK' /\ Boot => PanelInv'
<1> SUFFICES ASSUME PanelInv, PanelTypeOK', Boot PROVE PanelInv'
  OBVIOUS
<1>1. CallInv'
  BY DEF PanelInv, CallInv, ValueInv, MutexInv, StoppedInv, DownInv, Boot
<1>2. ASSUME NEW d \in Device, NEW k \in Instance, inst'[d][k].run # "none"
      PROVE  devices'[d] = k /\ muxs'[d] = k /\ made'[d] = k
  BY <1>2, FleetRuns DEF Boot
<1>3. YoungestInv'
  <2>1. ASSUME NEW d \in Device, NEW k \in Instance, k > made'[d]
        PROVE  inst'[d][k].run = "none"
    BY <1>2, <2>1, FirstInstance
  <2> QED
    BY <2>1 DEF YoungestInv, Boot
<1>4. OneRunner'
  BY <1>2 DEF OneRunner, Running
<1> QED
  BY <1>1, <1>3, <1>4 DEF PanelInv

\* An instance's own step wakes no instance up and leaves the table alone.
LEMMA BecomesInv ==
  ASSUME PanelInv, PanelTypeOK', NEW d \in Device, NEW k \in Instance,
         NEW run \in {"none", "start", "init", "apply", "report", "mute", "over"},
         NEW client \in {"nil", "made", "dialing", "open", "failed", "closed"},
         Becomes(d, k, run, client),
         inst[d][k].run # "none", inst[d][k].run = "over" => run = "over"
  PROVE  PanelInv'
<1>1. inst[d][k] \in InstanceType
  BY DEF PanelInv, PanelTypeOK
<1>2. /\ inst'[d][k].run = run /\ inst'[d][k].cancelled = inst[d][k].cancelled
      /\ \A e \in Device, j \in Instance : (e # d \/ j # k) => inst'[e][j] = inst[e][j]
  <2> DEFINE i == Moved(inst[d][k], run, client)
  <2>1. i \in InstanceType /\ i.run = run /\ i.cancelled = inst[d][k].cancelled
    BY <1>1, MovedType
  <2>2. inst' = [inst EXCEPT ![d][k] = i]
    BY DEF Becomes
  <2>3. inst \in [Device -> [Instance -> InstanceType]]
    BY DEF PanelInv, PanelTypeOK
  <2> HIDE DEF i
  <2>4. /\ inst'[d][k] = i
        /\ \A e \in Device, j \in Instance : (e # d \/ j # k) => inst'[e][j] = inst[e][j]
    BY <2>1, <2>2, <2>3, OneChanges
  <2> QED
    BY <2>1, <2>4
<1>3. UNCHANGED <<devices, muxs, made, call, mutex, up>>
  BY DEF Becomes, panel
<1>4. CallInv'
  BY <1>3 DEF PanelInv, CallInv, ValueInv, MutexInv, StoppedInv, DownInv
<1>5. YoungestInv'
  BY <1>2, <1>3 DEF PanelInv, YoungestInv
<1>6. \A e \in Device, j \in Instance :
        Running(e, j)' /\ ~inst'[e][j].cancelled => Running(e, j) /\ ~inst[e][j].cancelled
  BY <1>2 DEF Running
<1>7. OneRunner'
  BY <1>3, <1>6 DEF PanelInv, OneRunner, Stopping
<1> QED
  BY <1>4, <1>5, <1>7 DEF PanelInv

LEMMA StepInv ==
  ASSUME PanelInv, PanelTypeOK', NEW d \in Device, NEW k \in Instance,
         Step(d, k) \/ DialFails(d, k)
  PROVE  PanelInv'
<1>0. inst[d][k].client \in {"nil", "made", "dialing", "open", "failed", "closed"}
  <2>1. inst[d][k] \in InstanceType
    BY DEF PanelInv, PanelTypeOK
  <2> QED
    BY <2>1 DEF InstanceType
<1>1. CASE NewClient(d, k)
  BY <1>1, BecomesInv DEF NewClient, Is
<1>2. CASE Dial(d, k)
  BY <1>2, BecomesInv DEF Dial, Is
<1>3. CASE Connected(d, k)
  BY <1>3, BecomesInv DEF Connected
<1>4. CASE Apply(d, k)
  BY <1>0, <1>4, BecomesInv DEF Apply
<1>5. CASE Exit(d, k)
  BY <1>0, <1>5, BecomesInv DEF Exit
<1>6. CASE DialFails(d, k)
  BY <1>6, BecomesInv DEF DialFails, Is
<1>7. CASE BadConfig(d, k)
  BY <1>7, BecomesInv DEF BadConfig, Is
<1> QED
  BY <1>1, <1>2, <1>3, <1>4, <1>5, <1>6, <1>7 DEF Step

\* A call that is past Lock excludes every other from being there.
LEMMA AloneInside ==
  ASSUME PanelInv, NEW c \in Caller, call[c].pc \in {"work", "stopped"},
         NEW o \in Caller, o # c
  PROVE  call[o].pc \notin {"work", "stopped"}
  BY DEF PanelInv, CallInv, MutexInv

\* Begin, Lock and the calls that change no table: who is stopping goes on.
LEMMA CallMoves ==
  ASSUME PanelInv, PanelTypeOK', NEW c \in Caller, NEW r \in CallType,
         call' = [call EXCEPT ![c] = r],
         call[c].pc # "stopped", r.pc # "stopped", up,
         r.pc = "work" => mutex' = c,
         \A o \in Caller : o # c /\ call[o].pc \in {"work", "stopped"} => mutex' = mutex,
         r.op \in {"Update", "Twins"} => r.value \in Value,
         UNCHANGED <<up, devices, muxs, made>>,
         \A d \in Device, k \in Instance :
            /\ inst'[d][k].run = inst[d][k].run
            /\ inst'[d][k].cancelled = inst[d][k].cancelled
  PROVE  PanelInv'
<1>1. call'[c] = r /\ \A o \in Caller : o # c => call'[o] = call[o]
  BY DEF PanelInv, PanelTypeOK
<1>2. CallInv'
  BY <1>1 DEF PanelInv, CallInv, ValueInv, MutexInv, StoppedInv, DownInv
<1>3. YoungestInv'
  BY DEF PanelInv, YoungestInv
<1>4. \A d \in Device : Stopping(d) => Stopping(d)'
  BY <1>1 DEF Stopping
<1>5. OneRunner'
  BY <1>4 DEF PanelInv, OneRunner, Running
<1> QED
  BY <1>2, <1>3, <1>5 DEF PanelInv

\* Stopping leaves the instance running, but its call is on it.
LEMMA StopInv ==
  ASSUME PanelInv, PanelTypeOK', NEW c \in Caller, call[c].pc = "work",
         NEW table, StopDevice(c, call[c].id, table),
         table \in {devices, [devices EXCEPT ![call[c].id] = 0]}
  PROVE  PanelInv'
<1> DEFINE d == call[c].id
<1>0. d \in Device /\ call[c] \in CallType
  BY DEF PanelInv, PanelTypeOK, CallType
<1>1. CASE devices[d] = 0 \/ inst[d][devices[d]].client = "nil"
  BY <1>1, DieInv DEF StopDevice
<1>2. CASE ~(devices[d] = 0 \/ inst[d][devices[d]].client = "nil")
  <2>1. devices[d] \in Instance /\ inst[d][devices[d]] \in InstanceType
    BY <1>0, <1>2 DEF PanelInv, PanelTypeOK
  <2>2. /\ Disconnected(inst[d][devices[d]]) \in InstanceType
        /\ Disconnected(inst[d][devices[d]]).run = inst[d][devices[d]].run
        /\ Disconnected(inst[d][devices[d]]).cancelled = inst[d][devices[d]].cancelled
    BY <2>1, RecordTypes DEF Disconnected, InstanceType
  <2>3. \A e \in Device, j \in Instance : /\ inst'[e][j].run = inst[e][j].run
                                         /\ inst'[e][j].cancelled = inst[e][j].cancelled
    <3> DEFINE g == devices[d]
               i == Disconnected(inst[d][g])
    <3>1. inst \in [Device -> [Instance -> InstanceType]]
      BY DEF PanelInv, PanelTypeOK
    <3>2. inst' = [inst EXCEPT ![d][g] = i]
      BY <1>2 DEF StopDevice
    <3>3. /\ inst'[d][g] = i
          /\ \A e \in Device, j \in Instance : (e # d \/ j # g) => inst'[e][j] = inst[e][j]
      <4> HIDE DEF d, g, i
      <4> QED
        BY <1>0, <2>1, <2>2, <3>1, <3>2, OneChanges DEF g, i
    <3> QED
      BY <2>2, <3>3
  <2>4. /\ call'[c].pc = "stopped" /\ call'[c].id = d
        /\ call'[c].op = call[c].op /\ call'[c].value = call[c].value
        /\ \A o \in Caller : o # c => call'[o] = call[o]
    BY <1>0, <1>2 DEF StopDevice, PanelInv, PanelTypeOK, CallType
  <2>5. UNCHANGED <<up, muxs, made, mutex>> /\ devices' = table
    BY <1>2 DEF StopDevice
  <2>6. made[d] # 0
    BY <1>0, <1>2 DEF PanelInv, YoungestInv
  <2>7. CallInv'
    BY <2>4, <2>5, <2>6 DEF PanelInv, CallInv, ValueInv, MutexInv, StoppedInv, DownInv
  <2>8. \A e \in Device : devices'[e] \in {0, devices[e]} /\ (e # d => devices'[e] = devices[e])
    BY <1>0, <2>5 DEF PanelInv, PanelTypeOK
  <2>9. YoungestInv'
    BY <2>3, <2>5, <2>8 DEF PanelInv, YoungestInv
  <2>10. \A e \in Device : e = d \/ Stopping(e) => Stopping(e)'
    BY <2>4 DEF Stopping
  <2>11. ASSUME NEW e \in Device, NEW j \in Instance, Running(e, j)', ~inst'[e][j].cancelled
         PROVE  muxs'[e] = j /\ (devices'[e] = j \/ Stopping(e)')
    <3>1. Running(e, j) /\ ~inst[e][j].cancelled
      BY <2>3, <2>11 DEF Running
    <3>2. muxs[e] = j /\ (devices[e] = j \/ Stopping(e))
      BY <3>1 DEF PanelInv, OneRunner
    <3>3. muxs'[e] = j
      BY <2>5, <3>2
    <3>4. CASE e = d
      BY <2>10, <3>3, <3>4
    <3>5. CASE e # d
      BY <2>8, <2>10, <3>2, <3>3, <3>5
    <3> QED
      BY <3>4, <3>5
  <2>12. OneRunner'
    BY <2>11 DEF OneRunner
  <2> QED
    BY <2>7, <2>9, <2>12 DEF PanelInv
<1> QED
  BY <1>1, <1>2

\* A return from a call that held the mutex keeps what concerns calls.
LEMMA ReturnInv ==
  ASSUME PanelInv, NEW c \in Caller, Return(c), call[c].pc \in {"work", "stopped"},
         up' = up, \A d \in Device : made'[d] # 0 \/ made'[d] = made[d]
  PROVE  /\ CallInv'
         /\ \A d \in Device : d # call[c].id => (Stopping(d) => Stopping(d)')
         /\ \A o \in Caller : call'[o].pc \notin {"work", "stopped"}
<1>1. call'[c] = NoCall /\ \A o \in Caller : o # c => call'[o] = call[o]
  BY DEF Return, PanelInv, PanelTypeOK
<1>2. NoCall.pc = "idle" /\ NoCall.op = "none"
  BY DEF NoCall
<1>3. \A o \in Caller : call'[o].pc \notin {"work", "stopped"}
  BY <1>1, <1>2, AloneInside
<1>4. CallInv'
  BY <1>1, <1>2, <1>3 DEF PanelInv, CallInv, ValueInv, MutexInv, StoppedInv, DownInv
<1>5. ASSUME NEW d \in Device, d # call[c].id, Stopping(d) PROVE Stopping(d)'
  BY <1>1, <1>5 DEF Stopping
<1> QED
  BY <1>3, <1>4, <1>5

\* The new instance is the youngest and the old one, if any, is cancelled.
LEMMA UpdateStartInv ==
  ASSUME PanelInv, PanelTypeOK', NEW c \in Caller, UpdateStart(c)
  PROVE  PanelInv'
<1> DEFINE d == call[c].id
           k == made[d] + 1
           old == IF call[c].pc = "stopped" THEN {muxs[d]} ELSE {}
           new == [j \in Instance |-> IF j = k THEN Started(call[c].value)
                                      ELSE IF j \in old THEN Cancelled(inst[d][j])
                                      ELSE inst[d][j]]
<1>0. d \in Device /\ k \in Instance /\ made[d] \in Nat
  <2>1. d \in Device
    BY DEF PanelInv, PanelTypeOK, CallType
  <2>2. made[d] \in {0} \cup Instance
    BY <2>1 DEF PanelInv, PanelTypeOK
  <2>3. k \in Instance
    BY DEF UpdateStart
  <2>4. made[d] \in Nat
    <3>1. \A n \in {0} \cup Instance : n \in Nat
      BY FirstInstance
    <3> QED
      BY <2>2, <3>1, Zenon
  <2> QED
    BY <2>1, <2>3, <2>4
<1>1. /\ inst' = [inst EXCEPT ![d] = new] /\ up' = up
      /\ devices' = [devices EXCEPT ![d] = k]
      /\ muxs' = [muxs EXCEPT ![d] = k] /\ made' = [made EXCEPT ![d] = k]
  BY DEF UpdateStart
<1>2. /\ devices'[d] = k /\ muxs'[d] = k /\ made'[d] = k
      /\ \A e \in Device : e # d => /\ devices'[e] = devices[e] /\ muxs'[e] = muxs[e]
                                   /\ made'[e] = made[e] /\ inst'[e] = inst[e]
      /\ inst'[d] = new
  <2> HIDE DEF d, k, new
  <2> QED
    BY <1>0, <1>1 DEF PanelInv, PanelTypeOK
<1>3. /\ CallInv'
      /\ \A e \in Device : e # d => (Stopping(e) => Stopping(e)')
  <2>1. call[c].pc \in {"work", "stopped"} /\ Return(c)
    BY DEF UpdateStart
  <2>2. \A e \in Device : made'[e] # 0 \/ made'[e] = made[e]
    BY <1>0, <1>2, FirstInstance
  <2> QED
    BY <1>1, <2>1, <2>2, ReturnInv
<1>4. YoungestInv'
  <2>1. muxs' = made'
    BY <1>1 DEF PanelInv, YoungestInv
  <2>2. \A e \in Device : devices'[e] \in {0, made'[e]}
    BY <1>2 DEF PanelInv, YoungestInv
  <2>3. ASSUME NEW e \in Device, NEW j \in Instance, j > made'[e]
        PROVE  inst'[e][j].run = "none"
    <3>1. CASE e # d
      BY <1>2, <2>3, <3>1 DEF PanelInv, YoungestInv
    <3>2. CASE e = d
      <4>1. j > k /\ j \in Nat
        BY <1>2, <2>3, <3>2, FirstInstance
      <4>2. j > made[d] /\ j # k /\ j # muxs[d]
        BY <1>0, <4>1 DEF PanelInv, YoungestInv
      <4>3. inst'[d][j] = inst[d][j]
        BY <1>2, <4>2
      <4> QED
        BY <1>0, <3>2, <4>2, <4>3 DEF PanelInv, YoungestInv
    <3> QED
      BY <3>1, <3>2
  <2> QED
    BY <2>1, <2>2, <2>3 DEF YoungestInv
<1>5. ASSUME NEW e \in Device, NEW j \in Instance, Running(e, j)', ~inst'[e][j].cancelled
      PROVE  muxs'[e] = j /\ (devices'[e] = j \/ Stopping(e)')
  <2>1. CASE e # d
    BY <1>2, <1>3, <1>5, <2>1 DEF PanelInv, OneRunner, Running
  <2>2. CASE e = d /\ j = k
    BY <1>2, <2>2
  <2>3. CASE e = d /\ j # k
    <3>1. inst[d][j] \in InstanceType
      BY <1>0 DEF PanelInv, PanelTypeOK
    <3>2. j \notin old
      <4>1. Cancelled(inst[d][j]).cancelled
        BY <3>1 DEF Cancelled, InstanceType
      <4> QED
        BY <1>2, <1>5, <2>3, <4>1
    <3>3. inst'[d][j] = inst[d][j]
      BY <1>2, <2>3, <3>2
    <3>4. muxs[d] = j /\ (devices[d] = j \/ Stopping(d))
      BY <1>0, <1>5, <2>3, <3>3 DEF PanelInv, OneRunner, Running
    <3>5. call[c].pc = "work" /\ (devices[d] = 0 \/ muxs[d] = 0)
      BY <3>2, <3>4 DEF UpdateStart
    <3>6. j # 0
      BY FirstInstance
    <3>7. Stopping(d)
      BY <3>4, <3>5, <3>6
    <3>8. PICK o \in Caller : call[o].pc = "stopped"
      BY <3>7 DEF Stopping
    <3> QED
      BY <3>5, <3>8, AloneInside
  <2> QED
    BY <2>1, <2>2, <2>3
<1>6. OneRunner'
  BY <1>5 DEF OneRunner
<1> QED
  BY <1>3, <1>4, <1>6 DEF PanelInv

\* After the cancel nothing of the removed device runs uncancelled.
LEMMA RemoveCancelInv ==
  ASSUME PanelInv, PanelTypeOK', NEW c \in Caller, RemoveCancel(c)
  PROVE  PanelInv'
<1> DEFINE d == call[c].id
           g == muxs[d]
           i == Cancelled(inst[d][g])
<1>0. d \in Device /\ call[c].pc = "stopped"
  BY DEF RemoveCancel, PanelInv, PanelTypeOK, CallType
<1>1. g \in Instance
  BY <1>0 DEF PanelInv, PanelTypeOK, YoungestInv, CallInv, StoppedInv
<1>2. inst[d][g] \in InstanceType
  BY <1>0, <1>1 DEF PanelInv, PanelTypeOK
<1>3. i \in InstanceType /\ i.cancelled /\ i.run = inst[d][g].run
  BY <1>2, RecordTypes DEF Cancelled, InstanceType
<1>4. /\ inst'[d][g] = i
      /\ \A e \in Device, j \in Instance : (e # d \/ j # g) => inst'[e][j] = inst[e][j]
  <2>1. inst' = [inst EXCEPT ![d][g] = i] /\ inst \in [Device -> [Instance -> InstanceType]]
    BY DEF RemoveCancel, PanelInv, PanelTypeOK
  <2> HIDE DEF d, g, i
  <2> QED
    BY <1>0, <1>1, <1>3, <2>1, OneChanges
<1>5. UNCHANGED <<devices, muxs, made, up>>
  BY DEF RemoveCancel, panel
<1>6. CallInv' /\ \A e \in Device : e # d => (Stopping(e) => Stopping(e)')
  <2>1. Return(c)
    BY DEF RemoveCancel
  <2> QED
    BY <1>0, <1>5, <2>1, ReturnInv
<1>7. YoungestInv'
  BY <1>3, <1>4, <1>5 DEF PanelInv, YoungestInv
<1>8. ASSUME NEW e \in Device, NEW j \in Instance, Running(e, j)', ~inst'[e][j].cancelled
      PROVE  muxs'[e] = j /\ (devices'[e] = j \/ Stopping(e)')
  <2>1. e # d \/ j # g
    BY <1>3, <1>4, <1>8
  <2>2. Running(e, j) /\ ~inst[e][j].cancelled
    BY <1>4, <1>8, <2>1 DEF Running
  <2>3. muxs[e] = j /\ (devices[e] = j \/ Stopping(e))
    BY <2>2 DEF PanelInv, OneRunner
  <2> QED
    BY <1>5, <1>6, <2>1, <2>3
<1>9. OneRunner'
  BY <1>8 DEF OneRunner
<1> QED
  BY <1>6, <1>7, <1>9 DEF PanelInv

LEMMA HandlerInv ==
  ASSUME PanelInv, PanelTypeOK', NEW c \in Caller, Handler(c)
  PROVE  PanelInv'
<1> DEFINE d == call[c].id
<1>0. d \in Device /\ call[c] \in CallType /\ NoCall \in CallType
  BY RecordTypes DEF PanelInv, PanelTypeOK, CallType
<1>1. CASE UpdateStop(c)
  BY <1>1, StopInv DEF UpdateStop, Working
<1>2. CASE UpdateStart(c)
  BY <1>2, UpdateStartInv
<1>3. CASE RemoveStop(c)
  BY <1>3, StopInv DEF RemoveStop, Working
<1>4. CASE RemoveCancel(c)
  BY <1>4, RemoveCancelInv
<1>7. CASE Read(c) /\ Die
  BY <1>7, DieInv
<1>5. CASE (NotFound(c) \/ Read(c) \/ Write(c)) /\ ~Die
  <2>1. call[c].pc = "work" /\ Return(c) /\ UNCHANGED <<up, muxs, made, inst>>
    BY <1>5 DEF NotFound, Read, Write, Access, Working, ReturnError, panel
  <2>2. devices' = devices
    <3>1. CASE Read(c) \/ Write(c)
      BY <1>5, <3>1 DEF Read, Write, Access, panel
    <3>2. CASE NotFound(c)
      <4>1. devices[d] = 0
        BY <1>0, <3>2 DEF NotFound, PanelInv, YoungestInv
      <4> QED
        BY <1>0, <3>2, <4>1 DEF NotFound, PanelInv, PanelTypeOK
    <3> QED
      BY <1>5, <3>1, <3>2
  <2>3. up
    BY <2>1 DEF PanelInv, CallInv, DownInv
  <2>4. NoCall.pc = "idle" /\ NoCall.op = "none"
    BY DEF NoCall
  <2>5. \A o \in Caller : o # c => call[o].pc \notin {"work", "stopped"}
    BY <2>1, AloneInside
  <2> QED
    BY <1>0, <2>1, <2>2, <2>3, <2>4, <2>5, CallMoves DEF Return
<1>6. CASE TwinsRelock(c)
  <2> DEFINE g == devices[d]
             i == Retwinned(inst[d][g], call[c].value)
             r == [call[c] EXCEPT !.pc = "lock", !.op = "Update"]
  <2>1. call[c].pc = "work" /\ call[c].op = "Twins"
    BY <1>6 DEF TwinsRelock, Working
  <2>2. g \in Instance /\ inst[d][g] \in InstanceType
    BY <1>0, <1>6 DEF TwinsRelock, PanelInv, PanelTypeOK
  <2>3. i \in InstanceType /\ i.run = inst[d][g].run /\ i.cancelled = inst[d][g].cancelled
    BY <1>0, <2>2 DEF Retwinned, InstanceType, CallType
  <2>4. /\ inst'[d][g] = i
        /\ \A e \in Device, j \in Instance : (e # d \/ j # g) => inst'[e][j] = inst[e][j]
    <3>1. inst' = [inst EXCEPT ![d][g] = i] /\ inst \in [Device -> [Instance -> InstanceType]]
      BY <1>6 DEF TwinsRelock, PanelInv, PanelTypeOK
    <3> HIDE DEF d, g, i
    <3> QED
      BY <1>0, <2>2, <2>3, <3>1, OneChanges
  <2>5. \A e \in Device, j \in Instance : /\ inst'[e][j].run = inst[e][j].run
                                         /\ inst'[e][j].cancelled = inst[e][j].cancelled
    BY <2>3, <2>4
  <2>6. r \in CallType /\ r.pc = "lock" /\ r.value = call[c].value
    BY <1>0 DEF CallType
  <2>7. call' = [call EXCEPT ![c] = r] /\ UNCHANGED <<mutex, up, devices, muxs, made>>
    BY <1>6 DEF TwinsRelock, panel
  <2>8. call[c].value \in Value /\ up
    BY <2>1 DEF PanelInv, CallInv, ValueInv, DownInv
  <2> HIDE DEF d, g, i, r
  <2> QED
    BY <2>1, <2>5, <2>6, <2>7, <2>8, CallMoves
<1> QED
  <2>1. NotFound(c) \/ Write(c) => ~Die
    <3>1. NotFound(c) \/ Write(c) => call[c].pc = "work" /\ up' = up
      BY DEF NotFound, Write, Access, Working
    <3> QED
      BY <3>1 DEF Die, PanelInv, CallInv, DownInv
  <2> QED
    BY <1>1, <1>2, <1>3, <1>4, <1>5, <1>6, <1>7, <2>1 DEF Handler

LEMMA InvStep == PanelInv /\ [Next]_vars => PanelInv'
<1> SUFFICES ASSUME PanelInv, [Next]_vars PROVE PanelInv'
  OBVIOUS
<1>0. PanelTypeOK'
  BY TypeStep DEF PanelInv, CallInv
<1>1. CASE Kill
  BY <1>0, <1>1, DieInv DEF Kill
<1>2. CASE Boot
  BY <1>0, <1>2, BootInv
<1>3. ASSUME NEW c \in Caller, Begin(c) PROVE PanelInv'
  <2>1. PICK op \in Ops, d \in Device, v \in Value \cup {NoValue} :
          /\ call' = [call EXCEPT ![c] = [op |-> op, id |-> d, value |-> v, pc |-> "lock"]]
          /\ v # NoValue <=> op \in {"Update", "Twins"}
    BY <1>3 DEF Begin
  <2> DEFINE r == [op |-> op, id |-> d, value |-> v, pc |-> "lock"]
  <2>2. /\ r \in CallType /\ r.pc = "lock"
        /\ r.op \in {"Update", "Twins"} => r.value \in Value
    BY <2>1, PanelAssumption DEF CallType
  <2>3. call[c].pc = "idle" /\ up /\ UNCHANGED <<mutex, up, devices, muxs, made, inst>>
    BY <1>3 DEF Begin, panel
  <2>4. call' = [call EXCEPT ![c] = r]
    BY <2>1
  <2> HIDE DEF r
  <2> QED
    BY <1>0, <2>2, <2>3, <2>4, CallMoves
<1>4. ASSUME NEW c \in Caller, Lock(c) PROVE PanelInv'
  <2> DEFINE r == [call[c] EXCEPT !.pc = "work"]
  <2>1. call[c] \in CallType
    BY DEF PanelInv, PanelTypeOK
  <2>2. r \in CallType /\ r.pc = "work" /\ r.op = call[c].op /\ r.value = call[c].value
    BY <2>1 DEF CallType
  <2>3. /\ call[c].pc = "lock" /\ mutex = NoCaller /\ mutex' = c
        /\ call' = [call EXCEPT ![c] = r] /\ UNCHANGED <<up, devices, muxs, made, inst>>
    BY <1>4 DEF Lock, MutexFree, panel
  <2>4. up /\ \A o \in Caller : call[o].pc \notin {"work", "stopped"}
    BY <2>3, PanelAssumption DEF PanelInv, CallInv, DownInv, MutexInv
  <2>5. r.op \in {"Update", "Twins"} => r.value \in Value
    BY <2>2 DEF PanelInv, CallInv, ValueInv
  <2> HIDE DEF r
  <2> QED
    BY <1>0, <2>2, <2>3, <2>4, <2>5, CallMoves
<1>5. CASE UNCHANGED vars
  BY <1>5, <1>0 DEF vars, panel, PanelInv, CallInv, ValueInv, MutexInv, StoppedInv, DownInv,
                   YoungestInv, OneRunner, Running, Stopping
<1> QED
  BY <1>0, <1>1, <1>2, <1>3, <1>4, <1>5, HandlerInv, StepInv DEF Next

LEMMA PanelInvariant == Spec => []PanelInv
  BY InitInv, InvStep, PTL DEF Spec

\* The table, the instances and the calls keep their types, whatever is called,
\* fails or dies.
THEOREM PanelTypeCorrect == Spec => []PanelTypeOK
<1>1. PanelInv => PanelTypeOK
  BY DEF PanelInv
<1> QED
  BY <1>1, PanelInvariant, PTL

\* UpdateDev and RemoveDevice never leave a device running twice or without a
\* way to stop it, for any number of devices and concurrent callers.
THEOREM OneRunnerAlways == Spec => []OneRunner
<1>1. PanelInv => OneRunner
  BY DEF PanelInv
<1> QED
  BY <1>1, PanelInvariant, PTL
=============================================================================
