------------------------------ MODULE DevPanel ------------------------------
(***************************************************************************)
(* The mapper's table of devices (mapper/esphome/device/device.go) with    *)
(* the goroutines it starts and the MQTT clients they open                 *)
(* (driver/driver.go).                                                     *)
(*                                                                         *)
(* Every start of a device makes a new CustomizedDev and a goroutine of    *)
(* its own: an instance.  Instance k of device d is the k-th one since the *)
(* process started.                                                        *)
(*                                                                         *)
(*   client  nil -> made -> dialing -> open -> closed                      *)
(*                              `-> failed                                 *)
(*   run     start -> init -> apply -> report | mute -> over               *)
(*              `-------`----------------------------------^               *)
(*                                                                         *)
(* gRPC and HTTP handlers call the table concurrently under serviceMutex;  *)
(* an instance runs without it.  UpdateDev and RemoveDevice are two steps, *)
(* because Disconnect takes its time before cancelFunc is called.  A panic *)
(* in a gRPC handler ends the process, which systemd restarts; net/http    *)
(* recovers one in a handler of its own.  GetDevice is called by both.     *)
(*                                                                         *)
(* Simplifications.  A device has one writable property.  Its twin is read *)
(* from a cache and changes nothing here, so reporting is a state of the   *)
(* instance and not an action.  Models are left out.  DevStart's loop over *)
(* the table is one step with the registration before it: main starts it   *)
(* beside the servers, and its race with the first calls, on a map that    *)
(* nobody locks, is left out.                                              *)
(***************************************************************************)
EXTENDS Naturals

CONSTANTS
    Device,      \* device IDs
    Value,       \* desired values of the writable property
    Caller,      \* goroutines of the gRPC and HTTP servers
    Ops,         \* the operations they call
    NoValue,     \* no value: not in edgecore's store, nothing told yet
    Manual,      \* a value written by WriteDevice
    NoCaller,    \* serviceMutex is free
    MaxCalls,    \* bound on calls
    MaxFaults    \* bound on failed connects and kills

ASSUME PanelAssumption ==
    /\ Device # {} /\ MaxCalls \in Nat /\ MaxFaults \in Nat
    /\ Ops \subseteq {"Update", "Remove", "Twins", "Read", "Write"}
    /\ NoCaller \notin Caller
    /\ NoValue \notin Value /\ Manual \notin Value /\ NoValue # Manual

VARIABLES
    store,     \* store[d]: the desired value edgecore holds, or NoValue
    up,        \* the process runs
    devices,   \* devices[d]: the instance in the table, 0 when there is none
    muxs,      \* muxs[d]: the instance whose cancelFunc is kept, 0 when none
    made,      \* made[d]: instances made since the process started
    inst,      \* inst[d][k]: instance k of d
    mutex,     \* who holds serviceMutex
    call,      \* call[c]: what c is calling
    told,      \* told[d]: the last value the device received
    calls, faults

panel == <<devices, muxs, made>>
vars  == <<store, up, panel, inst, mutex, call, told, calls, faults>>

\* One instance per start, so one more than there are calls.
Instance == 1..(MaxCalls + 1)

NoInstance == [value |-> NoValue, client |-> "nil", cancelled |-> FALSE, run |-> "none"]
NoCall     == [op |-> "none", id |-> CHOOSE d \in Device : TRUE, value |-> NoValue, pc |-> "idle"]

\* A CustomizedDev that is being started.
Started(v) == [NoInstance EXCEPT !.value = v, !.run = "start"]

\* The table and the instances of a process that registered with edgecore
\* (DevInit, DevStart).
Registered(d) == IF store[d] = NoValue THEN 0 ELSE 1

Fleet(d) ==
    [k \in Instance |-> IF k = Registered(d) THEN Started(store[d]) ELSE NoInstance]

Init ==
    /\ store \in [Device -> Value \cup {NoValue}]
    /\ up = TRUE
    /\ devices = [d \in Device |-> Registered(d)]
    /\ muxs = devices /\ made = devices
    /\ inst = [d \in Device |-> Fleet(d)]
    /\ mutex = NoCaller
    /\ call = [c \in Caller |-> NoCall]
    /\ told = [d \in Device |-> NoValue]
    /\ calls = 0 /\ faults = 0

-----------------------------------------------------------------------------
(* Calls *)

\* A panic outside net/http, a signal or a kill: the process is gone with its
\* goroutines and connections, what the devices were told is not.
Die ==
    /\ up' = FALSE
    /\ devices' = [d \in Device |-> 0]
    /\ muxs' = devices' /\ made' = devices'
    /\ inst' = [d \in Device |-> [k \in Instance |-> NoInstance]]
    /\ mutex' = NoCaller
    /\ call' = [c \in Caller |-> NoCall]
    /\ UNCHANGED <<store, told, calls>>

Kill ==
    /\ up
    /\ faults < MaxFaults /\ faults' = faults + 1
    /\ Die

\* systemd restarts the mapper, which registers and starts every device.
Boot ==
    /\ ~up
    /\ up' = TRUE
    /\ devices' = [d \in Device |-> Registered(d)]
    /\ muxs' = devices' /\ made' = devices'
    /\ inst' = [d \in Device |-> Fleet(d)]
    /\ UNCHANGED <<store, mutex, call, told, calls, faults>>

\* A handler starts a call: edgecore has stored the change it asks for.
Begin(c) ==
    /\ up /\ calls < MaxCalls /\ calls' = calls + 1
    /\ call[c].pc = "idle"
    /\ \E op \in Ops, d \in Device, v \in Value \cup {NoValue} :
         /\ v # NoValue <=> op \in {"Update", "Twins"}
         /\ call' = [call EXCEPT ![c] =
                       [op |-> op, id |-> d, value |-> v, pc |-> "lock"]]
         /\ store' = CASE op = "Update" -> [store EXCEPT ![d] = v]
                       [] op = "Remove" -> [store EXCEPT ![d] = NoValue]
                       [] OTHER         -> store
    /\ UNCHANGED <<up, panel, inst, mutex, told, faults>>

\* A mutex nobody waits for.
AlwaysFree == TRUE

MutexFree == mutex = NoCaller

\* serviceMutex.Lock().
Lock(c) ==
    /\ call[c].pc = "lock" /\ MutexFree
    /\ mutex' = c
    /\ call' = [call EXCEPT ![c].pc = "work"]
    /\ UNCHANGED <<store, up, panel, inst, told, calls, faults>>

Working(c, op) == call[c].op = op /\ call[c].pc = "work"

\* The deferred Unlock and the return.
Return(c) ==
    /\ mutex' = NoCaller
    /\ call' = [call EXCEPT ![c] = NoCall]

\* An early return that keeps the lock.
ReturnLocked(c) ==
    /\ UNCHANGED mutex
    /\ call' = [call EXCEPT ![c] = NoCall]

\* A return for want of the device.
ReturnError(c) == Return(c)

\* StopDevice: only a connected client is disconnected.
Disconnected(i) == IF i.client = "open" THEN [i EXCEPT !.client = "closed"] ELSE i

\* The first half of stopDev, which leaves the given table behind.  It panics
\* when the device is not in the table, or when its goroutine has not made the
\* client yet.
StopDevice(c, d, table) ==
    IF devices[d] = 0 \/ inst[d][devices[d]].client = "nil"
      THEN Die /\ UNCHANGED faults
      ELSE /\ devices' = table
           /\ inst' = [inst EXCEPT ![d][devices[d]] = Disconnected(@)]
           /\ call' = [call EXCEPT ![c].pc = "stopped"]
           /\ UNCHANGED <<store, up, muxs, made, mutex, told, calls, faults>>

\* The instance that goes on although it was stopped.
KeepRunning(i) == i

\* The second half of stopDev: cancelFunc.
Cancelled(i) == [i EXCEPT !.cancelled = TRUE]

\* UpdateDev stops the instance in the table, if there is one.
UpdateStop(c) ==
    LET d == call[c].id
    IN  /\ Working(c, "Update")
        /\ devices[d] # 0 /\ muxs[d] # 0
        /\ StopDevice(c, d, devices)

\* UpdateDev cancels it, then makes and starts a new one.
UpdateStart(c) ==
    LET d   == call[c].id
        k   == made[d] + 1
        old == IF call[c].pc = "stopped" THEN {muxs[d]} ELSE {}
    IN  /\ call[c].op = "Update"
        /\ \/ call[c].pc = "stopped"
           \/ call[c].pc = "work" /\ (devices[d] = 0 \/ muxs[d] = 0)
        /\ k \in Instance
        /\ inst' = [inst EXCEPT ![d] =
                      [j \in Instance |-> IF j = k THEN Started(call[c].value)
                                          ELSE IF j \in old THEN Cancelled(@[j])
                                          ELSE @[j]]]
        /\ devices' = [devices EXCEPT ![d] = k]
        /\ muxs' = [muxs EXCEPT ![d] = k]
        /\ made' = [made EXCEPT ![d] = k]
        /\ Return(c)
        /\ UNCHANGED <<store, up, told, calls, faults>>

\* RemoveDevice takes the instance out of the table and stops it; its
\* cancelFunc stays behind in deviceMuxs.
RemoveStop(c) ==
    LET d == call[c].id
    IN  /\ Working(c, "Remove")
        /\ muxs[d] # 0
        /\ StopDevice(c, d, [devices EXCEPT ![d] = 0])

RemoveCancel(c) ==
    LET d == call[c].id
    IN  /\ call[c].op = "Remove" /\ call[c].pc = "stopped"
        /\ inst' = [inst EXCEPT ![d][muxs[d]] = Cancelled(@)]
        /\ Return(c)
        /\ UNCHANGED <<store, up, panel, told, calls, faults>>

\* The calls that do not find the device: RemoveDevice misses its cancelFunc,
\* the others its entry in the table.
NotFound(c) ==
    LET d == call[c].id
    IN  /\ \/ Working(c, "Remove") /\ muxs[d] = 0
           \/ \E op \in {"Twins", "Read", "Write"} : Working(c, op) /\ devices[d] = 0
        /\ devices' = [devices EXCEPT ![d] = 0]
        /\ ReturnError(c)
        /\ UNCHANGED <<store, up, muxs, made, inst, told, calls, faults>>

Retwinned(i, v) == [i EXCEPT !.value = v]

\* UpdateDevTwins replaces the twins and calls UpdateDev, whose first line
\* takes the mutex again.
TwinsRelock(c) ==
    LET d == call[c].id
    IN  /\ Working(c, "Twins") /\ devices[d] # 0
        /\ inst' = [inst EXCEPT ![d][devices[d]] = Retwinned(@, call[c].value)]
        /\ call' = [call EXCEPT ![c].pc = "lock", ![c].op = "Update"]
        /\ UNCHANGED <<store, up, panel, mutex, told, calls, faults>>

\* A message published to the device: it arrives, or QoS 0 loses it.
Published(d, v) == {told, [told EXCEPT ![d] = v]}

\* The access of call c to the client of its device: with a client that is not
\* open the call ends in an error, without one in a panic that net/http recovers.
Access(c, v) ==
    LET d == call[c].id
    IN  /\ devices[d] # 0
        /\ \/ inst[d][devices[d]].client = "open" /\ told' \in Published(d, v)
           \/ UNCHANGED told
        /\ Return(c)
        /\ UNCHANGED <<store, up, panel, inst, calls, faults>>

\* GetDevice, DealDeviceTwinGet and GetTwinResult write the desired value of
\* the instance in the table before they read.  Where there is no client the
\* panic of a GetDevice that came by gRPC ends the process.
Read(c) ==
    LET d == call[c].id
    IN  /\ Working(c, "Read") /\ devices[d] # 0
        /\ \/ Access(c, inst[d][devices[d]].value)
           \/ inst[d][devices[d]].client = "nil" /\ Die /\ UNCHANGED faults

\* WriteDevice writes a value of the caller's.
Write(c) == Working(c, "Write") /\ Access(c, Manual)

-----------------------------------------------------------------------------
(* Instances *)

Is(d, k, run, client) == inst[d][k].run = run /\ inst[d][k].client = client

Moved(i, run, client) == [i EXCEPT !.run = run, !.client = client]

\* Instance k of d moves on; nothing else but the device's value may change.
Becomes(d, k, run, client) ==
    /\ inst' = [inst EXCEPT ![d][k] = Moved(@, run, client)]
    /\ UNCHANGED <<store, up, panel, mutex, call, calls>>

\* start: NewClient.
NewClient(d, k) ==
    /\ Is(d, k, "start", "nil")
    /\ Becomes(d, k, "init", "made")
    /\ UNCHANGED <<told, faults>>

\* start: a protocol configuration that does not unmarshal.  The goroutine is
\* over and the device stays in the table without a client.
BadConfig(d, k) ==
    /\ Is(d, k, "start", "nil")
    /\ Becomes(d, k, "over", "nil")
    /\ UNCHANGED <<told, faults>>

\* InitDevice: the MQTT client is made and starts to connect.
Dial(d, k) ==
    /\ Is(d, k, "init", "made")
    /\ Becomes(d, k, "init", "dialing")
    /\ UNCHANGED <<told, faults>>

\* The broker answers: in time, or after InitDevice has given up.
Connected(d, k) ==
    /\ inst[d][k].client = "dialing"
    /\ \/ inst[d][k].run = "init" /\ Becomes(d, k, "apply", "open")
       \/ inst[d][k].run = "over" /\ Becomes(d, k, "over", "open")
    /\ UNCHANGED <<told, faults>>

\* InitDevice returns an error, at once or after its timeout; start returns.
DialFails(d, k) ==
    /\ Is(d, k, "init", "dialing")
    /\ faults < MaxFaults /\ faults' = faults + 1
    /\ \E client \in {"failed", "dialing"} : Becomes(d, k, "over", client)
    /\ UNCHANGED told

\* dataHandler: setVisitor writes the desired value, then the twin's reports
\* start.  The message arrives or is lost; with every door shut or the client
\* disconnected the write is an error and the property is skipped for good.
Apply(d, k) ==
    LET i == inst[d][k]
    IN  /\ i.run = "apply"
        /\ \/ /\ i.client = "open"
              /\ told' \in Published(d, i.value)
              /\ Becomes(d, k, "report", i.client)
           \/ Becomes(d, k, "mute", i.client) /\ UNCHANGED told
        /\ UNCHANGED faults

\* ctx.Done(): the reporting goroutines and start return.
Exit(d, k) ==
    /\ inst[d][k].run \in {"report", "mute"} /\ inst[d][k].cancelled
    /\ Becomes(d, k, "over", inst[d][k].client)
    /\ UNCHANGED <<told, faults>>

-----------------------------------------------------------------------------

Handler(c) ==
    \/ UpdateStop(c) \/ UpdateStart(c) \/ RemoveStop(c) \/ RemoveCancel(c)
    \/ NotFound(c) \/ TwinsRelock(c) \/ Read(c) \/ Write(c)

Step(d, k) ==
    \/ NewClient(d, k) \/ BadConfig(d, k) \/ Dial(d, k) \/ Connected(d, k)
    \/ Apply(d, k) \/ Exit(d, k)

Next ==
    \/ Kill \/ Boot
    \/ \E c \in Caller : Begin(c) \/ Lock(c) \/ Handler(c)
    \/ \E d \in Device, k \in Instance : Step(d, k) \/ DialFails(d, k)

Spec == Init /\ [][Next]_vars

\* Go's mutex serves every waiter, goroutines run, a connection attempt ends,
\* and systemd restarts the mapper (Restart=always).
Fairness ==
    /\ WF_vars(Boot)
    /\ \A c \in Caller : SF_vars(Lock(c)) /\ WF_vars(Handler(c))
    /\ \A d \in Device, k \in Instance : WF_vars(Step(d, k))

FairSpec == Spec /\ Fairness

-----------------------------------------------------------------------------
(* Properties *)

InstanceType ==
    [value : Value \cup {NoValue},
     client : {"nil", "made", "dialing", "open", "failed", "closed"},
     cancelled : BOOLEAN,
     run : {"none", "start", "init", "apply", "report", "mute", "over"}]

CallType ==
    [op : {"none", "Update", "Remove", "Twins", "Read", "Write"}, id : Device,
     value : Value \cup {NoValue}, pc : {"idle", "lock", "work", "stopped"}]

\* Type correctness of the table, its instances and the calls; serviceMutex is
\* free or held by a call that is under way.
PanelTypeOK ==
    /\ store \in [Device -> Value \cup {NoValue}]
    /\ up \in BOOLEAN
    /\ devices \in [Device -> {0} \cup Instance]
    /\ muxs \in [Device -> {0} \cup Instance]
    /\ made \in [Device -> {0} \cup Instance]
    /\ inst \in [Device -> [Instance -> InstanceType]]
    /\ call \in [Caller -> CallType]
    /\ mutex \in {NoCaller} \cup {c \in Caller : call[c].pc # "idle"}
    /\ told \in [Device -> Value \cup {NoValue, Manual}]
    /\ calls \in 0..MaxCalls /\ faults \in 0..MaxFaults

Running(d, k) == inst[d][k].run \notin {"none", "over"}

\* Some call is between the two halves of stopping d.
Stopping(d) == \E c \in Caller : call[c].id = d /\ call[c].pc = "stopped"

\* "stop old device, then update and start new device" (UpdateDev, stopDev):
\* however calls overlap, an instance that was not cancelled is the one whose
\* cancelFunc the table keeps, and the one in the table unless a call is just
\* taking it out.  So at most one instance of a device means to go on, and it can
\* be stopped; one that was stopped while it connected still finishes that.
OneRunner ==
    \A d \in Device, k \in Instance :
        Running(d, k) /\ ~inst[d][k].cancelled =>
            muxs[d] = k /\ (devices[d] = k \/ Stopping(d))

\* "UpdateDev stop old device, then update and start new device" (device.go:335, of
\* stopDev and start): what reaches a device does not come from an instance that
\* was stopped.
StoppedWritesNothing ==
    [][\A d \in Device : told'[d] # told[d] =>
         \A k \in Instance : inst[d][k].cancelled => inst'[d][k] = inst[d][k]]_vars

\* A call waits for the serviceMutex it holds itself.
SelfLocked == \E c \in Caller : mutex = c /\ call[c].pc = "lock"

\* Every call returns (serviceMutex and its deferred Unlock), unless the
\* process dies under it, which also ends the call, or UpdateDevTwins has
\* locked the table for good.
CallsReturn ==
    \A c \in Caller : (call[c].pc # "idle") ~> (call[c].pc = "idle" \/ SelfLocked)

\* device.go: "UpdateDevTwins update device's twins".  A call of it returns.
TwinsReturn ==
    \A c \in Caller : (call[c].op = "Twins") ~> (call[c].pc = "idle")

\* What is not in the table falls silent (RemoveDevice, start, dataHandler):
\* once a device stays out of it, its goroutines come to an end, even those
\* that were stopped while they were still connecting.
RemovedFallsSilent ==
    \A d \in Device :
        <>[](devices[d] = 0) => <>[](\A k \in Instance : ~Running(d, k))
=============================================================================
