------------------------------ MODULE Reporting ------------------------------
(***************************************************************************)
(* From a device's message to the opinion about it: the mapper's cache     *)
(* (driver/driver.go), the tickers that report the cache                   *)
(* (device/devicetwin.go, devicestatus.go), the twin KubeEdge keeps, and   *)
(* the liveness controller that judges the twin's timestamps               *)
(* (controller/internal/liveness_controller.go).                           *)
(*                                                                         *)
(*   device -Speak-> cache -PushToEdgeCore-> twin -Reconcile-> live        *)
(*   device -Birth, Will-> status -PushStates-> state                      *)
(*                                                                         *)
(* Four clocks run here that know nothing of each other: the device's own  *)
(* rhythm, the collect cycle, the state report cycle and the controller's  *)
(* requeue.  A timestamp is kept as its age, saturating at Horizon; a tick *)
(* of time waits for the timers that are due.  A reconcile that fails is   *)
(* tried again after a delay of controller-runtime's, at most MaxBackoff,  *)
(* and time does not wait for that.                                        *)
(*                                                                         *)
(* Simplifications.  One device, whose properties all report to the cloud. *)
(* Values are left out: what matters is whether one is cached.  A report   *)
(* that passes the edge arrives at once; a restart of the mapper takes no  *)
(* time.  The capability DeviceLiveness also carries is part of Planner.   *)
(***************************************************************************)
EXTENDS Integers

CONSTANTS
    Property,        \* the properties of the device
    Config,          \* the deployments considered: see ConfigType
    DefaultInterval, \* defaultExpectedInterval, 60 seconds
    MinRequeue,      \* 5 seconds
    MaxRequeue,      \* 5 minutes
    MaxBackoff,      \* longest delay of a retry, 1000 seconds
    CollectCycle,    \* collectCycle of the properties
    ReportCycle,     \* reportCycle of the device states
    AnyProperty,     \* spec.property is not set
    Never,           \* no timestamp
    Horizon,         \* bound on ages
    MaxFaults        \* bound on lost connections, restarts and failed calls

DefaultStaleMultiplier == 3

Kind == {"direct", "relayed"}

\* A Device's protocol config and its DeviceLiveness spec; 0 is unset.
ConfigType ==
    [gateway : BOOLEAN,                \* the legacy field gateway is set
     kinds : SUBSET Kind,              \* effectiveTransports, by addressing
     interval : Nat, mult : Nat,       \* expectedIntervalSeconds, staleMultiplier
     specInterval : Nat, specMult : Nat,
     only : Property \cup {AnyProperty}]

ASSUME ReportingAssumption ==
    /\ Config \subseteq ConfigType
    /\ DefaultInterval \in Nat \ {0}
    /\ MinRequeue \in Nat \ {0} /\ MaxRequeue \in Nat /\ MinRequeue <= MaxRequeue
    /\ MaxBackoff \in Nat
    /\ CollectCycle \in Nat \ {0} /\ ReportCycle \in Nat \ {0}
    /\ AnyProperty \notin Property /\ Never \notin Int
    /\ Horizon \in Nat /\ MaxFaults \in Nat

VARIABLES
    cfg,       \* how the device is deployed
    quiet,     \* age of the device's last sign of life on any transport
    retained,  \* the retained message on the device's status topic
    kept,      \* the properties with a readable value in a retained message
    \* mapper
    conn,      \* the client is connected to the broker
    subs,      \* the kinds of transport it is subscribed to
    cache,     \* cache[k]: properties with a readable value under a key of kind k
    status,    \* the last payload of the status topic
    frame,     \* age of lastFrame
    pushed,    \* pushed[p]: time since the collect ticker of p
    stated,    \* time since the state report ticker
    \* KubeEdge and the controller
    link,      \* a report of the mapper reaches the cloud
    twin,      \* twin[p]: age of reported.metadata.timestamp
    state,     \* the state reported for the device
    live,      \* DeviceLiveness.status.state, "none" before it is written
    assessed,  \* time since the last reconcile that succeeded
    failed,    \* reconciles that failed since then
    retry,     \* time until the failed one is tried again
    faults

device == <<quiet, retained, kept>>
client == <<conn, subs, cache, status, frame>>
queue  == <<assessed, failed, retry>>
timers == <<pushed, stated, queue>>
cloud  == <<link, twin, state, live>>
vars   == <<cfg, device, client, timers, cloud, faults>>

Age == 0..Horizon

-----------------------------------------------------------------------------
(* Thresholds and verdicts *)

\* A setting, or what stands in for it when it is not set.
OrElse(n, default) == IF n > 0 THEN n ELSE default

\* thresholds: the DeviceLiveness spec, then the Device, then the defaults.
Interval == OrElse(cfg.specInterval, OrElse(cfg.interval, DefaultInterval))
Mult     == OrElse(cfg.specMult, OrElse(cfg.mult, DefaultStaleMultiplier))

\* The longest silence that is still sleep.
StaleLimit == Interval * Mult

\* When Reconcile comes back at the latest.
Requeue ==
    LET third == Interval \div 3
    IN  IF third < MinRequeue THEN MinRequeue
        ELSE IF third > MaxRequeue THEN MaxRequeue ELSE third

\* The filter applied when no property is named, too.
StampedByName == {p \in Property : twin[p] # Never /\ p = cfg.only}

\* The twins with a timestamp lastReport looks at.
Stamped ==
    {p \in Property : twin[p] # Never /\ (cfg.only = AnyProperty \/ p = cfg.only)}

\* Silence is judged one interval too late.
VerdictLate(silent) ==
    IF silent <= Interval THEN "Online"
    ELSE IF silent <= StaleLimit + Interval THEN "Sleeping" ELSE "Unreachable"

\* The switch of assess.
Verdict(silent) ==
    IF silent <= Interval THEN "Online"
    ELSE IF silent <= StaleLimit THEN "Sleeping" ELSE "Unreachable"

\* assess: the state by the freshest report.
Assessment ==
    IF Stamped = {} THEN "Unknown"
    ELSE Verdict(twin[CHOOSE p \in Stamped : \A q \in Stamped : twin[p] <= twin[q]])

\* A state this vocabulary does not have.
QuietState == "sleeping"

\* What GetDeviceStates says of a relayed node within its interval.
HealthyState == "ok"

\* GetDeviceStates: by the frames of a relayed node, by the retained birth and
\* will of any other device.
GetDeviceStates ==
    LET limit == OrElse(cfg.interval, DefaultInterval)
                   * OrElse(cfg.mult, DefaultStaleMultiplier)
    IN  IF ~conn THEN "unknown"
        ELSE IF cfg.gateway
          THEN IF frame = Never THEN "unknown"
               ELSE IF frame > limit THEN "disconnected" ELSE HealthyState
        ELSE CASE status = "online"  -> "ok"
               [] status = "offline" -> "offline"
               [] OTHER              -> "unknown"

\* The kind of key GetDeviceData looks a property up by: the bare field name
\* for a device with a gateway, the full topic for any other.
Key == IF cfg.gateway THEN "relayed" ELSE "direct"

-----------------------------------------------------------------------------

\* A mapper that has just connected: the retained messages have arrived.
Heard(k) == IF k = "direct" THEN kept ELSE {}
RetainedStatus == IF "direct" \in cfg.kinds THEN retained ELSE "unknown"

Init ==
    /\ cfg \in Config
    /\ quiet = Horizon
    /\ retained \in {"unknown", "offline"}
    /\ kept = {}
    /\ conn = TRUE /\ subs = cfg.kinds
    /\ cache = [k \in Kind |-> {}]
    /\ status = RetainedStatus
    /\ frame = Never
    /\ pushed = [p \in Property |-> 0] /\ stated = 0
    /\ link = TRUE
    /\ twin = [p \in Property |-> Never]
    /\ state = "unknown" /\ live = "none"
    /\ assessed = Requeue /\ failed = 0 /\ retry = 0
    /\ faults = 0

Fault == faults < MaxFaults /\ faults' = faults + 1

-----------------------------------------------------------------------------
(* The device and the broker *)

\* The device publishes a property under its own prefix (onMessage).  A payload
\* that does not convert to the property's type takes the place of a value and
\* is none.
Publish(p) ==
    /\ "direct" \in cfg.kinds /\ retained = "online"
    /\ quiet' = 0
    /\ \E value \in {{p}, {}} :
         /\ kept' = (kept \ {p}) \cup value
         /\ cache' = IF "direct" \in subs
                       THEN [cache EXCEPT !["direct"] = (@ \ {p}) \cup value] ELSE cache
    /\ UNCHANGED <<cfg, retained, conn, subs, status, frame, timers, cloud, faults>>

\* The gateway publishes a frame of the device with the fields of S
\* (onLoRaFrameFrom); any frame is proof of life, whatever it carried.
Frame(S) ==
    /\ "relayed" \in cfg.kinds
    /\ quiet' = 0
    /\ IF "relayed" \in subs
         THEN /\ cache' = [cache EXCEPT !["relayed"] = @ \cup S]
              /\ frame' = 0
         ELSE UNCHANGED <<cache, frame>>
    /\ UNCHANGED <<cfg, retained, kept, conn, subs, status, timers, cloud, faults>>

\* A message on the status topic.
StatusMessage(payload) ==
    /\ "direct" \in cfg.kinds
    /\ retained' = payload
    /\ status' = IF "direct" \in subs THEN payload ELSE status
    /\ UNCHANGED <<cfg, kept, conn, subs, cache, frame, timers, cloud, faults>>

\* The device comes up and publishes its birth.
Birth ==
    /\ retained # "online"
    /\ quiet' = 0
    /\ StatusMessage("online")

\* The broker misses the device and publishes its will.
Will ==
    /\ retained = "online"
    /\ UNCHANGED quiet
    /\ StatusMessage("offline")

-----------------------------------------------------------------------------
(* The mapper *)

\* The connection handler's subscriptions, and the retained messages they
\* bring.
Subscribed(S) ==
    /\ subs' = S
    /\ status' = IF "direct" \in S THEN RetainedStatus ELSE "unknown"

\* ConnectionLost: the status is forgotten, the cache deliberately is not.
LoseBroker ==
    /\ conn /\ Fault
    /\ conn' = FALSE /\ subs' = {} /\ status' = "unknown"
    /\ UNCHANGED <<cfg, device, cache, frame, timers, cloud>>

\* AutoReconnect and the connection handler; a subscription that fails is
\* logged and left at that.
Reconnect ==
    /\ ~conn /\ conn' = TRUE
    /\ \/ Subscribed(cfg.kinds) /\ UNCHANGED faults
       \/ Fault /\ \E k \in cfg.kinds : Subscribed(cfg.kinds \ {k})
    /\ cache' = [k \in Kind |-> IF k \in subs' THEN cache[k] \cup Heard(k) ELSE cache[k]]
    /\ UNCHANGED <<cfg, device, frame, timers, cloud>>

\* The mapper dies and is restarted.
Restart ==
    /\ Fault
    /\ conn' = TRUE /\ Subscribed(cfg.kinds)
    /\ cache' = [k \in Kind |-> IF k \in cfg.kinds THEN Heard(k) ELSE {}]
    /\ frame' = Never
    /\ pushed' = [p \in Property |-> 0] /\ stated' = 0
    /\ UNCHANGED <<cfg, device, queue, cloud>>

\* The collect ticker of p: PushToEdgeCore reads the cache, whatever its age,
\* and the report is stamped with the time of reporting.  Without a value, or
\* without the edge's connection, nothing arrives.
PushToEdgeCore(p) ==
    /\ pushed[p] = CollectCycle
    /\ pushed' = [pushed EXCEPT ![p] = 0]
    /\ twin' = IF p \in cache[Key] /\ link THEN [twin EXCEPT ![p] = 0] ELSE twin
    /\ UNCHANGED <<cfg, device, client, stated, queue, link, state, live, faults>>

\* The state ticker: PushStatesToEdgeCore.
PushStatesToEdgeCore ==
    /\ stated = ReportCycle
    /\ stated' = 0
    /\ state' = IF link THEN GetDeviceStates ELSE state
    /\ UNCHANGED <<cfg, device, client, pushed, queue, link, twin, live, faults>>

-----------------------------------------------------------------------------
(* The cloud *)

CutLink ==
    /\ link /\ Fault /\ link' = FALSE
    /\ UNCHANGED <<cfg, device, client, timers, twin, state, live>>

HealLink ==
    /\ ~link /\ link' = TRUE
    /\ UNCHANGED <<cfg, device, client, timers, twin, state, live, faults>>

\* The state is written, and the next judgement requeued.
Published(verdict) ==
    /\ live' = verdict
    /\ assessed' = 0 /\ failed' = 0 /\ retry' = 0

\* The liveness Reconcile, on a watch event, when it is requeued or retried.
\* Reading the DeviceStatus may fail, which reads as never reported; another
\* read or the status write may fail, and the reconcile is retried after a
\* delay that grows with the failures.
Reconcile ==
    /\ \/ Published(Assessment) /\ UNCHANGED faults
       \/ Published("Unknown") /\ Fault
       \/ /\ Fault /\ failed' = failed + 1
          /\ retry' \in 0..MaxBackoff
          /\ UNCHANGED <<live, assessed>>
    /\ UNCHANGED <<cfg, device, client, pushed, stated, link, twin, state>>

\* Time passes once no timer is due.
Older(age) == IF age = Never \/ age = Horizon THEN age ELSE age + 1

Tick ==
    /\ \A p \in Property : pushed[p] < CollectCycle
    /\ stated < ReportCycle
    /\ IF failed = 0 THEN assessed < Requeue ELSE retry > 0
    /\ quiet' = Older(quiet) /\ frame' = Older(frame)
    /\ twin' = [p \in Property |-> Older(twin[p])]
    /\ pushed' = [p \in Property |-> pushed[p] + 1]
    /\ stated' = stated + 1 /\ assessed' = assessed + 1
    /\ retry' = IF failed = 0 THEN 0 ELSE retry - 1
    /\ UNCHANGED <<cfg, failed, retained, kept, conn, subs, cache, status, link, state, live,
                   faults>>

-----------------------------------------------------------------------------

Next ==
    \/ \E p \in Property : Publish(p) \/ PushToEdgeCore(p)
    \/ \E S \in SUBSET Property : Frame(S)
    \/ Birth \/ Will
    \/ LoseBroker \/ Reconnect \/ Restart \/ PushStatesToEdgeCore
    \/ CutLink \/ HealLink \/ Reconcile \/ Tick

Spec == Init /\ [][Next]_vars

\* Time passes, the tickers and the requeues come, edgecore reconnects.
Fairness ==
    /\ WF_vars(Tick) /\ WF_vars(Reconcile) /\ WF_vars(HealLink)
    /\ WF_vars(PushStatesToEdgeCore)
    /\ \A p \in Property : WF_vars(PushToEdgeCore(p))

FairSpec == Spec /\ Fairness

-----------------------------------------------------------------------------
(* Properties *)

\* Type correctness; in particular every state that is reported or published
\* is one of KubeEdge's and of DeviceLiveness's vocabulary.
ReportingTypeOK ==
    /\ cfg \in Config
    /\ quiet \in Age /\ retained \in {"unknown", "online", "offline"}
    /\ kept \subseteq Property
    /\ conn \in BOOLEAN /\ subs \subseteq Kind
    /\ cache \in [Kind -> SUBSET Property]
    /\ status \in {"unknown", "online", "offline"}
    /\ frame \in Age \cup {Never}
    /\ pushed \in [Property -> 0..CollectCycle]
    /\ stated \in 0..ReportCycle
    /\ assessed \in Nat /\ failed \in Nat /\ retry \in 0..MaxBackoff
    /\ link \in BOOLEAN
    /\ twin \in [Property -> Age \cup {Never}]
    /\ state \in {"ok", "offline", "disconnected", "unknown"}
    /\ live \in {"none", "Unknown", "Online", "Sleeping", "Unreachable"}
    /\ faults \in 0..MaxFaults

\* The longest time between two judgements: a requeue, and a delay for every
\* time the one that was due has failed.
Delay == Requeue + failed * MaxBackoff

\* "Requeue at a fraction of the interval so a transition to Sleeping is
\* noticed promptly" (Reconcile): the published state is at most one requeue
\* behind the twins, and one retry more for every failure in a row.  Online and
\* Sleeping outlive their limits by at most that, and Unreachable is only said
\* of a device whose reports were all too old when it was judged.
PublishedIsTimely ==
    /\ live = "Online" => \E p \in Stamped : twin[p] <= Interval + Delay
    /\ live = "Sleeping" => \E p \in Stamped : twin[p] <= StaleLimit + Delay
    /\ live = "Unreachable" =>
         \A p \in Stamped : twin[p] > StaleLimit \/ twin[p] <= assessed

\* A device that keeps to its interval is in the end taken for Online for good
\* (PushToEdgeCore, lastReport, assess), through lost reports, failed reads and
\* failed writes, as long as the mapper has a value of it to report.
SpeakingIsFound ==
    \A p \in Property :
        <>[](/\ quiet <= Interval /\ p \in cache[Key]
             /\ cfg.only \in {p, AnyProperty})
          => <>[](live = "Online")

\* devicetype.go: "silence longer than StaleMultiplier x this is Unreachable".
\* A device that has been silent for that long, and for the two cycles it
\* takes to find out, is not said to be there.
SilenceIsUnreachable ==
    quiet > StaleLimit + CollectCycle + Requeue => live \notin {"Online", "Sleeping"}
=============================================================================
