----------------------------- MODULE TorporPlan -----------------------------
(***************************************************************************)
(* A fleet seen twice: by the controllers, through the liveness objects    *)
(* they wrote some time ago, and by `torpor plan` (cmd/plan), which        *)
(* derives everything again from the manifests and what the devices        *)
(* reported.  The tool writes nothing, so what it would print is a         *)
(* function of the state: it may be run in any of them.                    *)
(*                                                                         *)
(* Time is in hours.  Twins are written by the mapper, decommissions by an *)
(* operator; the controller that reconciles liveness is the real one.      *)
(***************************************************************************)
EXTENDS FleetReports, Schedule

CONSTANTS
    Devices,
    Manifest,     \* [Devices -> [cfg, transport, role, interval, mult]]
    Windows,      \* a set of [roles, deny, allow]; roles is NoValue without a selector
    Rollout,      \* [role, requires, size]
    Drift,        \* FleetDriftSpec
    Credentials,  \* CredentialExpirySpec
    Expiry,       \* certExpiry: [Devices -> time or NoTime]
    Reports,      \* [hash, battery, mah, via]: what a device may report
    MaxReporting, \* bound: devices that report, and that are decommissioned
    Start,        \* the hour the model starts at
    Horizon       \* bound: hours the model looks at

WindowType ==
    [roles : {NoValue} \cup SUBSET STRING, deny : Seq(PeriodType), allow : Seq(PeriodType)]

ReportType ==
    [hash : STRING, battery : Nat, mah : Nat, via : {NoValue} \cup SUBSET STRING]

TwinType ==
    [at : Int, hash : STRING, battery : Nat, mah : Nat, via : {NoValue} \cup SUBSET STRING]

\* The matches and predicates the queries of QueriesAgree are made of.
Asked     == {"", "Online", Drift.expect}
MatchType == [equals : Asked, in : SUBSET Asked, notIn : SUBSET Asked]
QueryType == [DOMAIN Everything -> {NoValue} \cup BOOLEAN \cup MatchType]

ASSUME FleetAssumption ==
    /\ Start \in Int /\ Horizon \in Nat /\ NoTime \notin Int
    /\ IsFiniteSet(Windows) /\ Windows \subseteq WindowType
    /\ MaxReporting \in Nat /\ Reports \subseteq ReportType
    /\ \A d \in Devices : Expiry[d] \in Int \cup {NoTime}
    /\ \A d \in Devices : Manifest[d].interval \in Nat /\ Manifest[d].mult \in Nat
    /\ \A d \in Devices : \A item \in Manifest[d].cfg.transports :
         item.max \in {NoValue} \cup Nat
    /\ Rollout.size \in Nat /\ Credentials.size \in Nat
    /\ NoValue \notin TwinType \cup MatchType \cup QueryType \cup BOOLEAN

VARIABLES
    now,
    twin,     \* DeviceStatus: [at, hash, battery, mah, via], NoValue before the first;
              \* via, a set of types, is NoValue when the device reports none
    live,     \* DeviceLiveness.status: [state, cap, at], NoValue before the first
    decom     \* devices with a DeviceDecommission

vars == <<now, twin, live, decom>>

Init ==
    /\ now = Start
    /\ twin = [d \in Devices |-> NoValue]
    /\ live = [d \in Devices |-> NoValue]
    /\ decom = {}

Tick ==
    /\ now < Start + Horizon
    /\ now' = now + 1
    /\ UNCHANGED <<twin, live, decom>>

\* The mapper reports a device's twin.
Report(d) ==
    /\ Cardinality({e \in Devices : e = d \/ twin[e] # NoValue}) <= MaxReporting
    /\ \E r \in Reports :
         twin' = [twin EXCEPT ![d] = [at |-> now, hash |-> r.hash, battery |-> r.battery,
                                      mah |-> r.mah, via |-> r.via]]
    /\ UNCHANGED <<now, live, decom>>

\* An operator takes a device out of the fleet; its objects stay.
Decommission(d) ==
    /\ Cardinality(decom \cup {d}) <= MaxReporting
    /\ decom' = decom \cup {d}
    /\ UNCHANGED <<now, twin, live>>

-----------------------------------------------------------------------------
\* What the manifests alone say of the devices' capabilities.
DeclaredCapability ==
    [d \in Devices |-> DeriveCapabilityFrom(Manifest[d].cfg, Manifest[d].transport)]

\* deriveCapability: the declared part, and what the twin says.
CapabilityOf(d) ==
    LET c == DeclaredCapability[d]
    IN  IF twin[d] = NoValue THEN c
        ELSE [c EXCEPT !.hash = twin[d].hash, !.battery = twin[d].battery,
                       !.mah = twin[d].mah]

\* LastSeen is when the reconcile ran.
AssessNow(d) ==
    [state |-> IF twin[d] = NoValue THEN "Unknown"
               ELSE StateOf(now - twin[d].at, Manifest[d].interval, Manifest[d].mult),
     cap |-> CapabilityOf(d),
     at |-> now]

\* thresholds and assess.
Assess(d) ==
    [state |-> IF twin[d] = NoValue THEN "Unknown"
               ELSE StateOf(now - twin[d].at, Manifest[d].interval, Manifest[d].mult),
     cap |-> CapabilityOf(d),
     at |-> IF twin[d] = NoValue THEN NoTime ELSE twin[d].at]

\* LivenessReconciler.Reconcile
Reconcile(d) ==
    /\ live' = [live EXCEPT ![d] = Assess(d)]
    /\ UNCHANGED <<now, twin, decom>>

Next ==
    \/ Tick
    \/ \E d \in Devices : Report(d) \/ Decommission(d) \/ Reconcile(d)

Spec == Init /\ [][Next]_vars

-----------------------------------------------------------------------------
Silence(at) == IF at = NoTime THEN NoTime ELSE now - at

\* A liveness as the rollout controller finds it (matchingLivenesses): the state is
\* that of the last reconcile, the silence is measured now.
Found(d) ==
    IF live[d] = NoValue
      THEN [state |-> "Unknown", cap |-> NoCapability, silent |-> NoTime]
      ELSE [state |-> live[d].state, cap |-> live[d].cap, silent |-> Silence(live[d].at)]

\* The tool reads no level of the battery, either.
BuiltBare(d) ==
    LET c == DeclaredCapability[d]
    IN  IF twin[d] = NoValue
          THEN [state |-> "Unknown", cap |-> c, silent |-> NoTime]
          ELSE [state |-> StateOf(Silence(twin[d].at), Manifest[d].interval,
                                  Manifest[d].mult),
                cap |-> [c EXCEPT !.hash = twin[d].hash,
                                  !.via = IF twin[d].via = NoValue THEN @ ELSE twin[d].via],
                silent |-> Silence(twin[d].at)]

\* buildLiveness: the same derivation written again, without the battery's
\* capacity and with the reachable_via that deriveCapability does not read.
Built(d) ==
    LET c == DeclaredCapability[d]
    IN  IF twin[d] = NoValue
          THEN [state |-> "Unknown", cap |-> c, silent |-> NoTime]
          ELSE [state |-> StateOf(Silence(twin[d].at), Manifest[d].interval,
                                  Manifest[d].mult),
                cap |-> [c EXCEPT !.hash = twin[d].hash, !.battery = twin[d].battery,
                                  !.via = IF twin[d].via = NoValue THEN @ ELSE twin[d].via],
                silent |-> Silence(twin[d].at)]

\* main: NewDecommissionSet and Filter.
Planned == [d \in Devices \ decom |-> Built(d)]

\* The devices a rollout matches, for the controller and for the tool.
Matched == {d \in Devices : Manifest[d].role = Rollout.role}
Scoped  == Matched \ decom

\* windowSelectsAny
Selects(w, ds) == w.roles = NoValue \/ \E d \in ds : Manifest[d].role \in w.roles

\* The two window checks: EvaluateWindowsFor, for every hour, and the loop of
\* reportRollouts.
GateAt == [t \in Start..(Start + Horizon) |->
             EvaluateAll({w \in Windows : Selects(w, Matched)}, t)]
Gate   == GateAt[now]
PlannedGate == \A w \in Windows : Selects(w, Scoped) => EvaluateWindow(w, now).Open

\* PlanRollout, on what each of them has.
ControllerPlan ==
    PlanRollout(Rollout.requires, Rollout.size, [d \in Matched |-> Found(d)])
ToolPlan ==
    PlanRollout(Rollout.requires, Rollout.size, [d \in Scoped |-> Built(d)])

-----------------------------------------------------------------------------
\* The types of what the tool and the controllers read, and that nothing is from
\* the future (load, assess): a report is no later than now, and a liveness object
\* knows no report later than the device's last.
PlanTypeOK ==
    /\ now \in Start..(Start + Horizon)
    /\ DOMAIN twin = Devices /\ DOMAIN live = Devices
    /\ \A d \in Devices : twin[d] # NoValue => twin[d] \in TwinType /\ twin[d].at \in Start..now
    /\ \A d \in Devices :
         \/ live[d] = NoValue
         \/ /\ live[d].state \in {"Online", "Sleeping", "Unreachable", "Unknown"}
            /\ (live[d].at = NoTime) = (live[d].state = "Unknown")
            /\ live[d].at # NoTime => twin[d] # NoValue /\ live[d].at \in Start..twin[d].at
    /\ decom \subseteq Devices

\* "A dry run that exercises different code from the real thing is a dry run that
\* lies" (cmd/plan): where the liveness objects are as fresh as the tool's own and
\* nobody was decommissioned, the tool classifies every device and judges the
\* windows as the controller does.  Left out are devices that report a battery's
\* capacity, which only the controller reads, or reachable_via, which only the
\* tool believes.
DryRunMatches ==
    LET fresh == {d \in Matched : /\ live[d] # NoValue /\ live[d] = Assess(d)
                                  /\ twin[d] # NoValue =>
                                       twin[d].mah = 0 /\ twin[d].via = NoValue}
        tool == ToolPlan
        real == ControllerPlan
    IN  decom = {} =>
          /\ PlannedGate = Gate.Open
          /\ tool.Eligible \cap fresh = real.Eligible \cap fresh
          /\ tool.Refused \cap fresh = real.Refused \cap fresh
          /\ tool.Pending \cap fresh = real.Pending \cap fresh

\* The rows of one plan do not contradict each other, though planner.go, drift.go
\* and query.go each judge a device by code of their own: what the query calls
\* actionable is what a rollout that only asks for OTA would start with, a
\* drifted device is called reachable exactly when it is actionable, and one
\* without a capable transport exactly when such a rollout refuses it.  A
\* device of which only the hash is known has no state to agree on.
RowsAgree ==
    \A d \in DOMAIN Planned :
        LET l == Planned[d]
            reason == PlanReason([NoRequirements EXCEPT !.ota = TRUE], 0, l)
            row == DriftOf(Drift, l)
        IN  /\ ActionableReason(l) = "" <=> reason = ""
            /\ l.state # "Unknown" =>
                 /\ row = "DriftedAndReachable" => ActionableReason(l) = "" /\ Remediable(l)
                 /\ row = "DriftedNoCapableTransport" => reason \in RefusedReasons
                 /\ row \in {"DriftedAwaitingTransportWindow", "DriftedButSleeping"}
                      => reason \in PendingReasons

\* The same questions asked as queries get the same answers (EvaluateQuery, and
\* QueryPredicate's "notIn is the drift question"): the devices a firmware-capable
\* transport reaches while they are online are the actionable ones, and the
\* devices not on the expected hash are those the drift report does not call
\* converged, the unknown ones included.
QueriesAgree ==
    LET match(equals, notIn) == [equals |-> equals, in |-> {}, notIn |-> notIn]
        seen == Planned
        ready == [Everything EXCEPT !["state"] = match("Online", {}), !["otaReachable"] = TRUE]
        drifted == [Everything EXCEPT !["hash"] = match("", {Drift.expect})]
    IN  /\ EvaluateQuery(ready, seen).Matched = EvaluateQuery(NoValue, seen).Actionable
        /\ Drift.expect # "" /\ ~Drift.ignoreSleeping =>
             EvaluateQuery(drifted, seen).Matched =
               {d \in DOMAIN seen : DriftOf(Drift, seen[d]) # "Converged"}

\* Whoever cannot receive its next credential cannot receive firmware that is no
\* smaller: the two size checks, over different sets of transports, never send
\* somebody to a site that a rollout would reach.
AtRiskIsRefused ==
    \A d \in DOMAIN Planned :
        /\ Expiry[d] # NoTime
        /\ CredentialOf(Credentials, Planned[d], Expiry[d] - now) = "AtRisk"
        /\ Rollout.requires.ota /\ Rollout.size >= Credentials.size
        => d \notin ToolPlan.Eligible

\* A period is in force for as long as it says once its cron line fires
\* (WindowPeriod.Duration).
DurationHonoured ==
    \A w \in Windows : \A i \in DOMAIN w.deny \cup DOMAIN w.allow :
        /\ i \in DOMAIN w.deny => inPeriod(w.deny[i], now) = Covers(w.deny[i], now)
        /\ i \in DOMAIN w.allow => inPeriod(w.allow[i], now) = Covers(w.allow[i], now)

\* "We are free only when the last of them releases" (EvaluateWindowsFor): the
\* rollout is told to wait for NextOpen (it looks again every half hour at the
\* latest), so a gate that is closed is closed at every hour before that, whichever
\* windows overlap.
ClosedUntilPromised ==
    LET gate == Gate
    IN  ~gate.Open /\ gate.NextOpen # Nil =>
          \A t \in (now + 1)..(Start + Horizon) : t < gate.NextOpen => ~GateAt[t].Open
=============================================================================
