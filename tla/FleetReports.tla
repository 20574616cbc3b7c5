---------------------------- MODULE FleetReports ----------------------------
(***************************************************************************)
(* What is derived from a device and its twin, as operators on records:    *)
(* its capability (liveness_controller.go, transports.go), drift and       *)
(* credentials (drift.go), fleet queries (query.go).  All of them read the *)
(* same liveness, by different code, and are meant to agree with the       *)
(* planner and with each other.                                            *)
(*                                                                         *)
(* The records are Planner's, with more fields: a transport also has       *)
(* config and availability, a capability the hash it reports ("" for       *)
(* none).  A declared transport has NoValue in the fields its block leaves *)
(* out.                                                                    *)
(***************************************************************************)
EXTENDS Planner

CONSTANT NoValue

\* transportDefaults; the sizes are in bytes.
DefaultTransport(name) ==
    LET t(availability, ota, max, cost) ==
          [type |-> name, availability |-> availability, config |-> TRUE,
           ota |-> ota, max |-> max, cost |-> cost]
    IN  CASE name = "wifi"     -> t("always", TRUE, 16 * 1048576, 2)
          [] name = "ethernet" -> t("always", TRUE, 64 * 1048576, 0)
          [] name = "thread"   -> t("always", TRUE, 1048576, 34)
          [] name = "lora"     -> t("always", FALSE, 240, 0)
          [] name = "ble"      -> t("opportunistic", FALSE, 512, 0)
          [] name = "zigbee"   -> t("always", FALSE, 82, 0)
          [] name = "modbus"   -> t("always", FALSE, 252, 0)
          [] name = "cellular" -> t("always", TRUE, 16 * 1048576, 120)
          [] OTHER             -> t("always", FALSE, 0, 0)

\* One item of the transports block over the defaults of its type; a limit or a
\* cost that is not positive says nothing.
Declared(item) ==
    LET default == DefaultTransport(item.type)
        says(f) == item[f] # NoValue /\ (f \in {"max", "cost"} => item[f] > 0)
        over(f) == IF says(f) THEN item[f] ELSE default[f]
    IN  [f \in DOMAIN default |-> IF f = "type" THEN item.type ELSE over(f)]

\* The declared transports, or the one the address implies, and which of them
\* count as up now.
DeriveCapabilityFrom(cfg, label) ==
    LET declared == {Declared(item) : item \in cfg.transports}
        implied  == IF cfg.gateway THEN DefaultTransport("lora")
                    ELSE DefaultTransport(IF label = NoValue THEN "wifi" ELSE label)
        all == IF declared = {} THEN {implied} ELSE declared
    IN  [transports |-> all,
         via |-> {t.type : t \in {u \in all : u.availability = "always"}},
         battery |-> 0, mah |-> 0, hash |-> ""]

\* assess, and buildLiveness, on the silence of a device that has reported.
StateOf(silent, interval, mult) ==
    IF silent <= interval THEN "Online"
    ELSE IF silent <= interval * mult THEN "Sleeping" ELSE "Unreachable"

-----------------------------------------------------------------------------
\* No look at which transports are up.
DriftOfAnyDoor(spec, l) ==
    IF l.cap = NoCapability \/ l.cap.hash = "" THEN "StateUnknown"
    ELSE IF spec.expect = "" \/ l.cap.hash = spec.expect THEN "Converged"
    ELSE IF ~CanAcceptOTA(l.cap, 0) THEN "DriftedNoCapableTransport"
    ELSE IF l.state \in {"Sleeping", "Unreachable"} THEN "DriftedButSleeping"
    ELSE "DriftedAndReachable"

\* The row of one device, and the two numbers of it, in AssessDriftSince;
\* AssessDrift passes no time of the expectation, so nothing is in grace.
\* spec is [expect, ignoreSleeping], expect "" for none.
DriftOf(spec, l) ==
    IF l.cap = NoCapability \/ l.cap.hash = "" THEN "StateUnknown"
    ELSE IF spec.expect = "" \/ l.cap.hash = spec.expect THEN "Converged"
    ELSE IF spec.ignoreSleeping /\ l.state = "Sleeping" THEN "Converged"
    ELSE IF ~CanAcceptOTA(l.cap, 0) THEN "DriftedNoCapableTransport"
    ELSE IF ~ReachableOverOTA(l.cap) THEN "DriftedAwaitingTransportWindow"
    ELSE IF l.state \in {"Sleeping", "Unreachable"} THEN "DriftedButSleeping"
    ELSE "DriftedAndReachable"

Remediable(l) == CanAcceptOTA(l.cap, 0) /\ ReachableOverOTA(l.cap)

\* A credential as large as the transport's limit does not fit.
RotatableStrictly(spec, cap) ==
    /\ cap # NoCapability
    /\ \E t \in cap.transports :
         /\ t.config \/ t.ota
         /\ ~(spec.size > 0 /\ t.max > 0 /\ spec.size >= t.max)

\* AssessCredentials: spec is [warn, size], left the time to the expiry.
Rotatable(spec, cap) ==
    /\ cap # NoCapability
    /\ \E t \in cap.transports :
         /\ t.config \/ t.ota
         /\ ~(spec.size > 0 /\ t.max > 0 /\ spec.size > t.max)

CredentialOf(spec, l, left) ==
    IF left = NoTime THEN "Unknown"
    ELSE IF left <= 0 THEN "Expired"
    ELSE IF ~Rotatable(spec, l.cap) THEN "AtRisk"
    ELSE IF left <= spec.warn THEN "Expiring" ELSE "Healthy"

-----------------------------------------------------------------------------
\* The Reason of actionable, "" when it is.
ActionableReason(l) ==
    IF l.state = "Unreachable" THEN "unreachable"
    ELSE IF l.state = "Unknown" THEN "never reported"
    ELSE IF l.state = "Sleeping" THEN "sleeping"
    ELSE IF l.cap = NoCapability THEN "capability unknown"
    ELSE IF ~CanAcceptOTA(l.cap, 0) THEN "no ota-capable transport"
    ELSE IF ~ReachableOverOTA(l.cap) THEN "ota transport not up"
    ELSE ""

\* An unknown value matches nothing.
strMatchKnown(m, v) ==
    /\ v # ""
    /\ m.equals # "" => v = m.equals
    /\ m.in # {} => v \in m.in
    /\ v \notin m.notIn

\* A StringMatch is [equals, in, notIn]; "" and {} say nothing.
strMatch(m, v) ==
    /\ m.equals # "" => v = m.equals
    /\ m.in # {} => v \in m.in
    /\ v \notin m.notIn

anyMatch(m, vs) ==
    /\ vs \cap m.notIn = {}
    /\ \/ m.equals = "" /\ m.in = {}
       \/ m.equals # "" /\ m.equals \in vs
       \/ vs \cap m.in # {}

\* The fields of a QueryPredicate but for Not; NoValue is a nil field.
FieldsMatch(p, l) ==
    LET nil == l.cap = NoCapability
        ota == ~nil /\ CanAcceptOTA(l.cap, 0)
    IN  /\ p.state # NoValue => strMatch(p.state, l.state)
        /\ p.transport # NoValue =>
             anyMatch(p.transport, IF nil THEN {} ELSE {t.type : t \in l.cap.transports})
        /\ p.via # NoValue => anyMatch(p.via, IF nil THEN {} ELSE l.cap.via)
        /\ p.hash # NoValue => strMatch(p.hash, IF nil THEN "" ELSE l.cap.hash)
        /\ p.otaCapable # NoValue => ota = p.otaCapable
        /\ p.otaReachable # NoValue =>
             (ota /\ ReachableOverOTA(l.cap)) = p.otaReachable
        /\ p.silentLonger # NoValue => l.silent # NoTime /\ l.silent >= p.silentLonger
        /\ p.beyond # NoValue => (l.state = "Unreachable") = p.beyond
        /\ p.batteryBelow # NoValue =>
             ~nil /\ l.cap.battery # 0 /\ l.cap.battery < p.batteryBelow

\* The predicate with no field set.
Everything ==
    [f \in {"state", "transport", "via", "hash", "otaCapable", "otaReachable",
            "silentLonger", "beyond", "batteryBelow", "not"} |-> NoValue]

\* matches; p.not is a predicate without a Not of its own, as its documentation
\* allows, or NoValue.
Matches(p, l) ==
    FieldsMatch(p, l) /\ (p.not # NoValue => ~FieldsMatch(p.not, l))

\* EvaluateQuery on a set of livenesses: what it counts, not the list it cuts.
EvaluateQuery(where, live) ==
    LET matched == {d \in DOMAIN live : where = NoValue \/ Matches(where, live[d])}
    IN  [Matched |-> matched,
         Actionable |-> {d \in matched : ActionableReason(live[d]) = ""}]
=============================================================================
