------------------------------- MODULE Planner -------------------------------
(***************************************************************************)
(* What a fleet can take: the planner of controller/internal/planner.go    *)
(* and the capability predicates of api/v1alpha1/capability_types.go, as   *)
(* operators on records.                                                   *)
(*                                                                         *)
(*   transport   [type, ota, max, cost]  max is MaxPayloadBytes, cost is   *)
(*               OTACostMah; 0 means "not stated" in both                  *)
(*   capability  [transports, via, battery, mah]  transports is a set of   *)
(*               transports, via the types in ReachableVia; 0 means        *)
(*               "unknown" for battery and mah                             *)
(*   liveness    [state, cap, silent]  cap is a capability or              *)
(*               NoCapability (status.capability == nil), silent is        *)
(*               time.Since(LastSeen), or NoTime when LastSeen is nil      *)
(*   requires    [ota, minBattery, maxSilent]  a nil Requires is           *)
(*               NoRequirements                                            *)
(*                                                                         *)
(* Sizes, charges and durations are small naturals; only their order and   *)
(* the percentage arithmetic matter.  The int32 arithmetic of              *)
(* OTAAffordable stays far from 2^31 for any real battery and is left      *)
(* unbounded.  The wording of Detail is left out.                          *)
(***************************************************************************)
EXTENDS Integers, FiniteSets

CONSTANTS
    NoCapability,   \* status.capability == nil
    NoTime          \* a nil or zero timestamp

\* Requires == nil asks for nothing.
NoRequirements == [ota |-> FALSE, minBattery |-> 0, maxSilent |-> NoTime]

\* Any transport will do.
CanAcceptAnything(cap, size) == cap.transports # {}

\* Some declared transport can carry an image of this size.
CanAcceptOTA(cap, size) ==
    \E t \in cap.transports :
        /\ t.ota
        /\ ~(size > 0 /\ t.max > 0 /\ size > t.max)

\* The dearest transfer over an OTA transport, 0 when no cost is stated.
OTACost(cap) ==
    LET costs == {0} \cup {t.cost : t \in {u \in cap.transports : u.ota}}
    IN  CHOOSE c \in costs : \A o \in costs : o <= c

\* The battery is above the floor now and, where the cost is known, after.
OTAAffordable(cap, floor) ==
    \/ cap.battery = 0
    \/ floor = 0
    \/ /\ cap.battery >= floor
       /\ \/ OTACost(cap) = 0
          \/ cap.mah = 0
          \/ cap.battery - ((OTACost(cap) * 100) \div cap.mah) >= floor

\* Some transport that is up now can carry firmware; nothing observed means yes.
ReachableOverOTA(cap) ==
    \/ cap.via = {}
    \/ \E t \in cap.transports : t.type \in cap.via /\ t.ota

-----------------------------------------------------------------------------

\* The reason CanAcceptOTA gives when it says no.
OTARefusal(cap, size) ==
    IF cap.transports # {} /\ size > 0
      THEN "ArtifactExceedsTransportCapacity"
      ELSE "NoOTACapableTransport"

\* Why this device is not eligible, or "" when it is.  The tests are in the
\* order of PlanRollout: capability, then reachability, then contact.
PlanReason(requires, size, l) ==
    IF requires.ota /\ l.cap = NoCapability THEN "NoOTACapableTransport"
    ELSE IF requires.ota /\ ~CanAcceptOTA(l.cap, size) THEN OTARefusal(l.cap, size)
    ELSE IF requires.ota /\ requires.minBattery > 0
            /\ ~OTAAffordable(l.cap, requires.minBattery)
         THEN "OTAExceedsBatteryBudget"
    ELSE IF l.state \in {"Unreachable", "Unknown"} THEN "DeviceUnreachable"
    ELSE IF l.state = "Sleeping" THEN "DeviceSleeping"
    ELSE IF requires.ota /\ ~ReachableOverOTA(l.cap) THEN "AwaitingTransportWindow"
    ELSE IF requires.maxSilent # NoTime /\ l.silent # NoTime
            /\ l.silent > requires.maxSilent
         THEN "DeviceUnreachable"
    ELSE ""

RefusedReasons ==
    {"NoOTACapableTransport", "ArtifactExceedsTransportCapacity",
     "OTAExceedsBatteryBudget"}

PendingReasons ==
    {"DeviceUnreachable", "DeviceSleeping", "AwaitingTransportWindow"}

\* The three lists of a Plan, as sets of devices; live maps each matched
\* device to its liveness.
PlanRollout(requires, size, live) ==
    LET reason(d) == PlanReason(requires, size, live[d])
    IN  [Eligible |-> {d \in DOMAIN live : reason(d) = ""},
         Refused  |-> {d \in DOMAIN live : reason(d) \in RefusedReasons},
         Pending  |-> {d \in DOMAIN live : reason(d) \in PendingReasons}]

\* A cumulative percentage of the eligible devices as a count: at least one
\* for any positive percentage, at most all of them.
StepSize(eligible, percent) ==
    LET n == (eligible * percent) \div 100
        m == IF n < 1 /\ percent > 0 THEN 1 ELSE n
    IN  IF m > eligible THEN eligible ELSE m
=============================================================================
