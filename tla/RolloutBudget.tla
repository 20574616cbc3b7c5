---------------------------- MODULE RolloutBudget ----------------------------
(***************************************************************************)
(* Rollout with history variables for what MaxDevicesPerWindow bounds: how *)
(* long ago each device was told, and which were told in the opening that  *)
(* lasts.  They follow the devices and the windows; of the controller's    *)
(* own count they only note whether it missed a dispatch.                  *)
(***************************************************************************)
EXTENDS Rollout

VARIABLES
    age,       \* age[d]: time since d was told, up to one past Hour
    opening,   \* the devices told since the windows last opened
    batch,     \* the devices told since ApplyWindow last renewed the budget
    counted    \* so far every call and read succeeded and the API server took
               \* every status, so DispatchedThisWindow missed nothing

bvars == <<vars, age, opening, batch, counted>>

New == Told' \ Told

AllOpen == \A w \in DOMAIN Windows : Windows[w].selects => w \in open

\* ApplyWindow renews the budget in this step.
Renews ==
    /\ pc = "Window" /\ pc' \in {"Observe", "Finish"}
    /\ EvaluateWindowsFor.Open /\ ResetsBudget(loc, EvaluateWindowsFor)

\* The status of a reconcile, and its count with it, is refused.
Refused == pc = "Finish" /\ pc' = "Idle" /\ ~WriteAccepted

BInit ==
    /\ Init
    /\ age = [d \in Device |-> 0] /\ opening = {} /\ batch = {} /\ counted = TRUE

BNext ==
    /\ Next
    /\ age' = [d \in Device |-> IF d \in Told /\ Tick THEN Older(age[d], Hour) ELSE age[d]]
    /\ opening' = IF AllOpen' THEN opening \cup New ELSE {}
    /\ batch' = IF Renews THEN New ELSE batch \cup New
    /\ counted' = (counted /\ faults' = 0 /\ ~Refused)

BSpec == BInit /\ [][BNext]_bvars

\* The limit of the window in charge when all are open, 0 for none.
Limit ==
    LET selecting == {w \in DOMAIN Windows : Windows[w].selects}
        last      == CHOOSE w \in selecting : \A v \in selecting : v <= w
    IN  IF selecting = {} THEN 0 ELSE Windows[last].max

\* The devices told within the last hour.
Lately == {d \in Told : age[d] <= Hour}

\* What ApplyWindow's renewals add up to: over as many reconciles, pauses and
\* moves of the windows as it takes, no more than twice MaxDevicesPerWindow devices
\* are told within any hour, as long as every call is answered and no status is
\* refused because the rollout was edited while the reconcile ran.
HourlyExposure == counted /\ Limit > 0 => Cardinality(Lately) <= 2 * Limit

\* "MaxDevicesPerWindow caps how much can be attempted in one window"
\* (window_types.go:60, of what ApplyWindow counts): no more devices are told while
\* the windows stay open.
WindowLimitHolds == Limit > 0 => Cardinality(opening) <= Limit

\* "MaxConcurrent bounds simultaneous transfers" (firmwarerollout_types.go:111, of the
\* budget in Reconcile): devices that were told and do not run it yet.
TransfersBounded == MaxConcurrent > 0 => Cardinality(Told \ Ran) <= MaxConcurrent
=============================================================================
