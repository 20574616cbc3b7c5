--------------------------- MODULE RolloutHistory ---------------------------
(***************************************************************************)
(* Rollout with a history variable for what a closed maintenance window    *)
(* promises while a reconcile runs.                                        *)
(***************************************************************************)
EXTENDS Rollout

VARIABLE consent    \* the windows that were open when this reconcile judged them

hvars == <<vars, consent>>

HInit == Init /\ consent = {}

HNext ==
    /\ Next
    /\ consent' = IF pc' = "Idle" THEN {}
                  ELSE IF pc = "Window" /\ pc' # "Window" THEN open ELSE consent

HSpec == HInit /\ [][HNext]_hvars

\* A closed window wins (EvaluateWindowsFor): no device is told by a reconcile
\* that found any selecting window closed.
ClosedWindowWins ==
    [][Told' # Told =>
         \A w \in DOMAIN Windows : Windows[w].selects => w \in consent]_hvars
=============================================================================
