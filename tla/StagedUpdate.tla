---------------------------- MODULE StagedUpdate ----------------------------
(***************************************************************************)
(* What a firmware rollout promises, without plans, windows, caches or     *)
(* status writes: devices are told once, a told device may come to run the *)
(* new firmware, and the rollout may end, for good, once something runs.   *)
(***************************************************************************)
CONSTANT Device

VARIABLES
    told,   \* devices that were told to run the new firmware
    ran,    \* devices that report running it
    done    \* the rollout is complete

vars == <<told, ran, done>>

Init == told = {} /\ ran = {} /\ done = FALSE

Tell(d) ==
    /\ d \notin told
    /\ told' = told \cup {d}
    /\ UNCHANGED <<ran, done>>

Report(d) ==
    /\ d \in told \ ran
    /\ ran' = ran \cup {d}
    /\ UNCHANGED <<told, done>>

Complete ==
    /\ ~done /\ ran # {}
    /\ done' = TRUE
    /\ UNCHANGED <<told, ran>>

Next == Complete \/ \E d \in Device : Tell(d) \/ Report(d)

Spec == Init /\ [][Next]_vars
=============================================================================
