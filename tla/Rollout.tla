------------------------------- MODULE Rollout -------------------------------
(***************************************************************************)
(* The FirmwareRollout controller (controller/internal/rollout_controller  *)
(* .go and compose.go) driving one rollout over a fleet, with the API      *)
(* server, the controller's cache and the devices as its environment.      *)
(*                                                                         *)
(* A reconcile is not atomic.  It reads the rollout from the informer      *)
(* cache (typed objects are cached, the unstructured Device and            *)
(* DeviceStatus are read live), judges the maintenance windows, observes   *)
(* the devices, writes the desired firmware to one Device after another    *)
(* and finally writes its status back, which the API server accepts only   *)
(* for the version that was read.  Between any two of these steps devices  *)
(* report, windows move, an operator edits spec.paused, the manager dies.  *)
(*                                                                         *)
(*   Idle -Reconcile-> Window -CheckWindow-> Observe -Observe-> Dispatch   *)
(*        <-- finish -- Finish <----------------'------- Dispatch --'      *)
(*                                                                         *)
(* Simplifications.  Reading the fleet (plan, observe) is one step each.   *)
(* A device's path from desired value to running firmware is the two       *)
(* actions StampTwin and Install.  Time is the ages of the two timestamps  *)
(* the controller compares, saturating one past the limit each is compared *)
(* with.  Requeue delays are left to fairness.  The status fields that are *)
(* only written (Conditions, Step, Target, Updated, Healthy and the lists  *)
(* of outcomes) are left out; Eligible is kept for what Complete claims.   *)
(***************************************************************************)
EXTENDS Planner, Sequences

CONSTANTS
    Device,             \* the devices the selector matches; names are ordered
    LivenessOf,         \* LivenessOf[d]: the livenesses device d can show
    Requires,           \* spec.requires
    SizeBytes,          \* spec.source.sizeBytes
    Canary,             \* spec.strategy.canary
    Steps,              \* spec.strategy.steps
    MaxConcurrent,      \* spec.strategy.maxConcurrent
    HasGate,            \* spec.strategy.healthGate is set
    MustReportWithin,   \* its mustReportWithin, or NoTime
    HealthGateFailures, \* spec.strategy.rollbackOn.healthGateFailures
    BootLoopThreshold,  \* spec.strategy.rollbackOn.bootLoopThreshold
    Windows,            \* MaintenanceWindows in list order: [selects, max]
    Hour,               \* one hour, in the unit of time
    Leftover,           \* devices may still carry an earlier rollout's value
    MaxBoots,           \* MaxBoots[d]: bound on the boot_count of device d
    MaxChurn,           \* bound on liveness changes
    MaxEdits,           \* bound on edits of spec.paused
    MaxFaults,          \* bound on crashes, failed calls and stale reads
    MaxDisturbances     \* bound on the three kinds together

\* The values of firmware_url and running_config_hash: nothing, an earlier
\* release, the release of this rollout (spec.source.configHash).
None == "none"
Old  == "old"
Want == "want"
Value == {None, Old, Want}

ASSUME RolloutAssumption ==
    /\ Device \subseteq Nat /\ IsFiniteSet(Device)
    /\ DOMAIN LivenessOf = Device
    /\ \A d \in Device : LivenessOf[d] # {}
    /\ \A d \in Device : \A l \in LivenessOf[d] :
         l.cap # NoCapability => \A t \in l.cap.transports : t.max \in Nat
    /\ SizeBytes \in Nat
    /\ Canary \in Nat /\ Steps \in Seq(Nat) /\ MaxConcurrent \in Nat
    /\ HasGate \in BOOLEAN
    /\ MustReportWithin \in Nat \cup {NoTime} /\ NoTime \notin Int
    /\ HealthGateFailures \in Nat /\ BootLoopThreshold \in Nat
    /\ Windows \in Seq([selects : BOOLEAN, max : Nat])
    /\ Hour \in Nat /\ Leftover \in BOOLEAN /\ MaxBoots \in [Device -> Nat]
    /\ MaxChurn \in Nat /\ MaxEdits \in Nat /\ MaxFaults \in Nat
    /\ MaxDisturbances \in Nat

VARIABLES
    \* API server
    ro,        \* the FirmwareRollout: spec.paused and the status
    desired,   \* desired[d]: firmware_url on the Device
    running,   \* running[d]: running_config_hash the twin reports
    boots,     \* boots[d]: boot_count the twin reports
    stamp,     \* stamp[d]: age of observedDesired.metadata.timestamp, or NoTime
    liveness,  \* liveness[d]: the DeviceLiveness
    open,      \* the windows that are open
    \* manager
    cached,    \* the rollout as the informer cache holds it
    fresh,     \* cached is the latest version of ro
    pc,        \* where the reconcile is
    loc,       \* the reconcile's copy of the rollout
    held,      \* loc was read at the latest version of ro
    plan,      \* plan.Eligible
    budget,    \* devices the window permits, or Unlimited
    queue,     \* devices nextDevices chose, not yet dispatched
    \* counters of the bounds
    churn, edits, faults

world   == <<desired, running, boots, stamp, liveness, open>>
local   == <<pc, loc, held, plan, budget, queue>>
bounds  == <<churn, edits, faults>>
vars    == <<ro, world, cached, fresh, local, bounds>>

Unlimited == -1
NoWindow  == 0

Phases == {"", "Canary", "Progressing", "Paused", "Waiting", "Blocked", "Complete"}

\* What the fleet's livenesses can be.
Livenesses ==
    {f \in [Device -> UNION {LivenessOf[d] : d \in Device}] :
        \A d \in Device : f[d] \in LivenessOf[d]}

\* What the devices can report as boot_count.
BootCounts ==
    {f \in [Device -> Nat] : \A d \in Device : f[d] <= MaxBoots[d]}

\* spec.paused and the status fields the controller reads back or reports.
NewRollout ==
    [paused |-> FALSE, phase |-> "", eligible |-> 0, blockedBy |-> NoWindow,
     openedAt |-> NoTime, dispatched |-> 0]

Init ==
    /\ ro = NewRollout /\ cached = NewRollout /\ fresh = TRUE
    /\ desired \in [Device -> IF Leftover THEN {None, Old} ELSE {None}]
    /\ running = desired
    /\ boots = [d \in Device |-> 0]
    /\ stamp = [d \in Device |-> NoTime]
    /\ liveness \in Livenesses
    /\ open \in SUBSET DOMAIN Windows
    /\ pc = "Idle" /\ loc = NewRollout /\ held = FALSE
    /\ plan = {} /\ budget = Unlimited /\ queue = {}
    /\ churn = 0 /\ edits = 0 /\ faults = 0

-----------------------------------------------------------------------------
(* What the reconcile computes *)

\* The eligible devices of a plan over the livenesses read now.
Plan == PlanRollout(Requires, SizeBytes, liveness)

\* The last window listed decides alone.
LastWindowDecides ==
    LET w == Len(Windows)
    IN  IF w = 0 THEN [Open |-> TRUE, Window |-> NoWindow, MaxDevices |-> 0]
        ELSE [Open |-> w \in open, Window |-> w, MaxDevices |-> Windows[w].max]

\* The verdict of every window that selects the fleet: any closed one closes,
\* the last one listed names it; when all are open the last one listed is in
\* charge, its limit included.
EvaluateWindowsFor ==
    LET selecting == {w \in DOMAIN Windows : Windows[w].selects}
        closed    == selecting \ open
        last(S)   == CHOOSE w \in S : \A v \in S : v <= w
    IN  IF closed # {}
          THEN [Open |-> FALSE, Window |-> last(closed), MaxDevices |-> 0]
        ELSE IF selecting # {}
          THEN [Open |-> TRUE, Window |-> last(selecting),
                MaxDevices |-> Windows[last(selecting)].max]
        ELSE [Open |-> TRUE, Window |-> NoWindow, MaxDevices |-> 0]

\* A budget that is set up once and never again.
ResetsBudgetOnce(r, d) == r.openedAt = NoTime

\* A budget renewed as soon as it is touched.
ResetsBudgetAtOnce(r, d) ==
    r.openedAt = NoTime \/ (d.Window # NoWindow /\ r.dispatched > 0)

\* status.BlockedBy is cleared before the reset test compares it with the
\* window, as in the code.
ResetsBudget(r, d) ==
    LET unblocked == [r EXCEPT !.blockedBy = NoWindow]
    IN  \/ r.openedAt = NoTime
        \/ /\ d.Window # NoWindow
           /\ unblocked.blockedBy # d.Window
           /\ r.dispatched > 0
           /\ r.openedAt > Hour

\* The rollout after ApplyWindow opened it, before the limit is looked at.
Opened(r, d) ==
    LET reset == ResetsBudget(r, d)
    IN  [r EXCEPT !.blockedBy  = NoWindow,
                  !.openedAt   = IF reset THEN 0 ELSE @,
                  !.dispatched = IF reset THEN 0 ELSE @]

\* Told some firmware: the desired value is not empty.
Updated(S) == {d \in S : desired[d] # None}

BootLooping(d) ==
    HasGate /\ BootLoopThreshold > 0 /\ boots[d] > BootLoopThreshold

Overdue(d) ==
    /\ HasGate /\ MustReportWithin # NoTime /\ stamp[d] # NoTime
    /\ stamp[d] > MustReportWithin

\* The three lists of observe.
Healthy(S) == {d \in Updated(S) : running[d] = Want /\ ~BootLooping(d)}

Failed(S) ==
    {d \in Updated(S) : IF running[d] = Want THEN BootLooping(d) ELSE Overdue(d)}

FailureTolerance == IF HealthGateFailures > 0 THEN HealthGateFailures ELSE 1

StepList == IF Steps = <<>> THEN <<100>> ELSE Steps

\* The steps that still ask for more healthy devices than there are.
OpenSteps(eligible, healthy) ==
    {i \in DOMAIN StepList : healthy < StepSize(eligible, StepList[i])}

\* The step in force and how many devices it permits.
CurrentStep(eligible, healthy) ==
    LET wanting == OpenSteps(eligible, healthy)
        first   == CHOOSE i \in wanting : \A j \in wanting : i <= j
    IN  IF Canary > 0 /\ healthy < Canary
          THEN [idx |-> 1, allowed |-> Canary]
        ELSE IF wanting # {}
          THEN [idx |-> first, allowed |-> StepSize(eligible, StepList[first])]
        ELSE [idx |-> Len(StepList), allowed |-> eligible]

\* The least of the step's room, maxConcurrent and the window's budget.
DispatchBudget(room) ==
    LET capped == IF MaxConcurrent > 0 /\ room > MaxConcurrent
                    THEN MaxConcurrent ELSE room
    IN  IF budget # Unlimited /\ capped > budget THEN budget ELSE capped

\* The first n of S by name, or all of S (the only element of the set).
NextDevices(S, n) ==
    {Q \in SUBSET S :
        /\ Cardinality(Q) <= n
        /\ \A q \in Q, d \in S \ Q : q < d
        /\ Cardinality(Q) = n \/ Q = S}

-----------------------------------------------------------------------------
(* The reconcile *)

\* The bounds still allow a disturbance, and a fault.
MayDisturb == churn + edits + faults < MaxDisturbances
MayFail    == faults < MaxFaults /\ MayDisturb

\* Get, plan and the spec.paused test.  A reconcile of a finished rollout
\* returns without a trace.  Reading a version the cache has not replaced
\* yet is counted as a fault.
Reconcile ==
    /\ pc = "Idle"
    /\ cached.phase # "Complete"
    /\ fresh \/ MayFail
    /\ faults' = IF fresh THEN faults ELSE faults + 1
    /\ held' = fresh
    /\ plan' = Plan.Eligible
    /\ LET planned == [cached EXCEPT !.eligible = Cardinality(Plan.Eligible)]
       IN  IF cached.paused
             THEN /\ loc' = [planned EXCEPT !.phase = "Paused"]
                  /\ pc' = "Finish"
             ELSE loc' = planned /\ pc' = "Window"
    /\ UNCHANGED <<ro, world, cached, fresh, budget, queue, churn, edits>>

\* DeviceLabelsFor, EvaluateWindowsFor and ApplyWindow.
CheckWindow ==
    /\ pc = "Window"
    /\ LET d == EvaluateWindowsFor
           r == Opened(loc, d)
       IN  \/ /\ ~d.Open
              /\ loc' = [loc EXCEPT !.phase = "Blocked", !.blockedBy = d.Window]
              /\ pc' = "Finish" /\ UNCHANGED budget
           \/ /\ d.Open /\ d.MaxDevices > 0 /\ d.MaxDevices <= r.dispatched
              /\ loc' = [r EXCEPT !.phase = "Waiting"]
              /\ pc' = "Finish" /\ UNCHANGED budget
           \/ /\ d.Open /\ (d.MaxDevices > 0 => d.MaxDevices > r.dispatched)
              /\ loc' = r
              /\ budget' = IF d.MaxDevices > 0 THEN d.MaxDevices - r.dispatched
                                               ELSE Unlimited
              /\ pc' = "Observe"
    /\ UNCHANGED <<ro, world, cached, fresh, held, plan, queue, bounds>>

\* A stop condition nobody wired up.
StopsNever(failed) == FALSE

\* Enough failures to stop.
Stops(failed) == Cardinality(failed) >= FailureTolerance

\* Acknowledged taken for running.
AllTold(updated, healthy) == Cardinality(updated) >= Cardinality(plan)

\* Every eligible device is healthy.
AllDone(updated, healthy) == Cardinality(healthy) >= Cardinality(plan)

\* Devices that were told but do not run it yet, forgotten.
RoomIgnoringInFlight(updated, healthy) ==
    CurrentStep(Cardinality(plan), Cardinality(healthy)).allowed - Cardinality(healthy)

\* How many more devices the step in force permits.
Room(updated, healthy) ==
    CurrentStep(Cardinality(plan), Cardinality(healthy)).allowed - Cardinality(updated)

\* A phase that is declared and never reached.
StepPhasePlanning(healthy) == "Planning"

StepPhase(healthy) ==
    IF CurrentStep(Cardinality(plan), Cardinality(healthy)).idx = 1 /\ Canary > 0
      THEN "Canary" ELSE "Progressing"

\* What the observation leads to: the new phase, and the devices to dispatch
\* (the elements of next are the possible queues).
Advance(updated, healthy, failed) ==
    LET room == Room(updated, healthy)
    IN  IF Stops(failed) THEN [phase |-> "Paused", next |-> {{}}]
        ELSE IF plan = {} THEN [phase |-> "Waiting", next |-> {{}}]
        ELSE IF AllDone(updated, healthy) THEN [phase |-> "Complete", next |-> {{}}]
        ELSE [phase |-> StepPhase(healthy),
              next  |-> IF room <= 0 THEN {{}}
                        ELSE NextDevices(plan \ updated, DispatchBudget(room))]

\* What observe returns when every read succeeds, and when one read about d
\* fails: property and dispatchedAt turn the error into "", 0 or a zero time,
\* so d passes for not dispatched, for not running it, for never having
\* booted, or for not overdue.
CleanReading ==
    [updated |-> Updated(plan), healthy |-> Healthy(plan), failed |-> Failed(plan)]

MisreadDevice(d) ==
    [updated |-> Updated(plan) \ {d}, healthy |-> Healthy(plan) \ {d},
     failed  |-> Failed(plan) \ {d}]

MisreadHash(d) ==
    [updated |-> Updated(plan), healthy |-> Healthy(plan) \ {d},
     failed  |-> (Failed(plan) \ {d}) \cup {e \in {d} : Overdue(e)}]

MisreadBoots(d) ==
    [updated |-> Updated(plan), healthy |-> Healthy(plan) \cup {d},
     failed  |-> Failed(plan) \ {d}]

MisreadStamp(d) ==
    [updated |-> Updated(plan), healthy |-> Healthy(plan),
     failed  |-> Failed(plan) \ {d}]

Misreadings(d) ==
    {MisreadDevice(d), MisreadHash(d),
     IF running[d] = Want THEN MisreadBoots(d) ELSE MisreadStamp(d)}

\* observe, the stop conditions and the choice of the devices to dispatch.
Observe ==
    /\ pc = "Observe"
    /\ \E reading \in {CleanReading} \cup UNION {Misreadings(d) : d \in Updated(plan)} :
         LET adv == Advance(reading.updated, reading.healthy, reading.failed)
         IN  /\ \/ reading = CleanReading /\ UNCHANGED faults
                \/ reading # CleanReading
                   /\ MayFail /\ faults' = faults + 1
             /\ loc' = [loc EXCEPT !.phase = adv.phase]
             /\ queue' \in adv.next
             /\ pc' = IF queue' = {} THEN "Finish" ELSE "Dispatch"
    /\ UNCHANGED <<ro, world, cached, fresh, held, plan, budget, churn, edits>>

\* The counter of the window's budget after one more dispatch.
CountDispatch(r) == [r EXCEPT !.dispatched = @ + 1]

\* The first device of the queue: Get the Device, set firmware_url, Update.
\* The write takes effect and is counted, fails and is skipped, or takes
\* effect although its answer is lost and is not counted.
Dispatch ==
    /\ pc = "Dispatch"
    /\ \E d \in queue :
         /\ \A e \in queue : d <= e
         /\ queue' = queue \ {d}
         /\ pc' = IF queue' = {} THEN "Finish" ELSE "Dispatch"
         /\ \/ /\ desired' = [desired EXCEPT ![d] = Want]
               /\ loc' = CountDispatch(loc)
               /\ UNCHANGED faults
            \/ /\ MayFail /\ faults' = faults + 1
               /\ desired' \in {desired, [desired EXCEPT ![d] = Want]}
               /\ UNCHANGED loc
    /\ UNCHANGED <<ro, running, boots, stamp, liveness, open, cached, fresh,
                   held, plan, budget, churn, edits>>

\* The end of a reconcile: nothing of it stays in memory.
Return ==
    /\ pc' = "Idle" /\ loc' = NewRollout /\ held' = FALSE
    /\ plan' = {} /\ budget' = Unlimited /\ queue' = {}

\* Listing the devices or the windows fails: the reconcile returns the error,
\* writes nothing and is retried.
Abort ==
    /\ pc = "Window"
    /\ MayFail /\ faults' = faults + 1
    /\ Return
    /\ UNCHANGED <<ro, world, cached, fresh, churn, edits>>

\* A status write that does not carry the version it was read at.
WriteAnyway == TRUE

\* The API server takes a status write only for the latest version.
WriteAccepted == held

\* finish: Status().Update is refused for any version but the latest, and
\* may fail.  An update that changes nothing makes no new version.
Finish ==
    /\ pc = "Finish"
    /\ \/ /\ WriteAccepted
          /\ ro' = loc
          /\ fresh' = (fresh /\ loc = ro)
          /\ UNCHANGED faults
       \/ /\ ~WriteAccepted
          /\ UNCHANGED <<ro, fresh, faults>>
       \/ /\ MayFail /\ faults' = faults + 1
          /\ UNCHANGED <<ro, fresh>>
    /\ Return
    /\ UNCHANGED <<world, cached, churn, edits>>

\* The manager dies and restarts: its memory is gone, what it wrote is not.
Crash ==
    /\ pc # "Idle"
    /\ MayFail /\ faults' = faults + 1
    /\ Return
    /\ cached' = ro /\ fresh' = TRUE
    /\ UNCHANGED <<ro, world, churn, edits>>

-----------------------------------------------------------------------------
(* The environment *)

\* The watch delivers the latest version of the rollout to the cache.
CacheSync ==
    /\ ~fresh
    /\ cached' = ro /\ fresh' = TRUE
    /\ UNCHANGED <<ro, world, local, bounds>>

\* An operator sets or clears spec.paused.
EditPaused ==
    /\ edits < MaxEdits /\ MayDisturb /\ edits' = edits + 1
    /\ ro' = [ro EXCEPT !.paused = ~@]
    /\ fresh' = FALSE /\ held' = FALSE
    /\ UNCHANGED <<world, cached, pc, loc, plan, budget, queue, churn, faults>>

\* The device has pulled, flashed and booted what it was told, and reports it.
Install(d) ==
    /\ desired[d] # None /\ running[d] # desired[d]
    /\ running' = [running EXCEPT ![d] = desired[d]]
    /\ boots' = [boots EXCEPT ![d] = IF @ < MaxBoots[d] THEN @ + 1 ELSE @]
    /\ UNCHANGED <<ro, desired, stamp, liveness, open, cached, fresh, local, bounds>>

\* The device reboots and reports a higher boot_count.
Reboot(d) ==
    /\ boots[d] < MaxBoots[d]
    /\ boots' = [boots EXCEPT ![d] = @ + 1]
    /\ UNCHANGED <<ro, desired, running, stamp, liveness, open, cached, fresh,
                   local, bounds>>

\* The mapper reports the twin of firmware_url with a new timestamp.
StampTwin(d) ==
    /\ desired[d] # None /\ stamp[d] # 0
    /\ stamp' = [stamp EXCEPT ![d] = 0]
    /\ UNCHANGED <<ro, desired, running, boots, liveness, open, cached, fresh,
                   local, bounds>>

\* The liveness controller changes its opinion of a device.
LivenessChange(d) ==
    /\ churn < MaxChurn /\ MayDisturb /\ churn' = churn + 1
    /\ \E l \in LivenessOf[d] \ {liveness[d]} :
         liveness' = [liveness EXCEPT ![d] = l]
    /\ UNCHANGED <<ro, desired, running, boots, stamp, open, cached, fresh,
                   local, edits, faults>>

\* A maintenance window opens or closes.
MoveWindow(w) ==
    /\ open' = IF w \in open THEN open \ {w} ELSE open \cup {w}
    /\ UNCHANGED <<ro, desired, running, boots, stamp, liveness, cached, fresh,
                   local, bounds>>

\* An age grows, up to one past the limit it is compared with.
Older(age, limit) ==
    IF age = NoTime \/ age > limit THEN age ELSE age + 1

AgeRollout(r) == [r EXCEPT !.openedAt = Older(@, Hour)]

ReportLimit == IF MustReportWithin = NoTime THEN 0 ELSE MustReportWithin

\* Time passes.
Tick ==
    /\ ro' = AgeRollout(ro) /\ cached' = AgeRollout(cached)
    /\ loc' = AgeRollout(loc)
    /\ stamp' = [d \in Device |-> Older(stamp[d], ReportLimit)]
    /\ UNCHANGED <<desired, running, boots, liveness, open, fresh, pc, held,
                   plan, budget, queue, bounds>>

Manager == Reconcile \/ CheckWindow \/ Observe \/ Dispatch \/ Finish

Next ==
    \/ Manager
    \/ Abort
    \/ Crash
    \/ CacheSync
    \/ EditPaused
    \/ \E d \in Device : \/ Install(d) \/ Reboot(d) \/ StampTwin(d)
                         \/ LivenessChange(d)
    \/ \E w \in DOMAIN Windows : MoveWindow(w)
    \/ Tick

Spec == Init /\ [][Next]_vars

\* The controller requeues itself after every reconcile (RequeueAfter, or the
\* error's backoff), watches are delivered, devices carry out what they are
\* told, time passes, and a reconcile that keeps finding a window closed does
\* not miss every opening.
Fairness ==
    /\ WF_vars(Manager) /\ WF_vars(CacheSync) /\ WF_vars(Tick)
    /\ \A d \in Device : WF_vars(Install(d))
    /\ SF_vars(CheckWindow /\ EvaluateWindowsFor.Open)

FairSpec == Spec /\ Fairness

-----------------------------------------------------------------------------
(* Properties *)

Told == {d \in Device : desired[d] = Want}
Ran  == {d \in Device : running[d] = Want}

RolloutType ==
    [paused : BOOLEAN, phase : Phases, eligible : Nat, blockedBy : Nat,
     openedAt : Nat \cup {NoTime}, dispatched : Nat]

\* Type correctness of the store, the cache and the reconcile's memory.
TypeOK ==
    /\ ro \in RolloutType /\ cached \in RolloutType /\ loc \in RolloutType
    /\ desired \in [Device -> Value] /\ running \in [Device -> Value]
    /\ boots \in BootCounts
    /\ stamp \in [Device -> Nat \cup {NoTime}]
    /\ liveness \in Livenesses
    /\ open \subseteq DOMAIN Windows
    /\ fresh \in BOOLEAN /\ held \in BOOLEAN
    /\ pc \in {"Idle", "Window", "Observe", "Dispatch", "Finish"}
    /\ plan \subseteq Device /\ queue \subseteq Device
    /\ budget \in Nat \cup {Unlimited}
    /\ churn \in 0..MaxChurn /\ edits \in 0..MaxEdits /\ faults \in 0..MaxFaults

\* The canary and the steps bound the blast radius (the settle test of
\* Reconcile): while the fleet's eligibility stands still, no more devices
\* have been told than the step permits for the devices that really run the
\* new firmware -- through crashes, failed reads, lost writes and stale copies,
\* and between two dispatches of one reconcile.
StagedExposure ==
    churn = 0 =>
        Cardinality(Told) <=
            CurrentStep(Cardinality(Plan.Eligible),
                        Cardinality(Ran \cap Plan.Eligible)).allowed

\* "Canary is how many devices go first" (firmwarerollout_types.go:95, of the count in
\* observe): until that many run it, no more than that many are told, whether or
\* not a device told stays in the plan.
CanaryGoesFirst ==
    Canary > 0 /\ Cardinality(Ran) < Canary => Cardinality(Told) <= Canary

\* Complete is a statement about running firmware, not about instructions
\* (observe): at least as many devices run this rollout's hash as the status
\* claims were eligible, and at least one.
CompleteMeansRunning ==
    ro.phase = "Complete" =>
        /\ ro.eligible > 0
        /\ ro.eligible <= Cardinality(Ran)

\* d can have an OTA transport that takes an image of this size.
HasDoor(d) ==
    \E l \in LivenessOf[d] :
        /\ l.cap # NoCapability
        /\ \E t \in l.cap.transports : t.ota /\ (t.max = 0 \/ SizeBytes <= t.max)

\* Requires is checked before anything is transmitted (PlanRollout), in every
\* reconcile, over a fleet that changes under it: where OTA is required, no
\* device is ever told that has no OTA transport large enough for the image.
RefusedNeverTold == Requires.ota => \A d \in Told : HasDoor(d)

\* What the rollout promises to whoever watches it from outside.
Promise == INSTANCE StagedUpdate WITH
    told <- Told,
    ran  <- Ran,
    done <- (ro.phase = "Complete")

\* The controller implements StagedUpdate: each device is told at most once,
\* runs only what it was told, and Complete is final, whatever a reconcile
\* that started from a stale or superseded copy goes on to write.
ImplementsStagedUpdate == Promise!Spec

\* From some point on no reconcile gets past the windows.
ShutOut == <>[]~(pc = "Window" /\ EvaluateWindowsFor.Open)

\* A rollout ends (the requeues of Reconcile and the reset of the window's
\* budget): it completes, unless some device stays failed, nobody stays
\* eligible, or an operator or the windows keep it from acting.
RolloutEnds ==
    \/ <>(ro.phase = "Complete")
    \/ <>[](Failed(Plan.Eligible) # {})
    \/ <>[](Plan.Eligible = {})
    \/ <>[](ro.paused)
    \/ ShutOut

\* Failures that stay are noticed (the stop condition of Reconcile): the rollout
\* is found Paused again and again, unless it is over or kept from looking.
FailuresPause ==
    <>[](Cardinality(Failed(Plan.Eligible)) >= FailureTolerance)
        => []<>(ro.phase = "Paused") \/ <>[](ro.phase = "Complete") \/ ShutOut
=============================================================================
