--------------------------- MODULE RolloutProofs ---------------------------
(***************************************************************************)
(* Proofs about Rollout and its histories, for every fleet, strategy, set  *)
(* of windows and bound.                                                   *)
(***************************************************************************)
EXTENDS RolloutHistory, RolloutBudget, NaturalFacts, FiniteSetTheorems, TLAPS

-----------------------------------------------------------------------------
(* Facts about the data *)

\* Every subset of the fleet has a size, and no more members than the fleet.
LEMMA FleetSize ==
    ASSUME NEW S \in SUBSET Device
    PROVE  IsFiniteSet(S) /\ Cardinality(S) \in Nat
<1>1. IsFiniteSet(Device)
  BY RolloutAssumption
<1>2. IsFiniteSet(S)
  BY <1>1, FS_Subset
<1> QED
  BY <1>2, FS_CardinalityType

\* The plan's eligible devices are devices of the fleet.
LEMMA EligibleInFleet ==
    ASSUME TypeOK
    PROVE  Plan.Eligible \subseteq Device
BY DEF TypeOK, Plan, PlanRollout, Livenesses

\* The windows' verdict is a window of the list and a limit.
LEMMA VerdictType ==
    /\ EvaluateWindowsFor.Open \in BOOLEAN
    /\ EvaluateWindowsFor.Window \in Nat
    /\ EvaluateWindowsFor.MaxDevices \in Nat
<1> DEFINE selecting == {w \in DOMAIN Windows : Windows[w].selects}
           closed    == selecting \ open
           last(S)   == CHOOSE w \in S : \A v \in S : v <= w
<1> DEFINE W == [selects : BOOLEAN, max : Nat]
<1>1. Windows \in Seq(W)
  BY RolloutAssumption, Zenon
<1> HIDE DEF W
<1>2. /\ Len(Windows) \in Nat
      /\ DOMAIN Windows = 1..Len(Windows)
      /\ \A w \in DOMAIN Windows : Windows[w] \in W
  BY <1>1
<1>3. \A S \in SUBSET (DOMAIN Windows) : S # {} => last(S) \in S
  <2> SUFFICES ASSUME NEW S \in SUBSET (DOMAIN Windows), S # {}
               PROVE  last(S) \in S
    BY Zenon
  <2>1. S \in SUBSET (0..Len(Windows))
    BY <1>2
  <2>2. \E m \in S : \A y \in S : y <= m
    BY <1>2, <2>1, GreatestNatural
  <2> QED
    BY <2>2, Zenon
<1> HIDE DEF last
<1>4. closed # {} => last(closed) \in Nat
  BY <1>2, <1>3
<1>5. selecting # {} => last(selecting) \in DOMAIN Windows
  BY <1>3
<1>6. selecting # {} => last(selecting) \in Nat
  BY <1>2, <1>5
<1>7. selecting # {} => Windows[last(selecting)].max \in Nat
  BY <1>2, <1>5 DEF W
<1> HIDE DEF selecting, closed
<1>8. EvaluateWindowsFor =
        IF closed # {} THEN [Open |-> FALSE, Window |-> last(closed), MaxDevices |-> 0]
        ELSE IF selecting # {}
          THEN [Open |-> TRUE, Window |-> last(selecting),
                MaxDevices |-> Windows[last(selecting)].max]
        ELSE [Open |-> TRUE, Window |-> NoWindow, MaxDevices |-> 0]
  BY DEF EvaluateWindowsFor, selecting, closed, last
<1> QED
  BY <1>4, <1>6, <1>7, <1>8 DEF NoWindow

-----------------------------------------------------------------------------
(* Types *)

LEMMA NewRolloutType == NewRollout \in RolloutType
BY DEF NewRollout, RolloutType, Phases, NoWindow

\* Ageing a rollout changes nothing but the age.
LEMMA AgeType ==
    ASSUME NEW r \in RolloutType
    PROVE  /\ AgeRollout(r) \in RolloutType
           /\ AgeRollout(r).phase = r.phase
           /\ AgeRollout(r).eligible = r.eligible
<1>1. Hour \in Nat /\ NoTime \notin Int
  BY RolloutAssumption
<1>2. Older(r.openedAt, Hour) \in Nat \cup {NoTime}
  BY <1>1 DEF RolloutType, Older
<1> QED
  BY <1>2 DEF RolloutType, AgeRollout

\* What ApplyWindow makes of a rollout is a rollout.
LEMMA OpenedType ==
    ASSUME NEW r \in RolloutType, NEW d
    PROVE  /\ Opened(r, d) \in RolloutType
           /\ Opened(r, d).phase = r.phase
           /\ Opened(r, d).eligible = r.eligible
BY DEF Opened, RolloutType, NoWindow

\* Whatever observe reads, it reads about the planned devices.
LEMMA ReadingType ==
    ASSUME TypeOK,
           NEW reading \in {CleanReading}
                 \cup UNION {Misreadings(d) : d \in Updated(plan)}
    PROVE  /\ reading.updated \subseteq plan
           /\ reading.healthy \subseteq plan \cap Ran
           /\ reading.failed \subseteq plan
<1>1. CASE reading = CleanReading
  BY <1>1 DEF TypeOK, CleanReading, Updated, Healthy, Failed, Ran
<1>2. CASE \E d \in Updated(plan) : reading \in Misreadings(d)
  <2>1. PICK d \in Updated(plan) : reading \in Misreadings(d)
    BY <1>2
  <2>2. d \in plan /\ plan \subseteq Device
    BY DEF TypeOK, Updated
  <2>3. CASE reading = MisreadDevice(d)
    BY <2>2, <2>3 DEF MisreadDevice, Updated, Healthy, Failed, Ran
  <2>4. CASE reading = MisreadHash(d)
    BY <2>2, <2>4 DEF MisreadHash, Updated, Healthy, Failed, Ran
  <2>5. CASE reading = MisreadBoots(d) /\ running[d] = Want
    BY <2>2, <2>5 DEF MisreadBoots, Updated, Healthy, Failed, Ran
  <2>6. CASE reading = MisreadStamp(d)
    BY <2>2, <2>6 DEF MisreadStamp, Updated, Healthy, Failed, Ran
  <2> QED
    BY <2>1, <2>3, <2>4, <2>5, <2>6 DEF Misreadings
<1> QED
  BY <1>1, <1>2

\* The phase an observation leads to, and the devices it has dispatched.
LEMMA AdvanceType ==
    ASSUME NEW u, NEW h, NEW f, NEW Q \in Advance(u, h, f).next
    PROVE  /\ Advance(u, h, f).phase \in {"Paused", "Waiting", "Complete",
                                           "Canary", "Progressing"}
           /\ Q \subseteq plan
           /\ Advance(u, h, f).phase = "Complete" =>
                 plan # {} /\ AllDone(u, h) /\ Q = {}
BY DEF Advance, StepPhase, NextDevices

\* A reconcile that ended leaves empty memory.
LEMMA ReturnType ==
    ASSUME Return
    PROVE  /\ pc' = "Idle" /\ loc' \in RolloutType /\ held' \in BOOLEAN
           /\ plan' \subseteq Device /\ queue' \subseteq Device
           /\ budget' \in Nat \cup {Unlimited}
BY NewRolloutType DEF Return

\* The manager's steps keep the types.
LEMMA ManagerType ==
    ASSUME TypeOK, Manager \/ Abort \/ Crash
    PROVE  TypeOK'
<1>0. MaxFaults \in Nat
  BY RolloutAssumption
<1>1. CASE Reconcile
  <2>1. plan' \subseteq Device
    BY <1>1, EligibleInFleet DEF Reconcile
  <2>2. Cardinality(Plan.Eligible) \in Nat
    BY EligibleInFleet, FleetSize
  <2>3. loc' \in RolloutType
    BY <1>1, <2>2 DEF Reconcile, TypeOK, RolloutType, Phases
  <2>4. faults' \in 0..MaxFaults /\ held' \in BOOLEAN
        /\ pc' \in {"Window", "Finish"}
    BY <1>0, <1>1 DEF Reconcile, MayFail, TypeOK
  <2> QED
    BY <1>1, <2>1, <2>3, <2>4 DEF Reconcile, TypeOK, world
<1>2. CASE CheckWindow
  <2> DEFINE d == EvaluateWindowsFor
             r == Opened(loc, d)
  <2>1. d.Open \in BOOLEAN /\ d.Window \in Nat /\ d.MaxDevices \in Nat
    BY VerdictType
  <2>2. loc \in RolloutType /\ r \in RolloutType
    BY OpenedType DEF TypeOK
  <2> HIDE DEF d, r
  <2>3. loc' \in RolloutType
    BY <1>2, <2>1, <2>2 DEF CheckWindow, RolloutType, Phases, d, r
  <2>4. budget' \in Nat \cup {Unlimited}
    <3>1. r.dispatched \in Nat
      BY <2>2 DEF RolloutType
    <3>2. d.MaxDevices > r.dispatched => d.MaxDevices - r.dispatched \in Nat
      BY <2>1, <3>1
    <3> QED
      BY <1>2, <3>2 DEF CheckWindow, TypeOK, d, r
  <2>5. pc' \in {"Observe", "Finish"}
    BY <1>2 DEF CheckWindow
  <2> QED
    BY <1>2, <2>3, <2>4, <2>5 DEF CheckWindow, TypeOK, world, bounds
<1>3. CASE Observe
  <2>1. PICK reading \in {CleanReading}
                 \cup UNION {Misreadings(d) : d \in Updated(plan)} :
          LET adv == Advance(reading.updated, reading.healthy, reading.failed)
          IN  /\ faults' \in {faults, faults + 1} /\ (faults' # faults => faults < MaxFaults)
              /\ loc' = [loc EXCEPT !.phase = adv.phase]
              /\ queue' \in adv.next
              /\ pc' = IF queue' = {} THEN "Finish" ELSE "Dispatch"
    BY <1>3 DEF Observe, MayFail
  <2> DEFINE adv == Advance(reading.updated, reading.healthy, reading.failed)
  <2>4. queue' \subseteq plan /\ adv.phase \in Phases
    BY <2>1, AdvanceType DEF Phases
  <2> HIDE DEF adv
  <2>2. queue' \subseteq plan /\ loc' \in RolloutType
    BY <2>1, <2>4 DEF TypeOK, RolloutType, adv
  <2>3. faults' \in 0..MaxFaults
    BY <1>0, <2>1 DEF TypeOK
  <2> QED
    BY <1>3, <2>1, <2>2, <2>3 DEF Observe, TypeOK, world
<1>4. CASE Dispatch
  <2>1. PICK d \in queue :
          /\ queue' = queue \ {d}
          /\ pc' \in {"Finish", "Dispatch"}
          /\ desired' \in {desired, [desired EXCEPT ![d] = Want]}
          /\ loc' \in {loc, CountDispatch(loc)}
          /\ faults' = faults \/ (faults < MaxFaults /\ faults' = faults + 1)
    BY <1>4 DEF Dispatch, MayFail
  <2>2. loc' \in RolloutType
    BY <2>1 DEF TypeOK, RolloutType, CountDispatch
  <2>3. desired' \in [Device -> Value]
    BY <2>1 DEF TypeOK, Value, Want
  <2>4. faults' \in 0..MaxFaults
    BY <1>0, <2>1 DEF TypeOK
  <2> QED
    BY <1>4, <2>1, <2>2, <2>3, <2>4 DEF Dispatch, TypeOK
<1>5. CASE Finish
  <2>1. ro' \in RolloutType
    BY <1>5 DEF Finish, TypeOK
  <2>2. fresh' \in BOOLEAN
    BY <1>5, Zenon DEF Finish, TypeOK
  <2>3. faults' \in 0..MaxFaults
    BY <1>0, <1>5 DEF Finish, MayFail, TypeOK
  <2> QED
    BY <1>5, <2>1, <2>2, <2>3, ReturnType DEF Finish, TypeOK, world
<1>6. CASE Abort
  <2>1. faults' \in 0..MaxFaults
    BY <1>0, <1>6 DEF Abort, MayFail, TypeOK
  <2> QED
    BY <1>6, <2>1, ReturnType DEF Abort, TypeOK, world
<1>7. CASE Crash
  <2>1. faults' \in 0..MaxFaults
    BY <1>0, <1>7 DEF Crash, MayFail, TypeOK
  <2> QED
    BY <1>7, <2>1, ReturnType DEF Crash, TypeOK, world
<1> QED
  BY <1>1, <1>2, <1>3, <1>4, <1>5, <1>6, <1>7 DEF Manager

\* The environment's steps keep the types.
LEMMA EnvironmentType ==
    ASSUME TypeOK,
           \/ CacheSync \/ EditPaused \/ Tick
           \/ \E d \in Device : Install(d) \/ Reboot(d) \/ StampTwin(d) \/ LivenessChange(d)
           \/ \E w \in DOMAIN Windows : MoveWindow(w)
    PROVE  TypeOK'
<1>0. /\ MaxBoots \in [Device -> Nat] /\ MaxEdits \in Nat /\ MaxChurn \in Nat
      /\ MustReportWithin \in Nat \cup {NoTime} /\ NoTime \notin Int
  BY RolloutAssumption
<1>1. CASE CacheSync
  BY <1>1 DEF CacheSync, TypeOK, world, local, bounds
<1>2. CASE EditPaused
  <2>1. (~ ro.paused) \in BOOLEAN
    BY Zenon
  <2>2. ro' \in RolloutType
    BY <1>2, <2>1 DEF EditPaused, TypeOK, RolloutType
  <2>3. edits' \in 0..MaxEdits
    BY <1>0, <1>2 DEF EditPaused, TypeOK
  <2> QED
    BY <1>2, <2>2, <2>3 DEF EditPaused, TypeOK, world
<1>3. CASE Tick
  <2>1. ro' \in RolloutType /\ cached' \in RolloutType /\ loc' \in RolloutType
    BY <1>3, AgeType DEF Tick, TypeOK
  <2>2. ReportLimit \in Nat
    BY <1>0 DEF ReportLimit
  <2>3. \A d \in Device : Older(stamp[d], ReportLimit) \in Nat \cup {NoTime}
    BY <1>0, <2>2 DEF TypeOK, Older
  <2>4. stamp' \in [Device -> Nat \cup {NoTime}]
    BY <1>3, <2>3 DEF Tick
  <2> QED
    BY <1>3, <2>1, <2>4 DEF Tick, TypeOK, bounds
<1>4. ASSUME NEW d \in Device, Install(d) PROVE TypeOK'
  <2>1. running' \in [Device -> Value] /\ boots' \in BootCounts
    BY <1>0, <1>4 DEF Install, TypeOK, BootCounts
  <2> QED
    BY <1>4, <2>1 DEF Install, TypeOK, local, bounds
<1>5. ASSUME NEW d \in Device, Reboot(d) PROVE TypeOK'
  <2>1. boots' \in BootCounts
    BY <1>0, <1>5 DEF Reboot, TypeOK, BootCounts
  <2> QED
    BY <1>5, <2>1 DEF Reboot, TypeOK, local, bounds
<1>6. ASSUME NEW d \in Device, StampTwin(d) PROVE TypeOK'
  <2>1. stamp' \in [Device -> Nat \cup {NoTime}]
    BY <1>6 DEF StampTwin, TypeOK
  <2> QED
    BY <1>6, <2>1 DEF StampTwin, TypeOK, local, bounds
<1>7. ASSUME NEW d \in Device, LivenessChange(d) PROVE TypeOK'
  <2>1. PICK l \in LivenessOf[d] : liveness' = [liveness EXCEPT ![d] = l]
    BY <1>7 DEF LivenessChange
  <2>2. liveness' \in Livenesses
    BY <2>1 DEF TypeOK, Livenesses
  <2>3. churn' \in 0..MaxChurn
    BY <1>0, <1>7 DEF LivenessChange, TypeOK
  <2> QED
    BY <1>7, <2>2, <2>3 DEF LivenessChange, TypeOK, local
<1>8. ASSUME NEW w \in DOMAIN Windows, MoveWindow(w) PROVE TypeOK'
  BY <1>8 DEF MoveWindow, TypeOK, local, bounds
<1> QED
  BY <1>1, <1>2, <1>3, <1>4, <1>5, <1>6, <1>7, <1>8

\* Every state a rollout can reach is well typed: no reconcile, crash or edit
\* leaves a status, a budget or a plan outside its type.
THEOREM TypeCorrect == Spec => []TypeOK
<1>1. Init => TypeOK
  <2> SUFFICES ASSUME Init PROVE TypeOK
    OBVIOUS
  <2>1. desired \in [Device -> Value] /\ running \in [Device -> Value]
    BY DEF Init, Value, None, Old, Want
  <2>2. boots \in BootCounts /\ stamp \in [Device -> Nat \cup {NoTime}]
    BY RolloutAssumption DEF Init, BootCounts
  <2>3. churn \in 0..MaxChurn /\ edits \in 0..MaxEdits /\ faults \in 0..MaxFaults
    BY RolloutAssumption DEF Init
  <2> QED
    BY <2>1, <2>2, <2>3, NewRolloutType DEF Init, TypeOK
<1>2. TypeOK /\ [Next]_vars => TypeOK'
  <2> SUFFICES ASSUME TypeOK, [Next]_vars PROVE TypeOK'
    OBVIOUS
  <2>1. CASE Next
    BY <2>1, ManagerType, EnvironmentType DEF Next
  <2>2. CASE UNCHANGED vars
    BY <2>2 DEF TypeOK, vars, world, local, bounds
  <2> QED
    BY <2>1, <2>2
<1> QED
  BY <1>1, <1>2, PTL DEF Spec

-----------------------------------------------------------------------------
(* The inductive invariant *)

\* What a rollout that calls itself complete claims.
Claim(r) ==
    r.phase = "Complete" => r.eligible > 0 /\ r.eligible <= Cardinality(Ran)

\* The reconcile's memory is what it planned; it turns Complete in its last
\* step only, and then with as many devices running as it planned.
MemoryInv ==
    /\ pc # "Idle" => loc.eligible = Cardinality(plan)
    /\ pc # "Finish" => loc.phase # "Complete"
    /\ Claim(loc) /\ Claim(ro)

\* A cache that is up to date holds the stored rollout, and a reconcile that
\* holds the latest version did not start from a finished one.
VersionInv ==
    /\ fresh => cached = ro
    /\ pc # "Idle" /\ held => ro.phase # "Complete"

\* Devices run this release only when told to.
RanWereTold == Ran \subseteq Told

\* Whoever was told, is about to be told or is planned can take the image.
DoorInv ==
    /\ queue \subseteq plan
    /\ pc # "Dispatch" => queue = {}
    /\ Requires.ota => \A d \in Told \cup plan : HasDoor(d)

RolloutInv == MemoryInv /\ VersionInv /\ RanWereTold /\ DoorInv

\* A device the plan calls eligible has a transport for the image.
LEMMA EligibleHasDoor ==
    ASSUME TypeOK, Requires.ota, NEW d \in Plan.Eligible
    PROVE  HasDoor(d)
<1> DEFINE l == liveness[d]
<1>1. d \in Device /\ PlanReason(Requires, SizeBytes, l) = ""
  BY DEF TypeOK, Livenesses, Plan, PlanRollout
<1>2. l \in LivenessOf[d]
  BY <1>1 DEF TypeOK, Livenesses
<1> HIDE DEF l
<1>3. l.cap # NoCapability /\ CanAcceptOTA(l.cap, SizeBytes)
  BY <1>1 DEF PlanReason, OTARefusal
<1>4. PICK t \in l.cap.transports :
        t.ota /\ ~(SizeBytes > 0 /\ t.max > 0 /\ SizeBytes > t.max)
  BY <1>3 DEF CanAcceptOTA
<1>5. t.max \in Nat /\ SizeBytes \in Nat
  BY <1>1, <1>2, <1>3, RolloutAssumption
<1>6. t.max = 0 \/ SizeBytes <= t.max
  BY <1>4, <1>5
<1> QED
  BY <1>2, <1>3, <1>4, <1>6 DEF HasDoor

\* Where nobody stops running the release, no fewer devices run it.
LEMMA RanGrows ==
    ASSUME Ran \subseteq Ran'
    PROVE  /\ Cardinality(Ran) \in Nat /\ Cardinality(Ran)' \in Nat
           /\ Cardinality(Ran) <= Cardinality(Ran)'
<1>1. Ran \subseteq Device /\ Ran' \subseteq Device
  BY DEF Ran
<1>2. IsFiniteSet(Ran') /\ Cardinality(Ran') \in Nat
  BY <1>1, FleetSize
<1>3. Cardinality(Ran) \in Nat
  BY <1>1, FleetSize
<1>4. Cardinality(Ran) <= Cardinality(Ran')
  BY <1>2, FS_Subset
<1> QED
  BY <1>2, <1>3, <1>4

\* Only Install and Dispatch touch what the devices are told and run, and
\* neither takes anything back.
LEMMA ToldRanStep ==
    ASSUME TypeOK, RanWereTold, [Next]_vars
    PROVE  Told \subseteq Told' /\ Ran \subseteq Ran' /\ RanWereTold'
<1>1. CASE Dispatch
  <2>1. PICK d \in queue : desired' \in {desired, [desired EXCEPT ![d] = Want]}
    BY <1>1 DEF Dispatch
  <2>2. Told \subseteq Told' /\ running' = running
    BY <1>1, <2>1 DEF Dispatch, TypeOK, Told
  <2> QED
    BY <2>2 DEF RanWereTold, Ran
<1>2. ASSUME NEW d \in Device, Install(d)
      PROVE  Told \subseteq Told' /\ Ran \subseteq Ran' /\ RanWereTold'
  <2>1. desired' = desired /\ running' = [running EXCEPT ![d] = desired[d]]
    BY <1>2 DEF Install
  <2>2. Told' = Told
    BY <2>1 DEF Told
  <2>3. d \in Ran => desired[d] = Want
    BY DEF RanWereTold, Told
  <2>4. Ran \subseteq Ran' /\ Ran' \subseteq Told
    BY <2>1, <2>3 DEF RanWereTold, Ran, Told, TypeOK
  <2> QED
    BY <2>2, <2>4 DEF RanWereTold
<1>3. CASE UNCHANGED <<desired, running>>
  <2>1. Told' = Told /\ Ran' = Ran
    BY <1>3 DEF Told, Ran
  <2> QED
    BY <2>1 DEF RanWereTold
<1>4. Dispatch \/ (\E d \in Device : Install(d)) \/ UNCHANGED <<desired, running>>
  BY DEF Next, vars, world, Manager, Reconcile, CheckWindow, Observe, Finish,
         Abort, Crash, CacheSync, EditPaused, Reboot, StampTwin,
         LivenessChange, MoveWindow, Tick
<1> QED
  BY <1>1, <1>2, <1>3, <1>4

\* A reconcile only ever calls complete what it saw running.
LEMMA MemoryStep ==
    ASSUME TypeOK, TypeOK', RanWereTold, MemoryInv, [Next]_vars
    PROVE  MemoryInv'
<1> DEFINE Stands(r) ==
             r.phase = "Complete" => r.eligible > 0 /\ r.eligible <= Cardinality(Ran)'
<1>a. Ran \subseteq Ran'
  BY ToldRanStep
<1>b. Stands(ro) /\ Stands(loc)
  BY <1>a, RanGrows DEF MemoryInv, Claim, TypeOK, RolloutType
<1>c. MemoryInv' = ( /\ pc' # "Idle" => loc'.eligible = Cardinality(plan')
                     /\ pc' # "Finish" => loc'.phase # "Complete"
                     /\ Stands(loc') /\ Stands(ro') )
  BY DEF MemoryInv, Claim
<1>d. NewRollout.phase # "Complete"
  BY DEF NewRollout
<1>1. CASE Reconcile
  <2>1. loc'.phase # "Complete" /\ loc'.eligible = Cardinality(plan')
    BY <1>1 DEF Reconcile, TypeOK, RolloutType
  <2> QED
    BY <1>b, <1>c, <1>1, <2>1 DEF Reconcile
<1>2. CASE CheckWindow
  <2>1. loc'.phase # "Complete" /\ loc'.eligible = loc.eligible
    <3> DEFINE d == EvaluateWindowsFor
               r == Opened(loc, d)
    <3>1. r \in RolloutType /\ r.phase = loc.phase /\ r.eligible = loc.eligible
          /\ loc \in RolloutType /\ loc.phase # "Complete"
      BY <1>2, OpenedType DEF TypeOK, CheckWindow, MemoryInv
    <3>2. \/ loc' = [loc EXCEPT !.phase = "Blocked", !.blockedBy = d.Window]
          \/ loc' = [r EXCEPT !.phase = "Waiting"]
          \/ loc' = r
      BY <1>2 DEF CheckWindow
    <3> HIDE DEF r, d
    <3> QED
      BY <3>1, <3>2 DEF RolloutType
  <2>2. plan' = plan /\ ro' = ro /\ pc # "Idle"
    BY <1>2 DEF CheckWindow
  <2> QED
    BY <1>b, <1>c, <2>1, <2>2 DEF MemoryInv
<1>3. CASE Observe
  <2>1. PICK reading \in {CleanReading}
                 \cup UNION {Misreadings(d) : d \in Updated(plan)} :
          /\ loc' = [loc EXCEPT !.phase =
                       Advance(reading.updated, reading.healthy, reading.failed).phase]
          /\ queue' \in Advance(reading.updated, reading.healthy, reading.failed).next
          /\ pc' = IF queue' = {} THEN "Finish" ELSE "Dispatch"
    BY <1>3 DEF Observe
  <2>2. /\ pc = "Observe" /\ plan' = plan /\ ro' = ro /\ running' = running
        /\ loc.eligible = Cardinality(plan)
    BY <1>3 DEF Observe, world, MemoryInv
  <2>3. loc'.eligible = loc.eligible
        /\ loc'.phase = Advance(reading.updated, reading.healthy, reading.failed).phase
    BY <2>1 DEF TypeOK, RolloutType
  <2>4. loc'.phase = "Complete" =>
          plan # {} /\ AllDone(reading.updated, reading.healthy) /\ queue' = {}
    <3> DEFINE adv == Advance(reading.updated, reading.healthy, reading.failed)
    <3>1. \A Q \in adv.next : adv.phase = "Complete" =>
            plan # {} /\ AllDone(reading.updated, reading.healthy) /\ Q = {}
      BY AdvanceType
    <3> QED
      BY <2>1, <2>3, <3>1, Zenon
  <2>5. AllDone(reading.updated, reading.healthy) => Cardinality(plan) <= Cardinality(Ran)
    <3>1. reading.healthy \subseteq Ran /\ Ran \subseteq Device /\ plan \subseteq Device
      BY ReadingType DEF Ran, TypeOK
    <3>2. /\ Cardinality(Ran) \in Nat /\ IsFiniteSet(Ran) /\ Cardinality(plan) \in Nat
          /\ Cardinality(reading.healthy) \in Nat
      BY <3>1, FleetSize
    <3>3. Cardinality(reading.healthy) <= Cardinality(Ran)
      BY <3>1, <3>2, FS_Subset
    <3> QED
      BY <3>2, <3>3 DEF AllDone
  <2>6. plan # {} => Cardinality(plan) > 0
    <3>1. IsFiniteSet(plan) /\ Cardinality(plan) \in Nat
      BY FleetSize DEF TypeOK
    <3> QED
      BY <3>1, FS_EmptySet
  <2>7. Ran' = Ran
    BY <2>2 DEF Ran
  <2>8. Stands(loc')
    BY <2>2, <2>3, <2>4, <2>5, <2>6, <2>7
  <2> QED
    BY <1>b, <1>c, <2>1, <2>2, <2>3, <2>4, <2>8
<1>4. CASE Dispatch
  <2>1. loc'.phase = loc.phase /\ loc'.eligible = loc.eligible
    BY <1>4 DEF Dispatch, CountDispatch, TypeOK, RolloutType
  <2>2. plan' = plan /\ ro' = ro /\ pc = "Dispatch"
    BY <1>4 DEF Dispatch
  <2> QED
    BY <1>b, <1>c, <2>1, <2>2 DEF MemoryInv
<1>5. CASE Finish
  <2>1. ro' \in {ro, loc} /\ pc' = "Idle" /\ loc' = NewRollout
    BY <1>5 DEF Finish, Return
  <2> QED
    BY <1>b, <1>c, <1>d, <2>1
<1>6. CASE Abort \/ Crash
  <2>1. ro' = ro /\ pc' = "Idle" /\ loc' = NewRollout
    BY <1>6 DEF Abort, Crash, Return
  <2> QED
    BY <1>b, <1>c, <1>d, <2>1
<1>7. CASE EditPaused
  <2>1. ro'.phase = ro.phase /\ ro'.eligible = ro.eligible
        /\ pc' = pc /\ loc' = loc /\ plan' = plan
    BY <1>7 DEF EditPaused, TypeOK, RolloutType
  <2> QED
    BY <1>b, <1>c, <2>1 DEF MemoryInv
<1>8. CASE Tick
  <2>1. /\ ro'.phase = ro.phase /\ ro'.eligible = ro.eligible
        /\ loc'.phase = loc.phase /\ loc'.eligible = loc.eligible
        /\ pc' = pc /\ plan' = plan
    BY <1>8, AgeType DEF Tick, TypeOK
  <2> QED
    BY <1>b, <1>c, <2>1 DEF MemoryInv
<1>9. CASE UNCHANGED <<ro, pc, loc, plan>>
  BY <1>b, <1>c, <1>9 DEF MemoryInv
<1> QED
  <2>1. \/ Manager \/ Abort \/ Crash \/ EditPaused \/ Tick
        \/ UNCHANGED <<ro, pc, loc, plan>>
    BY DEF Next, vars, local, CacheSync, Install, Reboot, StampTwin,
           LivenessChange, MoveWindow
  <2> QED
    BY <1>1, <1>2, <1>3, <1>4, <1>5, <1>6, <1>7, <1>8, <1>9, <2>1 DEF Manager

\* Optimistic locking: no step makes a current cache differ from the store, or
\* lets a reconcile hold the latest version of a finished rollout.
LEMMA VersionStep ==
    ASSUME TypeOK, TypeOK', VersionInv, [Next]_vars
    PROVE  VersionInv'
<1>1. CASE Reconcile
  <2>1. held' = fresh /\ cached.phase # "Complete"
        /\ ro' = ro /\ cached' = cached /\ fresh' = fresh
    BY <1>1 DEF Reconcile
  <2> QED
    BY <2>1 DEF VersionInv
<1>2. CASE Finish
  <2>1. pc' = "Idle" /\ cached' = cached
        /\ \/ ro' = loc /\ fresh' = (fresh /\ loc = ro)
           \/ UNCHANGED <<ro, fresh>>
    BY <1>2 DEF Finish, Return
  <2> QED
    <3>1. fresh' => cached' = ro'
      BY <2>1, Zenon DEF VersionInv
    <3> QED
      BY <2>1, <3>1, Zenon DEF VersionInv
<1>3. CASE Abort \/ Crash
  <2>1. pc' = "Idle" /\ ro' = ro
        /\ \/ UNCHANGED <<cached, fresh>>
           \/ cached' = ro /\ fresh' = TRUE
    BY <1>3 DEF Abort, Crash, Return
  <2> QED
    BY <2>1 DEF VersionInv
<1>4. CASE CacheSync
  BY <1>4 DEF CacheSync, local, VersionInv
<1>5. CASE EditPaused
  BY <1>5 DEF EditPaused, VersionInv
<1>6. CASE Tick
  <2>1. ro'.phase = ro.phase /\ UNCHANGED <<fresh, pc, held>>
        /\ ro' = AgeRollout(ro) /\ cached' = AgeRollout(cached)
    BY <1>6, AgeType DEF Tick, TypeOK
  <2> QED
    BY <2>1 DEF VersionInv
<1>7. CASE CheckWindow \/ Observe \/ Dispatch
  <2>1. UNCHANGED <<ro, cached, fresh, held>> /\ pc # "Idle"
    BY <1>7 DEF CheckWindow, Observe, Dispatch
  <2> QED
    BY <2>1 DEF VersionInv
<1>8. CASE UNCHANGED <<ro, cached, fresh, held, pc>>
  BY <1>8 DEF VersionInv
<1> QED
  <2>1. \/ Manager \/ Abort \/ Crash \/ CacheSync \/ EditPaused \/ Tick
        \/ UNCHANGED <<ro, cached, fresh, held, pc>>
    BY DEF Next, vars, local, Install, Reboot, StampTwin, LivenessChange, MoveWindow
  <2> QED
    BY <1>1, <1>2, <1>3, <1>4, <1>5, <1>6, <1>7, <1>8, <2>1 DEF Manager

\* Nobody without a transport for the image is planned or told.
LEMMA DoorStep ==
    ASSUME TypeOK, TypeOK', DoorInv, [Next]_vars
    PROVE  DoorInv'
<1>1. CASE Reconcile
  <2>1. plan' = Plan.Eligible /\ desired' = desired /\ queue' = queue /\ pc = "Idle"
    BY <1>1 DEF Reconcile, world
  <2>2. Requires.ota => \A d \in Plan.Eligible : HasDoor(d)
    BY EligibleHasDoor
  <2>3. Told' = Told
    BY <2>1 DEF Told
  <2> QED
    BY <2>1, <2>2, <2>3 DEF DoorInv
<1>2. CASE Observe
  <2>1. PICK reading \in {CleanReading}
                 \cup UNION {Misreadings(d) : d \in Updated(plan)} :
          /\ queue' \in Advance(reading.updated, reading.healthy, reading.failed).next
          /\ pc' = IF queue' = {} THEN "Finish" ELSE "Dispatch"
    BY <1>2 DEF Observe
  <2>2. queue' \subseteq plan
    <3>1. \A Q \in Advance(reading.updated, reading.healthy, reading.failed).next :
            Q \subseteq plan
      BY AdvanceType
    <3> QED
      BY <2>1, <3>1, Zenon
  <2>3. Told' = Told /\ plan' = plan
    BY <1>2 DEF Observe, world, Told
  <2> QED
    BY <2>1, <2>2, <2>3 DEF DoorInv
<1>3. CASE Dispatch
  <2>1. PICK d \in queue :
          /\ queue' = queue \ {d}
          /\ pc' = IF queue' = {} THEN "Finish" ELSE "Dispatch"
          /\ desired' \in {desired, [desired EXCEPT ![d] = Want]}
          /\ plan' = plan
    BY <1>3 DEF Dispatch
  <2>2. Told' \subseteq Told \cup {d}
    BY <2>1 DEF Told, TypeOK
  <2> QED
    BY <2>1, <2>2 DEF DoorInv
<1>4. CASE Finish \/ Abort \/ Crash
  <2>1. queue' = {} /\ plan' = {} /\ Told' = Told
    BY <1>4 DEF Finish, Abort, Crash, Return, world, Told
  <2> QED
    BY <2>1 DEF DoorInv
<1>5. CASE CheckWindow
  <2>1. UNCHANGED <<queue, plan>> /\ Told' = Told /\ pc = "Window"
    BY <1>5 DEF CheckWindow, world, Told
  <2> QED
    BY <2>1 DEF DoorInv
<1>6. CASE UNCHANGED <<queue, plan, desired, pc>>
  <2>1. Told' = Told
    BY <1>6 DEF Told
  <2> QED
    BY <1>6, <2>1 DEF DoorInv
<1> QED
  <2>1. Manager \/ Abort \/ Crash \/ UNCHANGED <<queue, plan, desired, pc>>
    BY DEF Next, vars, world, local, CacheSync, EditPaused, Tick, Install, Reboot,
           StampTwin, LivenessChange, MoveWindow
  <2> QED
    BY <1>1, <1>2, <1>3, <1>4, <1>5, <1>6, <2>1 DEF Manager

\* The invariant is inductive relative to the types.
LEMMA RolloutInvariant == Spec => [](TypeOK /\ RolloutInv)
<1>1. Init => RolloutInv
  <2> SUFFICES ASSUME Init PROVE RolloutInv
    OBVIOUS
  <2>1. Told = {} /\ Ran = {}
    BY DEF Init, Told, Ran, None, Old, Want
  <2>2. MemoryInv /\ VersionInv
    BY DEF Init, MemoryInv, VersionInv, Claim, NewRollout
  <2> QED
    BY <2>1, <2>2 DEF Init, RolloutInv, RanWereTold, DoorInv
<1>2. TypeOK /\ TypeOK' /\ RolloutInv /\ [Next]_vars => RolloutInv'
  BY ToldRanStep, MemoryStep, VersionStep, DoorStep DEF RolloutInv
<1> QED
  BY <1>1, <1>2, TypeCorrect, PTL DEF Spec

-----------------------------------------------------------------------------
(* What follows *)

\* Complete is a statement about running firmware: a status that says so
\* counts no more eligible devices than run the release, and at least one --
\* although the reconcile that wrote it may have read at different moments,
\* misread some devices, and been overtaken by others.
THEOREM CompleteIsTrue == Spec => []CompleteMeansRunning
<1>1. RolloutInv => CompleteMeansRunning
  BY DEF RolloutInv, MemoryInv, Claim, CompleteMeansRunning
<1> QED
  BY <1>1, RolloutInvariant, PTL

\* No device is told that could never have taken the image.
THEOREM RefusedStayUntold == Spec => []RefusedNeverTold
<1>1. RolloutInv => RefusedNeverTold
  BY DEF RolloutInv, DoorInv, RefusedNeverTold
<1> QED
  BY <1>1, RolloutInvariant, PTL

\* Seen from outside, the controller is a StagedUpdate: it tells a device once,
\* a device runs the release only after being told, Complete comes only after
\* something runs, and it is final -- a reconcile that began from an older
\* version cannot take it back, because its write is refused.
THEOREM Implements == Spec => ImplementsStagedUpdate
<1>1. Init => Promise!Init
  <2> SUFFICES ASSUME Init PROVE Promise!Init
    OBVIOUS
  <2>1. Told = {} /\ Ran = {}
    BY DEF Init, Told, Ran, None, Old, Want
  <2>2. ~ (ro.phase = "Complete")
    BY DEF Init, NewRollout
  <2> QED
    BY <2>1, <2>2, Zenon DEF Promise!Init
<1>2. TypeOK /\ RolloutInv /\ [Next]_vars => [Promise!Next]_(Promise!vars)
  <2> SUFFICES ASSUME TypeOK, RolloutInv, [Next]_vars
               PROVE  [Promise!Next]_(Promise!vars)
    OBVIOUS
  <2> DEFINE done == ro.phase = "Complete"
  <2>1. CASE Dispatch
    <3>1. PICK d \in queue : desired' \in {desired, [desired EXCEPT ![d] = Want]}
      BY <2>1 DEF Dispatch
    <3>2. d \in Device /\ UNCHANGED <<ro, running>>
      BY <2>1 DEF Dispatch, TypeOK
    <3>3. Told' = Told \/ (d \notin Told /\ Told' = Told \cup {d})
      BY <3>1, <3>2 DEF Told, TypeOK
    <3>4. Ran' = Ran /\ done' = done
      BY <3>2 DEF Ran
    <3> QED
      BY <3>2, <3>3, <3>4 DEF Promise!Next, Promise!Tell, Promise!vars
  <2>2. ASSUME NEW d \in Device, Install(d) PROVE [Promise!Next]_(Promise!vars)
    <3>1. UNCHANGED <<ro, desired>> /\ running' = [running EXCEPT ![d] = desired[d]]
          /\ running[d] # desired[d]
      BY <2>2 DEF Install
    <3>2. Told' = Told /\ done' = done
      BY <3>1 DEF Told
    <3>3. d \in Ran => d \in Told
      BY DEF RolloutInv, RanWereTold
    <3>4. CASE desired[d] = Want
      <4>1. d \in Told \ Ran /\ Ran' = Ran \cup {d}
        BY <3>1, <3>4 DEF Told, Ran, TypeOK
      <4> QED
        BY <3>2, <4>1 DEF Promise!Next, Promise!Report
    <3>5. CASE desired[d] # Want
      <4>1. Ran' = Ran
        BY <3>1, <3>3, <3>5 DEF Told, Ran, TypeOK
      <4> QED
        BY <3>2, <4>1 DEF Promise!vars
    <3> QED
      BY <3>4, <3>5
  <2>3. CASE Finish
    <3>1. Told' = Told /\ Ran' = Ran
      BY <2>3 DEF Finish, world, Told, Ran
    <3>2. CASE held /\ ro' = loc
      <4>1. ~ done
        BY <2>3, <3>2 DEF Finish, RolloutInv, VersionInv
      <4>2. loc.phase = "Complete" => Ran # {}
        <5>1. Cardinality({}) = 0 /\ loc.eligible \in Nat
          BY FS_EmptySet DEF TypeOK, RolloutType
        <5> QED
          BY <5>1 DEF RolloutInv, MemoryInv, Claim
      <4> QED
        BY <3>1, <3>2, <4>1, <4>2 DEF Promise!Next, Promise!Complete, Promise!vars
    <3>3. CASE ro' = ro
      BY <3>1, <3>3 DEF Promise!vars
    <3> QED
      BY <2>3, <3>2, <3>3 DEF Finish, WriteAccepted
  <2>4. CASE ro'.phase = ro.phase /\ UNCHANGED <<desired, running>>
    <3>1. Told' = Told /\ Ran' = Ran /\ done' = done
      BY <2>4 DEF Told, Ran
    <3> QED
      BY <3>1 DEF Promise!vars
  <2>5. \/ Dispatch \/ (\E d \in Device : Install(d)) \/ Finish
        \/ ro'.phase = ro.phase /\ UNCHANGED <<desired, running>>
    <3>1. Tick => ro'.phase = ro.phase
      BY AgeType DEF Tick, TypeOK
    <3>2. EditPaused => ro'.phase = ro.phase
      BY DEF EditPaused, TypeOK, RolloutType
    <3> QED
      BY <3>1, <3>2 DEF Next, vars, world, Manager, Reconcile, CheckWindow,
         Observe, Abort, Crash, CacheSync, EditPaused, Tick, Reboot, StampTwin,
         LivenessChange, MoveWindow
  <2> QED
    BY <2>1, <2>2, <2>3, <2>4, <2>5
<1> QED
  BY <1>1, <1>2, RolloutInvariant, PTL DEF Spec, ImplementsStagedUpdate, Promise!Spec

-----------------------------------------------------------------------------
(* The blast radius *)

\* The members of E up to the last one of S by name.
UpTo(E, S) == {e \in E : \E d \in S : e <= d}

\* What the step in force permits for the devices that run the release.
Allowed ==
    CurrentStep(Cardinality(Plan.Eligible), Cardinality(Ran \cap Plan.Eligible)).allowed

\* While no liveness has changed: a reconcile works on the fleet's plan, only
\* planned devices are told, and all devices up to the last one told or about
\* to be -- the ones between whose write failed included -- fit the step.
\* Counting those is what makes it inductive: a device that is misread as not
\* told makes room for one more, but it comes before that one by name.
ExposureInv ==
    churn = 0 =>
        /\ pc # "Idle" => plan = Plan.Eligible
        /\ Told \cup queue \subseteq Plan.Eligible
        /\ Cardinality(UpTo(Plan.Eligible, Told \cup queue)) <= Allowed

\* A step is a number of the eligible devices.
LEMMA StepSizeType ==
    ASSUME NEW n \in Nat, NEW p \in Nat
    PROVE  StepSize(n, p) \in 0..n
<1>1. n * p \in Nat
  OBVIOUS
<1>2. (n * p) \div 100 \in Nat
  BY <1>1
<1> QED
  BY <1>2 DEF StepSize

\* The steps are a nonempty list of percentages.
LEMMA StepListType ==
    /\ Len(StepList) \in Nat /\ DOMAIN StepList = 1..Len(StepList)
    /\ \A i \in DOMAIN StepList : StepList[i] \in Nat
<1>1. Steps \in Seq(Nat)
  BY RolloutAssumption
<1>2. StepList \in Seq(Nat)
  BY <1>1 DEF StepList
<1> QED
  BY <1>2

\* The first step that asks for more healthy devices exists.
LEMMA FirstOpenStep ==
    ASSUME NEW n \in Nat, NEW h \in 0..n, OpenSteps(n, h) # {}
    PROVE  \E i \in OpenSteps(n, h) :
             /\ \A j \in OpenSteps(n, h) : i <= j
             /\ \/ Canary > 0 /\ h < Canary
                \/ CurrentStep(n, h) = [idx |-> i, allowed |-> StepSize(n, StepList[i])]
<1> DEFINE W == OpenSteps(n, h)
           first == CHOOSE i \in W : \A j \in W : i <= j
<1>1. W \in SUBSET Nat
  BY StepListType DEF OpenSteps
<1> HIDE DEF W
<1>2. \E i \in W : \A j \in W : i <= j
  BY <1>1, LeastNatural DEF W
<1>3. first \in W /\ \A j \in W : first <= j
  BY <1>2, Zenon
<1>4. ~(Canary > 0 /\ h < Canary) =>
        CurrentStep(n, h) = [idx |-> first, allowed |-> StepSize(n, StepList[first])]
  BY DEF CurrentStep, W
<1> HIDE DEF first
<1>5. W = OpenSteps(n, h)
  BY DEF W
<1> QED
  BY <1>3, <1>4, <1>5, Zenon

\* The more devices are healthy, the more a rollout may touch.
LEMMA AllowedGrows ==
    ASSUME NEW n \in Nat, NEW h \in 0..n, NEW k \in 0..n, h <= k
    PROVE  /\ CurrentStep(n, h).allowed \in Nat
           /\ CurrentStep(n, h).allowed <= CurrentStep(n, k).allowed
<1> DEFINE size(i) == StepSize(n, StepList[i])
<1>0. Canary \in Nat
  BY RolloutAssumption
<1>1. \A i \in DOMAIN StepList : size(i) \in 0..n
  BY StepListType, StepSizeType
<1>2. \A x \in 0..n : \A i \in OpenSteps(n, x) : i \in DOMAIN StepList /\ x < size(i)
  BY DEF OpenSteps
<1>3. \A i \in OpenSteps(n, k) : i \in OpenSteps(n, h)
  BY <1>1 DEF OpenSteps
<1>4. \A i \in OpenSteps(n, h) : i \notin OpenSteps(n, k) => size(i) <= k
  BY <1>1 DEF OpenSteps
<1>5. \A x \in 0..n : OpenSteps(n, x) = {} /\ ~(Canary > 0 /\ x < Canary)
        => CurrentStep(n, x).allowed = n
  BY DEF CurrentStep
<1>6. \A x \in 0..n : Canary > 0 /\ x < Canary => CurrentStep(n, x).allowed = Canary
  BY DEF CurrentStep
\* Past the canary, what is permitted is more than what is healthy, or all.
<1>7. \A x \in 0..n : ~(Canary > 0 /\ x < Canary) =>
        CurrentStep(n, x).allowed \in 0..n /\ x <= CurrentStep(n, x).allowed
  <2> SUFFICES ASSUME NEW x \in 0..n, ~(Canary > 0 /\ x < Canary)
               PROVE  CurrentStep(n, x).allowed \in 0..n /\ x <= CurrentStep(n, x).allowed
    OBVIOUS
  <2>1. CASE OpenSteps(n, x) = {}
    BY <1>5, <2>1
  <2>2. CASE OpenSteps(n, x) # {}
    <3>1. PICK i \in OpenSteps(n, x) : CurrentStep(n, x).allowed = size(i)
      BY <2>2, FirstOpenStep
    <3> QED
      BY <1>1, <1>2, <3>1
  <2> QED
    BY <2>1, <2>2
<1>8. CASE Canary > 0 /\ h < Canary
  <2>1. CASE k < Canary
    BY <1>0, <1>6, <1>8, <2>1
  <2>2. CASE ~(k < Canary)
    BY <1>0, <1>6, <1>7, <1>8, <2>2
  <2> QED
    BY <2>1, <2>2
<1>9. CASE ~(Canary > 0 /\ h < Canary)
  <2>1. ~(Canary > 0 /\ k < Canary)
    BY <1>0, <1>9
  <2>2. CASE OpenSteps(n, k) = {}
    BY <1>5, <1>7, <1>9, <2>1, <2>2
  <2>3. CASE OpenSteps(n, k) # {}
    <3>1. PICK j \in OpenSteps(n, k) : CurrentStep(n, k).allowed = size(j)
      BY <2>1, <2>3, FirstOpenStep
    <3>2. OpenSteps(n, h) # {}
      BY <1>3, <3>1
    <3>3. PICK i \in OpenSteps(n, h) :
            /\ \A l \in OpenSteps(n, h) : i <= l
            /\ CurrentStep(n, h).allowed = size(i)
      BY <1>9, <3>2, FirstOpenStep
    <3>4. PICK m \in OpenSteps(n, k) : (\A l \in OpenSteps(n, k) : m <= l)
                                       /\ CurrentStep(n, k).allowed = size(m)
      BY <2>1, <2>3, FirstOpenStep
    <3>5. CASE i \in OpenSteps(n, k)
      <4>1. i <= m /\ m <= i
        BY <1>3, <3>3, <3>4, <3>5
      <4>2. i \in Nat /\ m \in Nat
        BY <1>2, <3>3, <3>4, StepListType
      <4>3. i = m
        BY <4>1, <4>2
      <4> QED
        BY <1>7, <1>9, <3>3, <3>4, <4>3
    <3>6. CASE i \notin OpenSteps(n, k)
      <4>1. size(i) <= k /\ k < size(m)
        BY <1>2, <1>4, <3>3, <3>4, <3>6
      <4>2. size(i) \in Nat /\ size(m) \in Nat
        BY <1>1, <1>2, <3>3, <3>4
      <4> HIDE DEF size
      <4> QED
        BY <3>3, <3>4, <4>1, <4>2
    <3> QED
      BY <3>5, <3>6
  <2> QED
    BY <2>2, <2>3
<1> QED
  BY <1>8, <1>9

\* nextDevices takes the first ones by name: whatever was read as updated, no
\* more devices lie up to the last one told than before, or than the step
\* has room for.
LEMMA NextInOrder ==
    ASSUME NEW E \in SUBSET Device, NEW T \in SUBSET E, NEW U \in SUBSET E,
           NEW m \in Int, NEW a \in Nat, m <= a - Cardinality(U),
           NEW Q \in NextDevices(E \ U, m), Cardinality(UpTo(E, T)) <= a
    PROVE  Q \subseteq E /\ Cardinality(UpTo(E, T \cup Q)) <= a
<1>1. /\ Q \subseteq E \ U /\ Cardinality(Q) <= m
      /\ \A q \in Q, d \in (E \ U) \ Q : q < d
  BY DEF NextDevices
<1>2. E \subseteq Nat
  BY RolloutAssumption
<1>3. CASE \A q \in Q : \E t \in T : q <= t
  <2>1. UpTo(E, T \cup Q) = UpTo(E, T)
    <3>1. ASSUME NEW e \in UpTo(E, T \cup Q) PROVE e \in UpTo(E, T)
      <4>1. PICK d \in T \cup Q : e <= d
        BY DEF UpTo
      <4>2. PICK t \in T : d <= t
        BY <1>1, <1>2, <1>3, <4>1
      <4>3. e \in Nat /\ d \in Nat /\ t \in Nat /\ e \in E
        BY <1>1, <1>2, <4>1, <4>2 DEF UpTo
      <4>4. e <= t
        BY <4>1, <4>2, <4>3
      <4> QED
        BY <4>3, <4>4 DEF UpTo
    <3> QED
      BY <3>1 DEF UpTo
  <2> QED
    BY <1>1, <2>1
<1>4. CASE \E q \in Q : \A t \in T : ~(q <= t)
  <2>1. PICK q \in Q : \A t \in T : ~(q <= t)
    BY <1>4
  <2>2. ASSUME NEW e \in UpTo(E, T \cup Q) PROVE e \in U \cup Q
    <3>1. PICK d \in T \cup Q : e <= d
      BY DEF UpTo
    <3>2. e \in Nat /\ d \in Nat /\ q \in Nat /\ e \in E
      BY <1>1, <1>2, <3>1 DEF UpTo
    <3>3. PICK p \in Q : e <= p
      <4>1. CASE d \in Q
        BY <3>1, <4>1
      <4>2. CASE d \in T
        BY <2>1, <3>1, <3>2, <4>2
      <4> QED
        BY <4>1, <4>2
    <3>4. p \in Nat
      BY <1>1, <1>2
    <3>5. ~(p < e)
      BY <3>2, <3>3, <3>4
    <3> QED
      BY <1>1, <3>2, <3>3, <3>5
  <2>3. /\ IsFiniteSet(U) /\ IsFiniteSet(Q) /\ IsFiniteSet(U \cup Q)
        /\ Cardinality(U) \in Nat /\ Cardinality(Q) \in Nat
        /\ Cardinality(U \cup Q) \in Nat /\ U \cap Q = {}
    <3>1. U \in SUBSET Device /\ Q \in SUBSET Device /\ U \cup Q \in SUBSET Device
      BY <1>1
    <3> QED
      BY <1>1, <3>1, FleetSize
  <2>4. Cardinality(U \cup Q) = Cardinality(U) + Cardinality(Q)
    <3>1. Cardinality(U \cup Q) = Cardinality(U) + Cardinality(Q) - Cardinality(U \cap Q)
      BY <2>3, FS_Union
    <3>2. Cardinality(U \cap Q) = 0
      BY <2>3, FS_EmptySet
    <3> QED
      BY <2>3, <3>1, <3>2
  <2>5. UpTo(E, T \cup Q) \subseteq U \cup Q
    BY <2>2
  <2>6. /\ Cardinality(UpTo(E, T \cup Q)) <= Cardinality(U \cup Q)
        /\ Cardinality(UpTo(E, T \cup Q)) \in Nat
    <3>1. UpTo(E, T \cup Q) \in SUBSET Device
      BY DEF UpTo
    <3>2. Cardinality(UpTo(E, T \cup Q)) \in Nat
      BY <3>1, FleetSize
    <3> QED
      BY <2>3, <2>5, <3>2, FS_Subset
  <2> QED
    BY <1>1, <2>3, <2>4, <2>6
<1> QED
  BY <1>3, <1>4

\* The budget of one reconcile is within the step's room.
LEMMA BudgetFits ==
    ASSUME TypeOK, NEW room \in Nat
    PROVE  /\ DispatchBudget(room) \in Nat /\ DispatchBudget(room) <= room
           /\ budget # Unlimited => DispatchBudget(room) <= budget
<1>1. MaxConcurrent \in Nat /\ budget \in Nat \cup {-1}
  BY RolloutAssumption DEF TypeOK, Unlimited
<1> QED
  BY <1>1 DEF DispatchBudget, Unlimited

\* What an observation queues is the beginning of the devices it took for not
\* updated, and no more than the step and the budget leave.
LEMMA AdvanceQueue ==
    ASSUME TypeOK, NEW u \in SUBSET plan, NEW h \in SUBSET plan, NEW f,
           NEW Q \in Advance(u, h, f).next
    PROVE  \/ Q = {}
           \/ \E m \in Nat :
                /\ Q \in NextDevices(plan \ u, m)
                /\ m <= CurrentStep(Cardinality(plan), Cardinality(h)).allowed - Cardinality(u)
                /\ budget # Unlimited => m <= budget
<1> DEFINE room == Room(u, h)
<1>1. Q = {} \/ (~(room <= 0) /\ Q \in NextDevices(plan \ u, DispatchBudget(room)))
  BY DEF Advance
<1>2. /\ Cardinality(plan) \in Nat /\ Cardinality(u) \in Nat
      /\ Cardinality(h) \in 0..Cardinality(plan)
  <2>1. plan \in SUBSET Device /\ u \in SUBSET Device /\ h \in SUBSET Device
    BY DEF TypeOK
  <2>2. IsFiniteSet(plan) /\ Cardinality(plan) \in Nat
    BY <2>1, FleetSize
  <2>3. Cardinality(u) \in Nat /\ Cardinality(h) \in Nat
    BY <2>1, FleetSize
  <2>4. Cardinality(h) <= Cardinality(plan)
    BY <2>2, FS_Subset
  <2> QED
    BY <2>2, <2>3, <2>4
<1>3. CurrentStep(Cardinality(plan), Cardinality(h)).allowed \in Nat
  BY <1>2, AllowedGrows
<1>4. room = CurrentStep(Cardinality(plan), Cardinality(h)).allowed - Cardinality(u)
      /\ room \in Int
  BY <1>2, <1>3 DEF Room
<1> HIDE DEF room
<1>5. ~(room <= 0) => room \in Nat
  BY <1>4
<1> QED
  BY <1>1, <1>4, <1>5, BudgetFits

\* No step of the controller or of its environment, short of a change of some
\* liveness, takes the fleet outside the step in force.
LEMMA ExposureStep ==
    ASSUME TypeOK, TypeOK', RolloutInv, ExposureInv, [Next]_vars
    PROVE  ExposureInv'
<1> DEFINE E == Plan.Eligible
<1> SUFFICES ASSUME churn' = 0
             PROVE  /\ pc' # "Idle" => plan' = E'
                    /\ Told' \cup queue' \subseteq E'
                    /\ Cardinality(UpTo(E', Told' \cup queue')) <= Allowed'
  BY DEF ExposureInv, UpTo
<1>1. churn = 0 /\ liveness' = liveness
  BY DEF Next, vars, world, bounds, Manager, Reconcile, CheckWindow, Observe,
         Dispatch, Finish, Abort, Crash, CacheSync, EditPaused, Tick, Install,
         Reboot, StampTwin, LivenessChange, MoveWindow, TypeOK
<1>2. E' = E /\ E \subseteq Device
  BY <1>1, EligibleInFleet DEF Plan
<1>3. /\ pc # "Idle" => plan = E
      /\ Told \cup queue \subseteq E
      /\ Cardinality(UpTo(E, Told \cup queue)) <= Allowed
  BY <1>1 DEF ExposureInv
<1>4. /\ Cardinality(E) \in Nat /\ Cardinality(Ran \cap E) \in 0..Cardinality(E)
      /\ Cardinality(Ran' \cap E) \in 0..Cardinality(E)
      /\ Cardinality(Ran \cap E) <= Cardinality(Ran' \cap E)
  <2>1. IsFiniteSet(E) /\ Cardinality(E) \in Nat
    BY <1>2, FleetSize
  <2>2. (Ran \cap E) \in SUBSET Device /\ (Ran' \cap E) \in SUBSET Device
    BY <1>2
  <2>3. /\ IsFiniteSet(Ran' \cap E)
        /\ Cardinality(Ran \cap E) \in Nat /\ Cardinality(Ran' \cap E) \in Nat
    BY <2>2, FleetSize
  <2>4. /\ Cardinality(Ran \cap E) <= Cardinality(E)
        /\ Cardinality(Ran' \cap E) <= Cardinality(E)
    BY <2>1, FS_Subset
  <2>5. Ran \cap E \subseteq Ran' \cap E
    BY ToldRanStep DEF RolloutInv
  <2>6. Cardinality(Ran \cap E) <= Cardinality(Ran' \cap E)
    BY <2>3, <2>5, FS_Subset
  <2> QED
    BY <2>1, <2>3, <2>4, <2>6
<1>5. Allowed \in Nat /\ Allowed' \in Nat /\ Allowed <= Allowed'
  <2>1. Allowed' = CurrentStep(Cardinality(E), Cardinality(Ran' \cap E)).allowed
    BY <1>1 DEF Allowed, Plan, CurrentStep, OpenSteps, StepList
  <2> QED
    BY <1>4, <2>1, AllowedGrows DEF Allowed
<1>6. IsFiniteSet(UpTo(E, Told \cup queue)) /\ Cardinality(UpTo(E, Told \cup queue)) \in Nat
  <2>1. UpTo(E, Told \cup queue) \in SUBSET Device
    BY <1>2 DEF UpTo
  <2> QED
    BY <2>1, FleetSize
<1> HIDE DEF E
\* Where the devices told or queued are no more than before.
<1>7. ASSUME Told' \cup queue' \subseteq Told \cup queue
      PROVE  /\ Told' \cup queue' \subseteq E
             /\ Cardinality(UpTo(E, Told' \cup queue')) <= Allowed'
  <2>1. UpTo(E, Told' \cup queue') \subseteq UpTo(E, Told \cup queue)
    BY <1>7 DEF UpTo
  <2>2. Cardinality(UpTo(E, Told' \cup queue')) <= Cardinality(UpTo(E, Told \cup queue))
    BY <1>6, <2>1, FS_Subset
  <2>3. Cardinality(UpTo(E, Told' \cup queue')) \in Nat
    <3>1. UpTo(E, Told' \cup queue') \in SUBSET Device
      BY <1>2 DEF UpTo
    <3> QED
      BY <3>1, FleetSize
  <2> QED
    BY <1>3, <1>5, <1>6, <1>7, <2>2, <2>3
<1>8. CASE Reconcile
  <2>1. plan' = E /\ Told' = Told /\ queue' = queue
    BY <1>8 DEF Reconcile, world, Told, E
  <2> QED
    BY <1>2, <1>7, <2>1
<1>9. CASE Observe
  <2>1. PICK reading \in {CleanReading}
                 \cup UNION {Misreadings(d) : d \in Updated(plan)} :
          queue' \in Advance(reading.updated, reading.healthy, reading.failed).next
    BY <1>9 DEF Observe
  <2>2. /\ plan = E /\ plan' = E /\ Told' = Told /\ Ran' = Ran
        /\ Told \subseteq E
    BY <1>3, <1>9 DEF Observe, world, Told, Ran
  <2>3. reading.updated \subseteq E /\ reading.healthy \subseteq Ran \cap E
    BY <2>2, ReadingType
  <2>4. CASE queue' = {}
    BY <1>2, <1>7, <2>2, <2>4
  <2>5. CASE queue' # {}
    <3>1. PICK m \in Nat :
            /\ queue' \in NextDevices(plan \ reading.updated, m)
            /\ m <= CurrentStep(Cardinality(plan), Cardinality(reading.healthy)).allowed
                      - Cardinality(reading.updated)
      BY <2>1, <2>2, <2>3, <2>5, AdvanceQueue
    <3>2. (Ran \cap E) \in SUBSET Device /\ reading.healthy \in SUBSET Device
          /\ reading.updated \in SUBSET Device
      BY <1>2, <2>3
    <3>3. IsFiniteSet(Ran \cap E) /\ Cardinality(reading.healthy) \in Nat
          /\ Cardinality(reading.updated) \in Nat
      BY <3>2, FleetSize
    <3>4. Cardinality(reading.healthy) <= Cardinality(Ran \cap E)
      BY <2>3, <3>3, FS_Subset
    <3>5. Cardinality(reading.healthy) \in 0..Cardinality(E)
      BY <1>4, <3>3, <3>4
    <3>6. /\ CurrentStep(Cardinality(E), Cardinality(reading.healthy)).allowed \in Nat
          /\ CurrentStep(Cardinality(E), Cardinality(reading.healthy)).allowed <= Allowed
      BY <1>4, <3>4, <3>5, AllowedGrows DEF Allowed, E
    <3>7. m <= Allowed - Cardinality(reading.updated)
      BY <1>5, <2>2, <3>1, <3>3, <3>6
    <3>8. UpTo(E, Told) \subseteq UpTo(E, Told \cup queue)
      BY DEF UpTo
    <3>9. Cardinality(UpTo(E, Told)) <= Allowed
      <4>1. UpTo(E, Told) \in SUBSET Device
        BY <1>2 DEF UpTo
      <4>2. Cardinality(UpTo(E, Told)) \in Nat
        BY <4>1, FleetSize
      <4>3. Cardinality(UpTo(E, Told)) <= Cardinality(UpTo(E, Told \cup queue))
        BY <1>6, <3>8, FS_Subset
      <4> QED
        BY <1>3, <1>5, <1>6, <4>2, <4>3
    <3>10. queue' \in NextDevices(E \ reading.updated, m)
      BY <2>2, <3>1
    <3>11. queue' \subseteq E /\ Cardinality(UpTo(E, Told \cup queue')) <= Allowed
      <4>1. /\ E \in SUBSET Device /\ Told \in SUBSET E
            /\ reading.updated \in SUBSET E /\ m \in Int /\ Allowed \in Nat
        BY <1>2, <1>5, <2>2, <2>3
      <4> QED
        BY <3>7, <3>9, <3>10, <4>1, NextInOrder
    <3>12. Cardinality(UpTo(E, Told \cup queue')) \in Nat
      <4>1. UpTo(E, Told \cup queue') \in SUBSET Device
        BY <1>2 DEF UpTo
      <4> QED
        BY <4>1, FleetSize
    <3> QED
      BY <1>2, <1>5, <2>2, <3>11, <3>12
  <2> QED
    BY <2>4, <2>5
<1>10. CASE Dispatch
  <2>1. PICK d \in queue :
          /\ queue' = queue \ {d}
          /\ desired' \in {desired, [desired EXCEPT ![d] = Want]}
    BY <1>10 DEF Dispatch
  <2>2. Told' \cup queue' \subseteq Told \cup queue
    BY <2>1 DEF Told, TypeOK
  <2>3. plan' = plan /\ pc # "Idle"
    BY <1>10 DEF Dispatch
  <2> QED
    BY <1>2, <1>3, <1>7, <2>2, <2>3
<1>11. CASE Finish \/ Abort \/ Crash
  <2>1. pc' = "Idle" /\ queue' = {} /\ Told' = Told
    BY <1>11 DEF Finish, Abort, Crash, Return, world, Told
  <2> QED
    BY <1>2, <1>7, <2>1
<1>12. CASE CheckWindow
  <2>1. plan' = plan /\ queue' = queue /\ Told' = Told /\ pc # "Idle"
    BY <1>12 DEF CheckWindow, world, Told
  <2> QED
    BY <1>2, <1>3, <1>7, <2>1
<1>13. CASE UNCHANGED <<pc, plan, queue, desired>>
  <2>1. Told' = Told
    BY <1>13 DEF Told
  <2> QED
    BY <1>2, <1>3, <1>7, <1>13, <2>1
<1> QED
  <2>1. Manager \/ Abort \/ Crash \/ UNCHANGED <<pc, plan, queue, desired>>
    BY DEF Next, vars, world, local, CacheSync, EditPaused, Tick, Install, Reboot,
           StampTwin, LivenessChange, MoveWindow
  <2> QED
    BY <1>8, <1>9, <1>10, <1>11, <1>12, <1>13, <2>1 DEF Manager

\* The blast radius holds for every fleet and strategy: while no liveness
\* changes, crashes, misreads, lost answers and stale copies never lead to
\* more devices told than the step permits for the devices running.
THEOREM ExposureIsStaged == Spec => []StagedExposure
<1>1. Init => ExposureInv
  <2> SUFFICES ASSUME Init PROVE ExposureInv
    OBVIOUS
  <2>1. Told = {} /\ queue = {} /\ Ran = {} /\ pc = "Idle"
    BY DEF Init, Told, Ran, None, Old, Want
  <2>2. UpTo(Plan.Eligible, Told \cup queue) = {} /\ Ran \cap Plan.Eligible = {}
    BY <2>1 DEF UpTo
  <2>3. Plan.Eligible \in SUBSET Device
    BY DEF Init, Plan, PlanRollout, Livenesses
  <2>4. Cardinality(Plan.Eligible) \in Nat /\ Cardinality({}) = 0
    BY <2>3, FleetSize, FS_EmptySet
  <2>5. Allowed \in Nat
    <3>1. 0 \in 0..Cardinality(Plan.Eligible) /\ 0 <= 0
      BY <2>4
    <3>2. CurrentStep(Cardinality(Plan.Eligible), 0).allowed \in Nat
      BY <2>4, <3>1, AllowedGrows
    <3> QED
      BY <2>2, <2>4, <3>2 DEF Allowed
  <2> QED
    BY <2>1, <2>2, <2>4, <2>5 DEF ExposureInv
<1>2. TypeOK /\ TypeOK' /\ RolloutInv /\ ExposureInv /\ [Next]_vars => ExposureInv'
  BY ExposureStep
<1>3. TypeOK /\ ExposureInv => StagedExposure
  <2> SUFFICES ASSUME TypeOK, ExposureInv, churn = 0 PROVE Cardinality(Told) <= Allowed
    BY DEF StagedExposure, Allowed
  <2> DEFINE U == UpTo(Plan.Eligible, Told \cup queue)
  <2>1. Plan.Eligible \in SUBSET Device /\ Told \in SUBSET Device
    BY EligibleInFleet DEF Told
  <2>2. Told \subseteq U /\ U \in SUBSET Device /\ Cardinality(U) <= Allowed
    <3>1. \A d \in Device : d <= d
      BY RolloutAssumption
    <3> QED
      BY <2>1, <3>1 DEF UpTo, ExposureInv
  <2> HIDE DEF U
  <2>3. IsFiniteSet(U) /\ Cardinality(U) \in Nat
    BY <2>2, FleetSize
  <2>4. Cardinality(Told) \in Nat
    BY <2>1, FleetSize
  <2>5. Cardinality(Told) <= Cardinality(U)
    BY <2>2, <2>3, FS_Subset
  <2>6. Allowed \in Nat
    <3>1. IsFiniteSet(Plan.Eligible) /\ Cardinality(Plan.Eligible) \in Nat
      BY <2>1, FleetSize
    <3>2. (Ran \cap Plan.Eligible) \in SUBSET Device
      BY <2>1
    <3>3. Cardinality(Ran \cap Plan.Eligible) \in Nat
      BY <3>2, FleetSize
    <3>4. Cardinality(Ran \cap Plan.Eligible) <= Cardinality(Plan.Eligible)
      BY <3>1, FS_Subset
    <3> QED
      BY <3>1, <3>3, <3>4, AllowedGrows DEF Allowed
  <2> QED
    BY <2>2, <2>3, <2>4, <2>5, <2>6
<1> QED
  BY <1>1, <1>2, <1>3, RolloutInvariant, PTL DEF Spec

-----------------------------------------------------------------------------
(* The windows' promises *)

\* The devices told fit the count, and the count with those about to be told
\* fits the limit.
Fits(count, told, left) ==
    told <= count /\ (Limit > 0 => count + left <= Limit)

\* The rollout that counts: the copy of the reconcile that runs, else the store's.
Kept == IF pc = "Idle" THEN ro ELSE loc

\* The devices told before the budget was last renewed, an hour ago or less.
Earlier == {d \in Told \ batch : age[d] <= Hour}

BatchInv == age \in [Device -> Nat] /\ batch \subseteq Told

\* The count covers the devices told since the renewal; a reconcile that got
\* past the windows has what the count leaves as its budget.
CountInv ==
    /\ faults = 0
    /\ Fits(Kept.dispatched, Cardinality(batch), Cardinality(queue))
    /\ pc = "Observe" =>
         budget = IF Limit > 0 THEN Limit - loc.dispatched ELSE Unlimited

\* Nobody is told before the budget is first set up; whoever was told before a
\* renewal was told at least as long ago as that was; and those of the last hour
\* are at most one budget.
AgeInv ==
    /\ Kept.openedAt = NoTime => Told = {} /\ pc \notin {"Observe", "Dispatch"}
    /\ Kept.openedAt # NoTime => \A d \in Told \ batch : age[d] >= Kept.openedAt
    /\ Limit > 0 => Cardinality(Earlier) <= Limit

BudgetInv == BatchInv /\ (counted => CountInv /\ AgeInv)

\* A reconcile that got past the windows found all that select the fleet open.
ConsentInv ==
    pc \in {"Observe", "Dispatch"} =>
        \A w \in DOMAIN Windows : Windows[w].selects => w \in consent

\* The history variables change nothing.
LEMMA HistoryRefines == HSpec => Spec
<1>1. HInit => Init
  BY DEF HInit
<1>2. [HNext]_hvars => [Next]_vars
  BY DEF HNext, hvars
<1> QED
  BY <1>1, <1>2, PTL DEF HSpec, Spec

LEMMA BudgetRefines == BSpec => Spec
<1>1. BInit => Init
  BY DEF BInit
<1>2. [BNext]_bvars => [Next]_vars
  BY DEF BNext, bvars
<1> QED
  BY <1>1, <1>2, PTL DEF BSpec, Spec

\* A verdict that is open comes with the limit of the window in charge, and
\* with the consent of all.
LEMMA OpenVerdict ==
    ASSUME EvaluateWindowsFor.Open
    PROVE  /\ EvaluateWindowsFor.MaxDevices = Limit
           /\ \A w \in DOMAIN Windows : Windows[w].selects => w \in open
<1> DEFINE selecting == {w \in DOMAIN Windows : Windows[w].selects}
           closed    == selecting \ open
           last(S)   == CHOOSE w \in S : \A v \in S : v <= w
<1>1. EvaluateWindowsFor =
        IF closed # {} THEN [Open |-> FALSE, Window |-> last(closed), MaxDevices |-> 0]
        ELSE IF selecting # {}
          THEN [Open |-> TRUE, Window |-> last(selecting),
                MaxDevices |-> Windows[last(selecting)].max]
        ELSE [Open |-> TRUE, Window |-> NoWindow, MaxDevices |-> 0]
  BY DEF EvaluateWindowsFor
<1>2. Limit = IF selecting = {} THEN 0 ELSE Windows[last(selecting)].max
  BY DEF Limit
<1> HIDE DEF last
<1>3. closed = {}
  BY <1>1
<1>4. EvaluateWindowsFor.MaxDevices = Limit
  <2> HIDE DEF selecting, closed
  <2> QED
    BY <1>1, <1>2, <1>3
<1> QED
  BY <1>3, <1>4

\* The limit is a count.
LEMMA LimitType == Limit \in Nat
<1> DEFINE selecting == {w \in DOMAIN Windows : Windows[w].selects}
           W == [selects : BOOLEAN, max : Nat]
<1>1. Windows \in Seq(W)
  BY RolloutAssumption, Zenon
<1> HIDE DEF W
<1>2. /\ Len(Windows) \in Nat /\ DOMAIN Windows = 1..Len(Windows)
      /\ \A w \in DOMAIN Windows : Windows[w] \in W
  BY <1>1
<1>3. selecting \in SUBSET (0..Len(Windows))
  BY <1>2
<1> HIDE DEF selecting
<1> DEFINE last == CHOOSE w \in selecting : \A v \in selecting : v <= w
<1>4. selecting # {} => last \in selecting
  <2>1. selecting # {} => \E m \in selecting : \A y \in selecting : y <= m
    BY <1>2, <1>3, GreatestNatural
  <2> QED
    BY <2>1, Zenon
<1>5. Limit = IF selecting = {} THEN 0 ELSE Windows[last].max
  BY DEF Limit, selecting
<1> HIDE DEF last
<1>6. selecting # {} => Windows[last] \in W
  BY <1>2, <1>4 DEF selecting
<1> QED
  BY <1>5, <1>6 DEF W

\* One device leaves the queue.
LEMMA QueueShrinks ==
    ASSUME NEW Q \in SUBSET Device, NEW d \in Q
    PROVE  /\ Cardinality(Q) \in Nat /\ Cardinality(Q \ {d}) \in Nat
           /\ Cardinality(Q) = Cardinality(Q \ {d}) + 1
<1>1. (Q \ {d}) \in SUBSET Device
  OBVIOUS
<1>2. IsFiniteSet(Q) /\ Cardinality(Q) \in Nat /\ Cardinality(Q \ {d}) \in Nat
  BY <1>1, FleetSize
<1>3. Cardinality(Q \ {d}) = Cardinality(Q) - 1
  BY <1>2, FS_RemoveElement, Zenon
<1> QED
  BY <1>2, <1>3

\* What a step does to the histories of the budget.
LEMMA BatchStep ==
    ASSUME TypeOK, RanWereTold, BatchInv, BNext
    PROVE  /\ BatchInv'
           /\ \A d \in Device : age'[d] >= age[d] /\ age'[d] \in Nat /\ age[d] \in Nat
           /\ Tick => \A d \in Told : age'[d] = Older(age[d], Hour)
           /\ Renews => batch' = New
           /\ ~Renews => batch' = batch \cup New
           /\ Told' = Told => New = {} /\ (~Renews => batch' = batch)
<1>1. Hour \in Nat /\ NoTime \notin Int
  BY RolloutAssumption
<1>2. age' = [d \in Device |-> IF d \in Told /\ Tick THEN Older(age[d], Hour) ELSE age[d]]
  BY DEF BNext
<1>3. batch' = IF Renews THEN New ELSE batch \cup New
  BY DEF BNext
<1>4. Told \subseteq Told' /\ Told \subseteq Device
  BY ToldRanStep DEF BNext, Told
<1>5. batch' \subseteq Told'
  BY <1>3, <1>4 DEF BatchInv, New
<1>6. \A d \in Device : age[d] \in Nat /\ age'[d] \in {age[d], Older(age[d], Hour)}
  BY <1>2 DEF BatchInv
<1>7. \A d \in Device : Older(age[d], Hour) >= age[d] /\ Older(age[d], Hour) \in Nat
  BY <1>1, <1>6 DEF Older
<1>8. \A d \in Device : age'[d] >= age[d] /\ age'[d] \in Nat /\ age[d] \in Nat
  <2> SUFFICES ASSUME NEW d \in Device
               PROVE  age'[d] >= age[d] /\ age'[d] \in Nat /\ age[d] \in Nat
    OBVIOUS
  <2> QED
    BY <1>6, <1>7
<1>9. age' \in [Device -> Nat]
  BY <1>2, <1>8
<1>10. Tick => \A d \in Told : age'[d] = Older(age[d], Hour)
  BY <1>2, <1>4
<1>11. Told' = Told => New = {}
  BY DEF New
<1> QED
  BY <1>3, <1>5, <1>8, <1>9, <1>10, <1>11 DEF BatchInv

\* A step that misses nothing: what follows from its being counted.
LEMMA CountedStep ==
    ASSUME BudgetInv, BNext, counted'
    PROVE  /\ CountInv /\ AgeInv /\ faults' = 0
           /\ ~(pc = "Finish" /\ pc' = "Idle" /\ ~held)
BY DEF BudgetInv, BNext, Refused, WriteAccepted

\* Every step that is not noted as a miss keeps the count.
LEMMA CountStep ==
    ASSUME TypeOK, TypeOK', RolloutInv, BudgetInv, BNext, counted'
    PROVE  CountInv'
<1> DEFINE count == IF pc = "Idle" THEN ro.dispatched ELSE loc.dispatched
<1>1. /\ Renews => batch' = New
      /\ ~Renews => batch' = batch \cup New
      /\ Told' = Told => New = {} /\ (~Renews => batch' = batch)
  BY BatchStep DEF RolloutInv, BudgetInv
<1>2. /\ faults' = 0 /\ faults = 0
      /\ ~(pc = "Finish" /\ pc' = "Idle" /\ ~held)
      /\ Fits(count, Cardinality(batch), Cardinality(queue))
      /\ pc = "Observe" =>
           budget = IF Limit > 0 THEN Limit - loc.dispatched ELSE Unlimited
  <2>1. Kept.dispatched = count
    BY DEF Kept
  <2> QED
    BY <2>1, CountedStep DEF CountInv
<1> SUFFICES /\ Fits(count', Cardinality(batch'), Cardinality(queue'))
             /\ pc' = "Observe" =>
                  budget' = IF Limit > 0 THEN Limit - loc'.dispatched ELSE Unlimited
  <2>1. Kept'.dispatched = count'
    BY DEF Kept
  <2> QED
    BY <1>2, <2>1 DEF CountInv, Limit, Fits
<1>3. batch \in SUBSET Told /\ batch' \in SUBSET Told'
  BY BatchStep DEF RolloutInv, BudgetInv, BatchInv
<1>4. /\ Limit \in Nat /\ ro.dispatched \in Nat /\ loc.dispatched \in Nat
      /\ queue \in SUBSET Device /\ queue' \in SUBSET Device
      /\ Cardinality(batch) \in Nat /\ Cardinality(batch') \in Nat
  <2>1. batch \in SUBSET Device /\ batch' \in SUBSET Device
    BY <1>3 DEF Told
  <2> QED
    BY <2>1, LimitType, FleetSize DEF TypeOK, RolloutType
<1>5. Cardinality(queue) \in Nat /\ Cardinality(queue') \in Nat
  BY <1>4, FleetSize
<1>6. Next /\ VersionInv /\ DoorInv
  BY DEF BNext, RolloutInv
<1>7. CASE Reconcile
  <2>1. pc = "Idle" /\ pc' # "Idle" /\ pc' # "Observe" /\ queue' = queue /\ Told' = Told
    BY <1>7 DEF Reconcile, world, Told
  <2>2. fresh
    BY <1>2, <1>7 DEF Reconcile
  <2>3. loc'.dispatched = ro.dispatched
    BY <1>6, <1>7, <2>2 DEF Reconcile, VersionInv, TypeOK, RolloutType
  <2>4. batch' = batch
    BY <1>1, <2>1 DEF Renews
  <2> QED
    BY <1>2, <2>1, <2>3, <2>4
<1>8. CASE CheckWindow
  <2> DEFINE d == EvaluateWindowsFor
             r == Opened(loc, d)
  <2>1. /\ pc = "Window" /\ pc' \in {"Observe", "Finish"} /\ queue' = queue
        /\ Told' = Told /\ queue = {}
    BY <1>6, <1>8 DEF CheckWindow, world, Told, DoorInv
  <2>2. Cardinality(queue) = 0
    BY <2>1, FS_EmptySet
  <2>3. CASE ~d.Open
    <3>1. loc'.dispatched = loc.dispatched /\ pc' = "Finish"
      BY <1>8, <2>3 DEF CheckWindow, TypeOK, RolloutType
    <3>2. batch' = batch
      BY <1>1, <2>1, <2>3 DEF Renews
    <3> QED
      BY <1>2, <2>1, <3>1, <3>2
  <2>4. CASE d.Open
    <3>1. d.MaxDevices = Limit
      BY <2>4, OpenVerdict
    <3>2. r.dispatched = IF ResetsBudget(loc, d) THEN 0 ELSE loc.dispatched
      BY DEF Opened, TypeOK, RolloutType
    <3>3. Cardinality(batch') = IF ResetsBudget(loc, d) THEN 0 ELSE Cardinality(batch)
      <4>1. Renews <=> ResetsBudget(loc, d)
        BY <2>1, <2>4 DEF Renews
      <4> HIDE DEF d
      <4> QED
        BY <1>1, <2>1, <4>1, FS_EmptySet
    <3>4. r \in RolloutType
      BY OpenedType DEF TypeOK
    <3>5. /\ loc'.dispatched = r.dispatched
          /\ pc' = "Observe" =>
               budget' = IF d.MaxDevices > 0 THEN d.MaxDevices - r.dispatched ELSE Unlimited
      <4> HIDE DEF d, r
      <4> QED
        BY <1>8, <2>4, <3>4 DEF CheckWindow, RolloutType, d, r
    <3>6. Fits(loc'.dispatched, Cardinality(batch'), Cardinality(queue'))
      <4> HIDE DEF d, r
      <4> QED
        BY <1>2, <1>4, <2>1, <2>2, <3>2, <3>3, <3>5 DEF Fits
    <3> HIDE DEF d, r
    <3> QED
      BY <1>2, <2>1, <3>1, <3>5, <3>6
  <2> QED
    BY <2>3, <2>4
<1>9. CASE Observe
  <2>1. PICK reading \in {CleanReading}
               \cup UNION {Misreadings(d) : d \in Updated(plan)} :
          queue' \in Advance(reading.updated, reading.healthy, reading.failed).next
    BY <1>9 DEF Observe
  <2>2. /\ pc = "Observe" /\ pc' \in {"Finish", "Dispatch"} /\ Told' = Told
        /\ queue = {} /\ loc'.dispatched = loc.dispatched
    BY <1>6, <1>9 DEF Observe, world, Told, DoorInv, TypeOK, RolloutType
  <2>3. batch' = batch
    BY <1>1, <2>2 DEF Renews
  <2>4. reading.updated \in SUBSET plan /\ reading.healthy \in SUBSET plan
    BY ReadingType
  <2>5. Limit > 0 => Cardinality(queue') <= Limit - loc.dispatched
    <3>1. Cardinality({}) = 0
      BY FS_EmptySet
    <3>2. Fits(loc.dispatched, Cardinality(batch), 0)
      BY <1>2, <2>2, <3>1
    <3>3. CASE queue' = {}
      BY <1>4, <3>1, <3>2, <3>3 DEF Fits
    <3>4. CASE queue' # {} /\ Limit > 0
      <4>1. PICK m \in Nat : /\ queue' \in NextDevices(plan \ reading.updated, m)
                             /\ budget # Unlimited => m <= budget
        BY <2>1, <2>4, <3>4, AdvanceQueue
      <4>2. budget = Limit - loc.dispatched /\ budget # Unlimited
        BY <1>2, <1>4, <2>2, <3>2, <3>4 DEF Fits, Unlimited
      <4>3. Cardinality(queue') <= m
        BY <4>1 DEF NextDevices
      <4> QED
        BY <1>4, <1>5, <4>1, <4>2, <4>3
    <3> QED
      BY <3>3, <3>4
  <2>6. Fits(loc'.dispatched, Cardinality(batch'), Cardinality(queue'))
    BY <1>2, <1>4, <1>5, <2>2, <2>3, <2>5 DEF Fits
  <2> QED
    BY <1>2, <2>2, <2>6
<1>10. CASE Dispatch
  <2>1. PICK d \in queue :
          /\ queue' = queue \ {d} /\ desired' = [desired EXCEPT ![d] = Want]
          /\ loc' = CountDispatch(loc)
    BY <1>2, <1>10 DEF Dispatch
  <2>2. pc = "Dispatch" /\ pc' \in {"Finish", "Dispatch"}
    BY <1>10 DEF Dispatch
  <2>3. loc'.dispatched = loc.dispatched + 1
    BY <2>1 DEF CountDispatch, TypeOK, RolloutType
  <2>4. Cardinality(queue) = Cardinality(queue') + 1
    BY <1>4, <2>1, QueueShrinks
  <2>5. Cardinality(batch') <= Cardinality(batch) + 1
    <3>1. New \subseteq {d}
      BY <2>1 DEF New, Told, TypeOK
    <3>2. batch' = batch \/ batch' = batch \cup {d}
      BY <1>1, <2>2, <3>1 DEF Renews
    <3>3. IsFiniteSet(batch)
      <4>1. batch \in SUBSET Device
        BY <1>3 DEF Told
      <4> QED
        BY <4>1, FleetSize
    <3>4. Cardinality(batch \cup {d}) =
            IF d \in batch THEN Cardinality(batch) ELSE Cardinality(batch) + 1
      BY <3>3, FS_AddElement, Zenon
    <3>5. Cardinality(batch') \in {Cardinality(batch), Cardinality(batch) + 1}
      BY <3>2, <3>4, Zenon
    <3> QED
      BY <1>4, <3>5
  <2>6. Fits(loc'.dispatched, Cardinality(batch'), Cardinality(queue'))
    BY <1>1, <1>2, <1>4, <1>5, <2>2, <2>3, <2>4, <2>5 DEF Fits
  <2> QED
    BY <1>2, <2>2, <2>6
<1>11. CASE Finish
  <2>1. /\ pc = "Finish" /\ pc' = "Idle" /\ queue' = {} /\ queue = {} /\ Told' = Told
        /\ ro' = loc
    BY <1>2, <1>6, <1>11 DEF Finish, Return, WriteAccepted, world, Told, DoorInv
  <2>2. batch' = batch
    BY <1>1, <2>1 DEF Renews
  <2> QED
    BY <1>2, <2>1, <2>2
<1>12. ~Abort /\ ~Crash
  BY <1>2 DEF Abort, Crash
<1>13. CASE EditPaused \/ Tick
  <2>1. /\ pc' = pc /\ queue' = queue /\ Told' = Told /\ budget' = budget
        /\ ro'.dispatched = ro.dispatched /\ loc'.dispatched = loc.dispatched
    BY <1>13 DEF EditPaused, Tick, AgeRollout, world, Told, TypeOK, RolloutType
  <2>2. batch' = batch
    BY <1>1, <2>1 DEF Renews
  <2> QED
    BY <1>2, <2>1, <2>2
<1>14. CASE UNCHANGED <<ro, pc, loc, queue, budget, desired>>
  <2>1. Told' = Told
    BY <1>14 DEF Told
  <2>2. batch' = batch
    BY <1>1, <1>14, <2>1 DEF Renews
  <2> QED
    BY <1>2, <1>14, <2>2
<1> QED
  <2>1. \/ Manager \/ EditPaused \/ Tick
        \/ UNCHANGED <<ro, pc, loc, queue, budget, desired>>
    BY <1>6, <1>12 DEF Next, world, local, CacheSync, Install, Reboot, StampTwin,
           LivenessChange, MoveWindow
  <2> QED
    BY <1>7, <1>8, <1>9, <1>10, <1>11, <1>13, <1>14, <2>1 DEF Manager

\* The age of the budget grows with time, and only a renewal takes it back;
\* nobody is told before it is set up.
LEMMA OpenedStep ==
    ASSUME TypeOK, RolloutInv, BudgetInv, BNext, counted', ~Renews
    PROVE  /\ \/ Kept'.openedAt = Kept.openedAt
              \/ Tick /\ Kept'.openedAt = Older(Kept.openedAt, Hour)
           /\ Kept.openedAt = NoTime =>
                 Told' = Told /\ pc' \notin {"Observe", "Dispatch"}
<1>1. AgeInv /\ faults' = 0 /\ ~(pc = "Finish" /\ pc' = "Idle" /\ ~held)
  BY CountedStep
<1>2. Next /\ VersionInv
  BY DEF BNext, RolloutInv
<1>3. Kept.openedAt = NoTime => pc \notin {"Observe", "Dispatch"}
  BY <1>1 DEF AgeInv
<1>4. CASE Reconcile
  <2>1. pc = "Idle" /\ pc' \in {"Window", "Finish"} /\ Told' = Told /\ fresh
    BY <1>1, <1>4 DEF Reconcile, world, Told, TypeOK
  <2>2. loc'.openedAt = ro.openedAt
    BY <1>2, <1>4, <2>1 DEF Reconcile, VersionInv, TypeOK, RolloutType
  <2> QED
    BY <2>1, <2>2 DEF Kept
<1>5. CASE CheckWindow
  <2> DEFINE d == EvaluateWindowsFor
             r == Opened(loc, d)
  <2>1. pc = "Window" /\ pc' \in {"Observe", "Finish"} /\ Told' = Told
    BY <1>5 DEF CheckWindow, world, Told
  <2>2. CASE ~d.Open
    <3>1. pc' = "Finish" /\ loc'.openedAt = loc.openedAt
      BY <1>5, <2>2 DEF CheckWindow, TypeOK, RolloutType
    <3> QED
      BY <2>1, <3>1 DEF Kept
  <2>3. CASE d.Open
    <3>1. ~ResetsBudget(loc, d)
      BY <2>1, <2>3 DEF Renews
    <3>2. loc.openedAt # NoTime
      BY <3>1 DEF ResetsBudget
    <3>3. r.openedAt = loc.openedAt /\ r \in RolloutType
      BY <3>1, OpenedType DEF Opened, TypeOK, RolloutType
    <3>4. loc'.openedAt = r.openedAt
      <4> HIDE DEF d, r
      <4> QED
        BY <1>5, <2>3, <3>3 DEF CheckWindow, RolloutType, d, r
    <3> QED
      BY <2>1, <3>2, <3>3, <3>4 DEF Kept
  <2> QED
    BY <2>2, <2>3
<1>6. CASE Observe \/ Dispatch
  <2>1. pc \in {"Observe", "Dispatch"} /\ pc' \in {"Finish", "Dispatch"}
    BY <1>6 DEF Observe, Dispatch
  <2>2. loc'.openedAt = loc.openedAt
    BY <1>6 DEF Observe, Dispatch, CountDispatch, TypeOK, RolloutType
  <2> QED
    BY <1>3, <2>1, <2>2 DEF Kept
<1>7. CASE Finish
  <2>1. pc = "Finish" /\ pc' = "Idle" /\ ro' = loc /\ Told' = Told
    BY <1>1, <1>7 DEF Finish, Return, WriteAccepted, world, Told, TypeOK
  <2> QED
    BY <2>1 DEF Kept
<1>8. ~Abort /\ ~Crash
  BY <1>1 DEF Abort, Crash, TypeOK
<1>9. CASE EditPaused
  <2>1. pc' = pc /\ loc' = loc /\ ro'.openedAt = ro.openedAt /\ Told' = Told
    BY <1>9 DEF EditPaused, world, Told, TypeOK, RolloutType
  <2> QED
    BY <1>3, <2>1 DEF Kept
<1>10. CASE Tick
  <2>1. /\ pc' = pc /\ Told' = Told
        /\ ro' = AgeRollout(ro) /\ loc' = AgeRollout(loc)
    BY <1>10 DEF Tick, Told
  <2>2. /\ AgeRollout(ro).openedAt = Older(ro.openedAt, Hour)
        /\ AgeRollout(loc).openedAt = Older(loc.openedAt, Hour)
    BY DEF AgeRollout, TypeOK, RolloutType
  <2> QED
    BY <1>3, <1>10, <2>1, <2>2 DEF Kept
<1>11. CASE UNCHANGED <<ro, pc, loc, desired>>
  BY <1>3, <1>11 DEF Kept, Told
<1> QED
  <2>1. \/ Manager \/ EditPaused \/ Tick
        \/ UNCHANGED <<ro, pc, loc, desired>>
    BY <1>2, <1>8 DEF Next, world, local, CacheSync, Install, Reboot, StampTwin,
           LivenessChange, MoveWindow
  <2> QED
    BY <1>4, <1>5, <1>6, <1>7, <1>9, <1>10, <1>11, <2>1 DEF Manager

\* What was told before the last renewal stays at most one budget: between two
\* renewals it only grows older, and a renewal finds all of it past the hour.
LEMMA AgeStep ==
    ASSUME TypeOK, TypeOK', RolloutInv, BudgetInv, BNext, counted'
    PROVE  AgeInv'
<1>1. CountInv /\ AgeInv /\ BatchInv
  BY CountedStep DEF BudgetInv
<1>2. /\ \A d \in Device : age'[d] >= age[d] /\ age'[d] \in Nat /\ age[d] \in Nat
      /\ Tick => \A d \in Told : age'[d] = Older(age[d], Hour)
      /\ Renews => batch' = New
      /\ ~Renews => batch' = batch \cup New
      /\ Told' = Told => New = {} /\ (~Renews => batch' = batch)
  BY <1>1, BatchStep DEF RolloutInv
<1>3. /\ Hour \in Nat /\ Limit \in Nat /\ NoTime \notin Int
      /\ Kept.openedAt \in Nat \cup {NoTime} /\ Kept'.openedAt \in Nat \cup {NoTime}
  BY RolloutAssumption, LimitType DEF Kept, TypeOK, RolloutType
<1>4. Earlier \in SUBSET Device /\ Earlier' \in SUBSET Device /\ Told \in SUBSET Device
  BY DEF Earlier, Told
<1>5. CASE Renews
  <2>1. /\ pc = "Window" /\ pc' \in {"Observe", "Finish"} /\ EvaluateWindowsFor.Open
        /\ ResetsBudget(loc, EvaluateWindowsFor)
    BY <1>5 DEF Renews
  <2>2. CheckWindow \/ Abort \/ Crash
    BY <2>1 DEF BNext, Next, Manager, Reconcile, Observe, Dispatch, Finish, local,
         CacheSync, EditPaused, Tick, Install, Reboot, StampTwin, LivenessChange,
         MoveWindow
  <2>3. CheckWindow
    BY <2>1, <2>2 DEF Abort, Crash, Return
  <2>4. Told' = Told /\ batch' = {}
    <3>1. Told' = Told
      BY <2>3 DEF CheckWindow, world, Told
    <3> QED
      BY <1>2, <1>5, <3>1
  <2>5. loc'.openedAt = 0
    <3> DEFINE d == EvaluateWindowsFor
               r == Opened(loc, d)
    <3>1. r.openedAt = 0 /\ r \in RolloutType
      BY <2>1, OpenedType DEF Opened, TypeOK, RolloutType
    <3> HIDE DEF d, r
    <3> QED
      BY <2>1, <2>3, <3>1 DEF CheckWindow, RolloutType, d, r
  <2>6. Kept'.openedAt = 0
    BY <2>1, <2>5 DEF Kept
  <2>7. Earlier' \subseteq batch
    <3>1. CASE loc.openedAt = NoTime
      <4>1. Told = {}
        BY <1>1, <2>1, <3>1 DEF AgeInv, Kept
      <4> QED
        BY <2>4, <4>1 DEF Earlier
    <3>2. CASE loc.openedAt # NoTime
      <4>1. loc.openedAt > Hour
        BY <2>1, <3>2 DEF ResetsBudget
      <4>2. Kept = loc
        BY <2>1 DEF Kept
      <4>3. \A d \in Told \ batch : age[d] >= loc.openedAt
        BY <1>1, <3>2, <4>2 DEF AgeInv
      <4>4. loc.openedAt \in Nat
        BY <1>3, <3>2, <4>2
      <4> QED
        BY <1>2, <1>3, <1>4, <2>4, <4>1, <4>3, <4>4 DEF Earlier
    <3> QED
      BY <3>1, <3>2
  <2>8. Limit > 0 => Cardinality(Earlier') <= Limit
    <3>1. /\ IsFiniteSet(batch) /\ Cardinality(batch) \in Nat
          /\ Cardinality(Earlier') \in Nat /\ Cardinality(queue) \in Nat
      BY <1>1, <1>4, FleetSize DEF BatchInv, TypeOK
    <3>2. Cardinality(Earlier') <= Cardinality(batch)
      BY <2>7, <3>1, FS_Subset
    <3>3. Fits(loc.dispatched, Cardinality(batch), Cardinality(queue))
      BY <1>1, <2>1 DEF CountInv, Kept
    <3>4. loc.dispatched \in Nat
      BY DEF TypeOK, RolloutType
    <3> QED
      BY <1>3, <3>1, <3>2, <3>3, <3>4 DEF Fits
  <2>9. \A d \in Told' \ batch' : age'[d] >= 0
    BY <1>2, <1>4, <2>4
  <2> QED
    BY <1>3, <2>6, <2>8, <2>9 DEF AgeInv, Limit
<1>6. CASE ~Renews
  <2>1. Told' \ batch' \subseteq Told \ batch
    BY <1>2, <1>6 DEF New
  <2>2. Earlier' \subseteq Earlier
    <3> SUFFICES ASSUME NEW d \in Earlier' PROVE d \in Earlier
      OBVIOUS
    <3>1. d \in Device /\ d \in Told \ batch /\ age'[d] <= Hour
      BY <1>4, <2>1 DEF Earlier
    <3>2. age[d] <= Hour
      BY <1>2, <1>3, <3>1
    <3> QED
      BY <3>1, <3>2 DEF Earlier
  <2>3. Limit > 0 => Cardinality(Earlier') <= Limit
    <3>1. /\ IsFiniteSet(Earlier) /\ Cardinality(Earlier) \in Nat
          /\ Cardinality(Earlier') \in Nat
      BY <1>4, FleetSize
    <3>2. Cardinality(Earlier') <= Cardinality(Earlier)
      BY <2>2, <3>1, FS_Subset
    <3> QED
      BY <1>1, <1>3, <3>1, <3>2 DEF AgeInv
  <2>4. /\ \/ Kept'.openedAt = Kept.openedAt
           \/ Tick /\ Kept'.openedAt = Older(Kept.openedAt, Hour)
        /\ Kept.openedAt = NoTime => Told' = Told /\ pc' \notin {"Observe", "Dispatch"}
    BY <1>6, OpenedStep
  <2>5. Kept'.openedAt = NoTime <=> Kept.openedAt = NoTime
    BY <1>3, <2>4 DEF Older
  <2>6. Kept'.openedAt = NoTime => Told' = {} /\ pc' \notin {"Observe", "Dispatch"}
    BY <1>1, <2>4, <2>5 DEF AgeInv
  <2>7. Kept'.openedAt # NoTime => \A d \in Told' \ batch' : age'[d] >= Kept'.openedAt
    <3> SUFFICES ASSUME Kept'.openedAt # NoTime, NEW d \in Told' \ batch'
                 PROVE  age'[d] >= Kept'.openedAt
      OBVIOUS
    <3>1. d \in Told /\ d \in Device /\ age[d] >= Kept.openedAt
      BY <1>1, <1>4, <2>1, <2>5 DEF AgeInv
    <3>2. Kept.openedAt \in Nat /\ Kept'.openedAt \in Nat
      BY <1>3, <2>5
    <3>3. CASE Kept'.openedAt = Kept.openedAt
      BY <1>2, <3>1, <3>2, <3>3
    <3>4. CASE Tick /\ Kept'.openedAt = Older(Kept.openedAt, Hour)
      <4>1. age'[d] = Older(age[d], Hour)
        BY <1>2, <3>1, <3>4
      <4>2. age[d] \in Nat
        BY <1>2, <3>1
      <4> QED
        BY <1>3, <3>1, <3>2, <3>4, <4>1, <4>2 DEF Older
    <3> QED
      BY <2>4, <3>3, <3>4
  <2> QED
    BY <2>3, <2>6, <2>7 DEF AgeInv, Limit
<1> QED
  BY <1>5, <1>6

\* What was found open stays noted until the reconcile ends.
LEMMA ConsentStep ==
    ASSUME TypeOK, ConsentInv, [HNext]_hvars
    PROVE  ConsentInv'
<1>1. CASE UNCHANGED hvars
  BY <1>1 DEF hvars, vars, local, ConsentInv
<1>2. CASE HNext /\ CheckWindow
  <2>1. pc = "Window" /\ (pc' \in {"Observe", "Dispatch"} => EvaluateWindowsFor.Open)
    BY <1>2 DEF CheckWindow
  <2>2. pc' \in {"Observe", "Dispatch"} => consent' = open
    BY <1>2, <2>1 DEF HNext
  <2> QED
    BY <2>1, <2>2, OpenVerdict DEF ConsentInv
<1>3. CASE HNext /\ ~CheckWindow
  <2>1. pc' \in {"Observe", "Dispatch"} => pc \in {"Observe", "Dispatch"}
    BY <1>3 DEF HNext, Next, Manager, Reconcile, Observe, Dispatch, Finish, Abort, Crash,
         Return, local, CacheSync, EditPaused, Tick, Install, Reboot, StampTwin,
         LivenessChange, MoveWindow
  <2>2. pc \in {"Observe", "Dispatch"} /\ pc' \in {"Observe", "Dispatch"} => consent' = consent
    BY <1>3 DEF HNext
  <2> QED
    BY <2>1, <2>2 DEF ConsentInv
<1> QED
  BY <1>1, <1>2, <1>3

\* Over any number of reconciles, pauses, resumes and moves of the windows, for
\* every list of windows, no more devices are told within an hour than twice what
\* MaxDevicesPerWindow says, as long as no call fails and no status is refused.
THEOREM HourlyBudget == BSpec => []HourlyExposure
<1>1. BInit => BudgetInv
  <2> SUFFICES ASSUME BInit PROVE BudgetInv
    OBVIOUS
  <2>1. /\ faults = 0 /\ pc = "Idle" /\ queue = {} /\ ro = NewRollout
        /\ age = [d \in Device |-> 0] /\ batch = {}
    BY Zenon DEF BInit, Init
  <2>2. Told = {}
    BY DEF BInit, Init, Told, None, Old, Want
  <2>3. Kept.dispatched = 0 /\ Kept.openedAt = NoTime
    BY <2>1 DEF Kept, NewRollout
  <2>4. Earlier = {}
    BY <2>2 DEF Earlier
  <2>5. Cardinality({}) = 0
    BY FS_EmptySet
  <2>6. CountInv
    BY <2>1, <2>3, <2>5, LimitType DEF CountInv, Fits
  <2>7. AgeInv
    BY <2>1, <2>2, <2>3, <2>4, <2>5, LimitType DEF AgeInv
  <2> QED
    BY <2>1, <2>6, <2>7 DEF BudgetInv, BatchInv
<1>2. TypeOK /\ TypeOK' /\ RolloutInv /\ BudgetInv /\ [BNext]_bvars => BudgetInv'
  <2> SUFFICES ASSUME TypeOK, TypeOK', RolloutInv, BudgetInv, [BNext]_bvars
               PROVE  BudgetInv'
    OBVIOUS
  <2>1. CASE UNCHANGED bvars
    BY <2>1 DEF bvars, vars, world, local, bounds, BudgetInv, BatchInv, CountInv, AgeInv,
       Kept, Earlier, Told, Fits, Limit
  <2>2. CASE BNext
    <3>1. BatchInv'
      BY <2>2, BatchStep DEF RolloutInv, BudgetInv
    <3>2. counted' => CountInv' /\ AgeInv'
      BY <2>2, CountStep, AgeStep
    <3> QED
      BY <3>1, <3>2 DEF BudgetInv
  <2> QED
    BY <2>1, <2>2
<1>3. TypeOK /\ BudgetInv => HourlyExposure
  <2> SUFFICES ASSUME TypeOK, BudgetInv, counted, Limit > 0
               PROVE  Cardinality(Lately) <= 2 * Limit
    BY DEF HourlyExposure
  <2>1. Kept.dispatched \in Nat /\ queue \in SUBSET Device /\ Limit \in Nat
    BY LimitType DEF Kept, TypeOK, RolloutType
  <2>2. batch \in SUBSET Device /\ Earlier \in SUBSET Device /\ Lately \in SUBSET Device
    BY DEF BudgetInv, BatchInv, Earlier, Lately, Told
  <2>3. /\ Cardinality(queue) \in Nat
        /\ IsFiniteSet(batch) /\ Cardinality(batch) \in Nat
        /\ IsFiniteSet(Earlier) /\ Cardinality(Earlier) \in Nat
        /\ IsFiniteSet(Lately) /\ Cardinality(Lately) \in Nat
    BY <2>1, <2>2, FleetSize
  <2>4. Cardinality(batch) <= Limit /\ Cardinality(Earlier) <= Limit
    BY <2>1, <2>3 DEF BudgetInv, CountInv, AgeInv, Fits
  <2>5. Lately \subseteq batch \cup Earlier
    BY DEF Lately, Earlier
  <2>6. /\ IsFiniteSet(batch \cup Earlier)
        /\ Cardinality(batch \cup Earlier) =
             Cardinality(batch) + Cardinality(Earlier) - Cardinality(batch \cap Earlier)
    BY <2>3, FS_Union
  <2>7. (batch \cap Earlier) \in SUBSET Device
    BY <2>2
  <2>8. Cardinality(batch \cap Earlier) \in Nat
    BY <2>7, FleetSize
  <2>9. Cardinality(Lately) <= Cardinality(batch \cup Earlier)
    BY <2>5, <2>6, FS_Subset
  <2> QED
    BY <2>1, <2>3, <2>4, <2>6, <2>8, <2>9
<1> QED
  BY <1>1, <1>2, <1>3, BudgetRefines, RolloutInvariant, TypeCorrect, PTL DEF BSpec, Spec

\* No device is told by a reconcile that found a selecting window closed.
THEOREM ClosedWins == HSpec => ClosedWindowWins
<1>1. HInit => ConsentInv
  BY DEF HInit, Init, ConsentInv
<1>2. TypeOK /\ ConsentInv /\ [HNext]_hvars => ConsentInv'
  BY ConsentStep
<1>3. ConsentInv /\ [HNext]_hvars =>
        [Told' # Told => \A w \in DOMAIN Windows : Windows[w].selects => w \in consent]_hvars
  <2> SUFFICES ASSUME ConsentInv, HNext, Told' # Told PROVE pc = "Dispatch"
    BY DEF ConsentInv
  <2>1. desired' # desired
    BY DEF Told
  <2> QED
    BY <2>1 DEF HNext, Next, Manager, Reconcile, CheckWindow, Observe, Dispatch,
       Finish, Abort, Crash, world, CacheSync, EditPaused, Tick, Install, Reboot,
       StampTwin, LivenessChange, MoveWindow
<1> QED
  BY <1>1, <1>2, <1>3, HistoryRefines, TypeCorrect, PTL DEF HSpec, ClosedWindowWins
=============================================================================
