-------------------------- MODULE ReportingProofs --------------------------
(***************************************************************************)
(* Proofs about Reporting, for every deployment, cycle and threshold.      *)
(***************************************************************************)
EXTENDS Reporting, NaturalFacts

\* The thresholds are positive and depend on the deployment only.
LEMMA Thresholds ==
    ASSUME cfg \in Config
    PROVE  /\ Interval \in Nat \ {0} /\ Mult \in Nat \ {0}
           /\ StaleLimit \in Nat /\ Requeue \in Nat \ {0}
<1>1. cfg \in ConfigType /\ DefaultStaleMultiplier = 3
  BY ReportingAssumption DEF DefaultStaleMultiplier
<1>2. /\ cfg.interval \in Nat /\ cfg.mult \in Nat
      /\ cfg.specInterval \in Nat /\ cfg.specMult \in Nat
  BY <1>1 DEF ConfigType
<1>3. Interval \in Nat \ {0} /\ Mult \in Nat \ {0}
  BY <1>1, <1>2, ReportingAssumption DEF Interval, Mult, OrElse
<1>4. StaleLimit \in Nat
  BY <1>3 DEF StaleLimit
<1>5. Interval \div 3 \in Nat
  BY <1>3
<1>6. Requeue \in Nat \ {0}
  BY <1>5, ReportingAssumption DEF Requeue
<1> QED
  BY <1>3, <1>4, <1>6

\* No step changes the deployment.
LEMMA SameThresholds ==
    ASSUME cfg' = cfg
    PROVE  /\ Interval' = Interval /\ Mult' = Mult
           /\ StaleLimit' = StaleLimit /\ Requeue' = Requeue /\ Key' = Key
BY DEF Interval, Mult, StaleLimit, Requeue, Key

\* Ages stay ages.
LEMMA OlderType ==
    ASSUME NEW a \in Age \cup {Never}
    PROVE  /\ Older(a) \in Age \cup {Never}
           /\ a \in Age => Older(a) \in Age /\ a <= Older(a) /\ Older(a) <= a + 1
           /\ Older(a) = Never <=> a = Never
BY ReportingAssumption DEF Older, Age

-----------------------------------------------------------------------------
(* Type correctness *)

LEMMA TypeInit == Init => ReportingTypeOK
<1> SUFFICES ASSUME Init PROVE ReportingTypeOK
  OBVIOUS
<1>1. Requeue \in Nat \ {0} /\ cfg \in Config /\ cfg \in ConfigType
  BY Thresholds, ReportingAssumption DEF Init
<1>2. cfg.kinds \subseteq Kind
  BY <1>1 DEF ConfigType
<1> QED
  BY <1>1, <1>2, ReportingAssumption
     DEF Init, ReportingTypeOK, Age, Kind, RetainedStatus

LEMMA TypeStep == ReportingTypeOK /\ [Next]_vars => ReportingTypeOK'
<1> SUFFICES ASSUME ReportingTypeOK, [Next]_vars PROVE ReportingTypeOK'
  OBVIOUS
<1> USE ReportingAssumption
<1>1. /\ Requeue \in Nat \ {0} /\ cfg \in ConfigType
      /\ cfg.kinds \subseteq Kind
  BY Thresholds DEF ReportingTypeOK, ConfigType
<1>2. cfg' = cfg
  BY DEF Next, vars, Publish, PushToEdgeCore, Frame, Birth, Will, StatusMessage,
         LoseBroker, Reconnect, Restart, PushStatesToEdgeCore, CutLink, HealLink,
         Reconcile, Tick
<1>3. Requeue' = Requeue
  BY <1>2, SameThresholds
<1>4. RetainedStatus \in {"unknown", "online", "offline"} /\ \A k : Heard(k) \subseteq Property
  BY DEF ReportingTypeOK, RetainedStatus, Heard
<1>5. ASSUME NEW p \in Property, Publish(p) PROVE ReportingTypeOK'
  BY <1>2, <1>3, <1>5 DEF ReportingTypeOK, Publish, Kind, Age, timers, queue, cloud
<1>6. ASSUME NEW p \in Property, PushToEdgeCore(p) PROVE ReportingTypeOK'
  BY <1>1, <1>2, <1>3, <1>6 DEF ReportingTypeOK, PushToEdgeCore, Age, device, client, queue
<1>7. ASSUME NEW S \in SUBSET Property, Frame(S) PROVE ReportingTypeOK'
  BY <1>2, <1>3, <1>7 DEF ReportingTypeOK, Frame, Kind, Age, timers, queue, cloud
<1>8. CASE Birth
  BY <1>2, <1>3, <1>8 DEF ReportingTypeOK, Birth, StatusMessage, Age, timers, queue, cloud
<1>9. CASE Will
  BY <1>2, <1>3, <1>9 DEF ReportingTypeOK, Will, StatusMessage, timers, queue, cloud
<1>10. CASE LoseBroker
  <2>1. conn' \in BOOLEAN
    BY <1>10, Zenon DEF LoseBroker
  <2>2. /\ subs' \subseteq Kind /\ status' \in {"unknown", "online", "offline"}
        /\ faults' \in 0..MaxFaults
    BY <1>10 DEF ReportingTypeOK, LoseBroker, Fault
  <2> QED
    BY <1>2, <1>3, <1>10, <2>1, <2>2 DEF ReportingTypeOK, LoseBroker, device, timers, queue, cloud
<1>11. CASE Reconnect
  <2>1. subs' \subseteq Kind /\ status' \in {"unknown", "online", "offline"}
    BY <1>1, <1>4, <1>11 DEF Reconnect, Subscribed
  <2>2. cache' \in [Kind -> SUBSET Property]
    BY <1>4, <1>11 DEF Reconnect, ReportingTypeOK
  <2>3. faults' \in 0..MaxFaults
    BY <1>11 DEF Reconnect, ReportingTypeOK, Fault
  <2> QED
    BY <1>2, <1>3, <1>11, <2>1, <2>2, <2>3
       DEF Reconnect, ReportingTypeOK, device, timers, queue, cloud
<1>12. CASE Restart
  <2>1. subs' \subseteq Kind /\ status' \in {"unknown", "online", "offline"}
    BY <1>1, <1>4, <1>12 DEF Restart, Subscribed
  <2>2. cache' \in [Kind -> SUBSET Property]
    BY <1>4, <1>12 DEF Restart
  <2> QED
    BY <1>2, <1>3, <1>12, <2>1, <2>2
       DEF Restart, Fault, ReportingTypeOK, device, queue, cloud
<1>13. CASE PushStatesToEdgeCore
  <2>1. GetDeviceStates \in {"ok", "offline", "disconnected", "unknown"}
    BY DEF GetDeviceStates, HealthyState
  <2> QED
    BY <1>2, <1>3, <1>13, <2>1 DEF PushStatesToEdgeCore, ReportingTypeOK, device, client, queue
<1>14. CASE CutLink
  <2>1. link' \in BOOLEAN
    BY <1>14, Zenon DEF CutLink
  <2>2. faults' \in 0..MaxFaults
    BY <1>14 DEF ReportingTypeOK, CutLink, Fault
  <2> QED
    BY <1>2, <1>3, <1>14, <2>1, <2>2 DEF CutLink, ReportingTypeOK, device, client, timers, queue
<1>15. CASE HealLink
  BY <1>2, <1>3, <1>15 DEF HealLink, ReportingTypeOK, device, client, timers, queue
<1>16. CASE Reconcile
  <2>1. Assessment \in {"Unknown", "Online", "Sleeping", "Unreachable"}
    BY DEF Assessment, Verdict
  <2>2. live' \in {"none", "Unknown", "Online", "Sleeping", "Unreachable"}
    BY <1>16, <2>1 DEF Reconcile, Published, ReportingTypeOK
  <2>3. /\ assessed' \in Nat /\ failed' \in Nat /\ retry' \in 0..MaxBackoff
        /\ faults' \in 0..MaxFaults
    BY <1>16 DEF Reconcile, Published, Fault, ReportingTypeOK
  <2> QED
    BY <1>2, <1>3, <1>16, <2>2, <2>3 DEF Reconcile, ReportingTypeOK, device, client
<1>17. CASE Tick
  <2>1. quiet' \in Age /\ frame' \in Age \cup {Never}
    BY <1>17, OlderType DEF Tick, ReportingTypeOK
  <2>2. twin' \in [Property -> Age \cup {Never}]
    BY <1>17, OlderType DEF Tick, ReportingTypeOK
  <2>3. pushed' \in [Property -> 0..CollectCycle] /\ stated' \in 0..ReportCycle
    BY <1>17 DEF Tick, ReportingTypeOK
  <2>4. assessed' \in Nat /\ failed' \in Nat /\ retry' \in 0..MaxBackoff
    BY <1>17 DEF Tick, ReportingTypeOK
  <2> QED
    BY <1>2, <1>3, <1>17, <2>1, <2>2, <2>3, <2>4 DEF Tick, ReportingTypeOK
<1>18. CASE UNCHANGED vars
  BY <1>2, <1>3, <1>18 DEF ReportingTypeOK, vars, device, client, timers, queue, cloud
<1> QED
  BY <1>5, <1>6, <1>7, <1>8, <1>9, <1>10, <1>11, <1>12, <1>13, <1>14, <1>15, <1>16,
     <1>17, <1>18 DEF Next

\* Type correctness of the reporting chain: every state that is reported or
\* published is one of its vocabulary, and no timer runs past its cycle.
THEOREM ReportingTypeCorrect == Spec => []ReportingTypeOK
  BY TypeInit, TypeStep, PTL DEF Spec

-----------------------------------------------------------------------------
(* The age of the published state *)

\* What makes PublishedIsTimely inductive: the state was right when it was
\* judged, and the reports have aged since then by no more than the time since.
VerdictAge ==
    /\ live = "Online" => \E p \in Stamped : twin[p] <= Interval + assessed
    /\ live = "Sleeping" => \E p \in Stamped : twin[p] <= StaleLimit + assessed
    /\ live = "Unreachable" =>
         \A p \in Stamped : twin[p] > StaleLimit \/ twin[p] <= assessed

\* A twin that has a timestamp has an age.
LEMMA StampedAge ==
    ASSUME ReportingTypeOK
    PROVE  /\ Stamped \subseteq Property
           /\ \A p \in Stamped : twin[p] \in Age /\ twin[p] \in Nat
BY ReportingAssumption DEF ReportingTypeOK, Stamped, Age

\* A judgement is right for the freshest of the reports.
LEMMA AssessmentIsRight ==
    ASSUME ReportingTypeOK
    PROVE  /\ Assessment = "Online" => \E p \in Stamped : twin[p] <= Interval
           /\ Assessment = "Sleeping" => \E p \in Stamped : twin[p] <= StaleLimit
           /\ Assessment = "Unreachable" => \A p \in Stamped : twin[p] > StaleLimit
<1>1. CASE Stamped = {}
  BY <1>1 DEF Assessment
<1>2. CASE Stamped # {}
  <2> DEFINE T == {twin[p] : p \in Stamped}
             Freshest(p) == \A q \in Stamped : twin[p] <= twin[q]
             f == CHOOSE p \in Stamped : Freshest(p)
  <2>1. T \in SUBSET Nat /\ T # {}
    BY <1>2, StampedAge
  <2>2. PICK m \in T : \A y \in T : m <= y
    BY <2>1, LeastNatural
  <2>3. \E p \in Stamped : Freshest(p)
    BY <2>2
  <2>4. f \in Stamped /\ Freshest(f)
    BY <2>3
  <2>5. Assessment = Verdict(twin[f])
    BY <1>2 DEF Assessment
  <2>6. /\ StaleLimit \in Nat /\ Interval \in Nat
        /\ \A p \in Stamped : twin[p] \in Nat
    BY Thresholds, StampedAge DEF ReportingTypeOK
  <2> HIDE DEF f
  <2> QED
    BY <2>4, <2>5, <2>6 DEF Verdict
<1> QED
  BY <1>1, <1>2

\* The time since the last judgement and the time to the next are within the
\* requeue and the delays of the failures so far.
BackoffInv ==
    /\ failed = 0 => assessed <= Requeue /\ retry = 0
    /\ assessed + retry <= Delay

LEMMA BackoffInit == Init => BackoffInv
<1> SUFFICES ASSUME Init PROVE BackoffInv
  OBVIOUS
<1>1. Requeue \in Nat
  BY Thresholds DEF Init
<1>2. 0 * MaxBackoff = 0
  BY ReportingAssumption
<1> QED
  BY <1>1, <1>2 DEF Init, BackoffInv, Delay

\* One more failure is one more delay.
LEMMA DelayGrows ==
    ASSUME ReportingTypeOK
    PROVE  /\ Delay \in Nat /\ Requeue <= Delay
           /\ Requeue + (failed + 1) * MaxBackoff = Delay + MaxBackoff
<1>1. Requeue \in Nat /\ failed \in Nat /\ MaxBackoff \in Nat
  BY Thresholds, ReportingAssumption DEF ReportingTypeOK
<1>2. failed * MaxBackoff \in Nat
  BY <1>1
<1>3. (failed + 1) * MaxBackoff = failed * MaxBackoff + MaxBackoff
  BY <1>1
<1> QED
  BY <1>1, <1>2, <1>3 DEF Delay

LEMMA BackoffStep ==
    ReportingTypeOK /\ ReportingTypeOK' /\ BackoffInv /\ [Next]_vars => BackoffInv'
<1> SUFFICES ASSUME ReportingTypeOK, ReportingTypeOK', BackoffInv, [Next]_vars
             PROVE  BackoffInv'
  OBVIOUS
<1>1. cfg' = cfg
  BY DEF Next, vars, Publish, PushToEdgeCore, Frame, Birth, Will, StatusMessage,
         LoseBroker, Reconnect, Restart, PushStatesToEdgeCore, CutLink, HealLink,
         Reconcile, Tick
<1>2. Requeue' = Requeue /\ Requeue \in Nat
  BY <1>1, SameThresholds, Thresholds DEF ReportingTypeOK
<1>3. /\ assessed \in Nat /\ retry \in Nat /\ failed \in Nat
      /\ assessed' \in Nat /\ retry' \in Nat /\ retry' <= MaxBackoff
      /\ failed' \in Nat /\ MaxBackoff \in Nat
  BY ReportingAssumption DEF ReportingTypeOK
<1>4. ASSUME UNCHANGED queue PROVE BackoffInv'
  BY <1>2, <1>4 DEF BackoffInv, Delay, queue
<1>5. CASE Reconcile
  <2>1. CASE assessed' = 0 /\ failed' = 0 /\ retry' = 0
    <3>1. 0 * MaxBackoff = 0
      BY <1>3
    <3>2. Delay' = Requeue
      BY <1>2, <2>1, <3>1 DEF Delay
    <3> QED
      BY <1>2, <2>1, <3>2 DEF BackoffInv
  <2>2. CASE assessed' = assessed /\ failed' = failed + 1
    <3>1. Delay' = Delay + MaxBackoff
      BY <1>2, <2>2, DelayGrows DEF Delay
    <3>2. Delay \in Nat
      BY DelayGrows
    <3>3. failed' # 0
      BY <1>3, <2>2
    <3>4. assessed + retry <= Delay
      BY DEF BackoffInv
    <3>5. assessed + retry' <= Delay + MaxBackoff
      <4>1. \A a, x, y, m, d \in Nat : a + x <= d /\ y <= m => a + y <= d + m
        OBVIOUS
      <4>2. MaxBackoff \in Nat /\ retry' <= MaxBackoff
        BY <1>3
      <4> QED
        BY <1>3, <3>2, <3>4, <4>1, <4>2
    <3>6. assessed' + retry' <= Delay'
      BY <2>2, <3>1, <3>5
    <3> QED
      BY <3>3, <3>6 DEF BackoffInv
  <2> QED
    BY <1>5, <2>1, <2>2 DEF Reconcile, Published
<1>6. CASE Tick
  <2>1. failed' = failed /\ assessed' = assessed + 1
    BY <1>6 DEF Tick
  <2>2. Delay' = Delay /\ Delay \in Nat /\ Requeue <= Delay
    BY <1>2, <2>1, DelayGrows DEF Delay
  <2>3. CASE failed = 0
    BY <1>2, <1>3, <1>6, <2>1, <2>2, <2>3 DEF Tick, BackoffInv
  <2>4. CASE failed # 0
    BY <1>3, <1>6, <2>1, <2>2, <2>4 DEF Tick, BackoffInv
  <2> QED
    BY <2>3, <2>4
<1>7. CASE \/ \E p \in Property : Publish(p) \/ PushToEdgeCore(p)
           \/ \E S \in SUBSET Property : Frame(S)
           \/ Birth \/ Will \/ LoseBroker \/ Reconnect \/ Restart
           \/ PushStatesToEdgeCore \/ CutLink \/ HealLink \/ UNCHANGED vars
  BY <1>4, <1>7 DEF Publish, PushToEdgeCore, Frame, Birth, Will, StatusMessage,
     LoseBroker, Reconnect, Restart, PushStatesToEdgeCore, CutLink, HealLink, vars, timers
<1> QED
  BY <1>5, <1>6, <1>7 DEF Next

LEMMA AgeInit == Init => VerdictAge
BY DEF Init, VerdictAge

LEMMA AgeStep ==
    ReportingTypeOK /\ ReportingTypeOK' /\ VerdictAge /\ [Next]_vars => VerdictAge'
<1> SUFFICES ASSUME ReportingTypeOK, ReportingTypeOK', VerdictAge, [Next]_vars
             PROVE  VerdictAge'
  OBVIOUS
<1>1. cfg' = cfg
  BY DEF Next, vars, Publish, PushToEdgeCore, Frame, Birth, Will, StatusMessage,
         LoseBroker, Reconnect, Restart, PushStatesToEdgeCore, CutLink, HealLink,
         Reconcile, Tick
<1>2. Interval' = Interval /\ StaleLimit' = StaleLimit
  BY <1>1, SameThresholds
<1>3. /\ Interval \in Nat /\ StaleLimit \in Nat /\ Requeue \in Nat
      /\ assessed \in Nat
  BY Thresholds DEF ReportingTypeOK
<1>4. ASSUME UNCHANGED <<twin, live, assessed>> PROVE VerdictAge'
  <2>1. Stamped' = Stamped
    BY <1>1, <1>4 DEF Stamped
  <2> QED
    BY <1>2, <1>4, <2>1 DEF VerdictAge
<1>5. ASSUME NEW p \in Property, PushToEdgeCore(p) PROVE VerdictAge'
  <2>1. CASE twin' = twin
    BY <1>4, <1>5, <2>1 DEF PushToEdgeCore, queue
  <2>2. CASE twin' = [twin EXCEPT ![p] = 0]
    <3>1. live' = live /\ assessed' = assessed
      BY <1>5 DEF PushToEdgeCore, queue
    <3>2. /\ twin'[p] = 0
          /\ \A q \in Property : q # p => twin'[q] = twin[q]
      BY <2>2 DEF ReportingTypeOK
    <3>3. Stamped \subseteq Stamped' /\ Stamped' \subseteq Stamped \cup {p}
      BY <1>1, <3>2, ReportingAssumption DEF Stamped
    <3>4. \A q \in Stamped : twin'[q] <= twin[q]
      BY <3>2, StampedAge
    <3>5. \A q \in Stamped' : q = p \/ (q \in Stamped /\ twin'[q] = twin[q])
      BY <3>2, <3>3, StampedAge
    <3>6. \A q \in Stamped : twin[q] \in Nat /\ twin'[q] \in Nat
      BY <3>2, StampedAge
    <3>7. live' = "Online" => \E q \in Stamped' : twin'[q] <= Interval + assessed
      BY <1>3, <3>1, <3>3, <3>4, <3>6 DEF VerdictAge
    <3>8. live' = "Sleeping" => \E q \in Stamped' : twin'[q] <= StaleLimit + assessed
      BY <1>3, <3>1, <3>3, <3>4, <3>6 DEF VerdictAge
    <3>9. live' = "Unreachable" =>
            \A q \in Stamped' : twin'[q] > StaleLimit \/ twin'[q] <= assessed
      BY <1>3, <3>1, <3>2, <3>5 DEF VerdictAge
    <3> QED
      BY <1>2, <3>1, <3>7, <3>8, <3>9 DEF VerdictAge
  <2> QED
    BY <1>5, <2>1, <2>2 DEF PushToEdgeCore
<1>6. CASE Reconcile
  <2>1. twin' = twin /\ Stamped' = Stamped
    BY <1>1, <1>6 DEF Reconcile, Stamped
  <2>2. CASE live' = Assessment /\ assessed' = 0
    BY <1>2, <1>3, <2>1, <2>2, AssessmentIsRight DEF VerdictAge
  <2>3. CASE live' = "Unknown"
    BY <2>3 DEF VerdictAge
  <2> QED
    BY <1>4, <1>6, <2>1, <2>2, <2>3 DEF Reconcile, Published
<1>7. CASE Tick
  <2>1. live' = live /\ assessed' = assessed + 1
    BY <1>7 DEF Tick
  <2>2. \A q \in Property : twin'[q] = Older(twin[q]) /\ twin[q] \in Age \cup {Never}
    BY <1>7 DEF Tick, ReportingTypeOK
  <2>3. Stamped' = Stamped
    BY <1>1, <2>2, OlderType DEF Stamped
  <2>4. \A q \in Stamped : /\ twin[q] \in Nat /\ twin'[q] \in Nat
                           /\ twin[q] <= twin'[q] /\ twin'[q] <= twin[q] + 1
    BY <2>2, StampedAge, OlderType DEF Age
  <2>5. live' = "Online" => \E q \in Stamped' : twin'[q] <= Interval + assessed'
    BY <1>3, <2>1, <2>3, <2>4 DEF VerdictAge
  <2>6. live' = "Sleeping" => \E q \in Stamped' : twin'[q] <= StaleLimit + assessed'
    BY <1>3, <2>1, <2>3, <2>4 DEF VerdictAge
  <2>7. live' = "Unreachable" =>
          \A q \in Stamped' : twin'[q] > StaleLimit \/ twin'[q] <= assessed'
    BY <1>3, <2>1, <2>3, <2>4 DEF VerdictAge
  <2> QED
    BY <1>2, <2>5, <2>6, <2>7 DEF VerdictAge
<1>8. CASE \/ \E p \in Property : Publish(p)
           \/ \E S \in SUBSET Property : Frame(S)
           \/ Birth \/ Will \/ LoseBroker \/ Reconnect \/ Restart
           \/ PushStatesToEdgeCore \/ CutLink \/ HealLink \/ UNCHANGED vars
  BY <1>4, <1>8 DEF Publish, Frame, Birth, Will, StatusMessage, LoseBroker, Reconnect,
     Restart, PushStatesToEdgeCore, CutLink, HealLink, vars, timers, queue, cloud
<1> QED
  BY <1>5, <1>6, <1>7, <1>8 DEF Next

LEMMA AgeIsTimely == ReportingTypeOK /\ BackoffInv /\ VerdictAge => PublishedIsTimely
<1> SUFFICES ASSUME ReportingTypeOK, BackoffInv, VerdictAge PROVE PublishedIsTimely
  OBVIOUS
<1>1. /\ Interval \in Nat /\ StaleLimit \in Nat /\ Delay \in Nat
      /\ assessed \in Nat /\ assessed <= Delay
  BY Thresholds, DelayGrows DEF ReportingTypeOK, BackoffInv
<1>2. \A p \in Stamped : twin[p] \in Nat
  BY StampedAge
<1> QED
  BY <1>1, <1>2 DEF VerdictAge, PublishedIsTimely

\* However the tickers, the requeues and the failures fall, DeviceLiveness is
\* never behind the twins' timestamps by more than one requeue of Reconcile, and
\* one retry for every failure in a row.
THEOREM TimelyAlways == Spec => []PublishedIsTimely
<1> DEFINE IInv == ReportingTypeOK /\ BackoffInv /\ VerdictAge
<1>1. Init => IInv
  BY TypeInit, BackoffInit, AgeInit
<1>2. IInv /\ [Next]_vars => IInv'
  BY TypeStep, BackoffStep, AgeStep
<1>3. IInv => PublishedIsTimely
  BY AgeIsTimely
<1> QED
  BY <1>1, <1>2, <1>3, PTL DEF Spec
=============================================================================
