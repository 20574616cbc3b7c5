------------------------------ MODULE Schedule ------------------------------
(***************************************************************************)
(* Maintenance windows as policy: the schedule of controller/internal/     *)
(* window.go and how several of them compose (compose.go), as operators of *)
(* a time.                                                                 *)
(*                                                                         *)
(*   period  [cron, dur, from, until]  cron is [hour, dow] with Any for a  *)
(*           star, NoCron, or BadCron for an expression parseCron refuses; *)
(*           dur, from and until may be Nil                                *)
(*   window  [deny, allow]  sequences of periods                           *)
(*                                                                         *)
(* Time is counted in hours from a Sunday midnight of the window's         *)
(* timezone and may be negative.  Minutes, days of the month and months    *)
(* are left out: a cron line fires on the hour, on some hours and weekdays.*)
(* The search loops of lastCronFire and nextCronFire keep their reach.     *)
(***************************************************************************)
EXTENDS Integers, Sequences

CONSTANTS
    HoursPerDay, DaysPerWeek,
    LookBack,       \* how far lastCronFire searches: two days
    LookAhead,      \* how far nextCronFire searches: 370 days
    Any, NoCron, BadCron,
    Nil          \* a nil time or duration

ASSUME CalendarAssumption ==
    /\ HoursPerDay \in Nat \ {0} /\ DaysPerWeek \in Nat \ {0}
    /\ LookBack \in Nat \ {0} /\ LookAhead \in Nat \ {0}
    /\ LookBack <= HoursPerDay * DaysPerWeek
    /\ Nil \notin Int /\ Any \notin Int

PeriodType ==
    [cron : {NoCron, BadCron} \cup [hour : {Any} \cup Nat, dow : {Any} \cup Nat],
     dur : {Nil} \cup Nat, from : {Nil} \cup Int, until : {Nil} \cup Int]

\* cronSpec.matches
Fires(cron, t) ==
    /\ cron \notin {NoCron, BadCron}
    /\ cron.hour \in {Any, t % HoursPerDay}
    /\ cron.dow \in {Any, (t \div HoursPerDay) % DaysPerWeek}

\* The fires lastCronFire and nextCronFire can find.
FiresBefore(cron, now) == {t \in (now - LookBack + 1)..now : Fires(cron, t)}

lastCronFire(cron, now) ==
    LET fires == FiresBefore(cron, now)
    IN  IF fires = {} THEN Nil ELSE CHOOSE t \in fires : \A u \in fires : u <= t

nextCronFire(cron, now) ==
    LET first(t) == Fires(cron, t) /\ \A u \in (now + 1)..(t - 1) : ~Fires(cron, u)
    IN  IF \E t \in (now + 1)..(now + LookAhead) : first(t)
          THEN CHOOSE t \in (now + 1)..(now + LookAhead) : first(t) ELSE Nil

\* An hour unless the period says otherwise.
Duration(p) == IF p.dur = Nil THEN 1 ELSE p.dur

InBounds(p, now) ==
    /\ p.from # Nil => now >= p.from
    /\ p.until # Nil => now <= p.until

\* The period includes its end.
inPeriodClosed(p, now) ==
    /\ InBounds(p, now)
    /\ IF p.cron = NoCron
         THEN p.from # Nil \/ p.until # Nil
         ELSE LET start == lastCronFire(p.cron, now)
              IN  start # Nil /\ now <= start + Duration(p)

inPeriod(p, now) ==
    /\ InBounds(p, now)
    /\ IF p.cron = NoCron
         THEN p.from # Nil \/ p.until # Nil
         ELSE LET start == lastCronFire(p.cron, now)
              IN  start # Nil /\ now < start + Duration(p)

periodEnd(p, now) ==
    IF p.until # Nil THEN p.until
    ELSE IF lastCronFire(p.cron, now) = Nil THEN Nil
    ELSE lastCronFire(p.cron, now) + Duration(p)

\* The candidates nextOpening takes the earliest of.
Openings(allow, now) ==
    {IF allow[i].from # Nil /\ now < allow[i].from THEN allow[i].from
     ELSE nextCronFire(allow[i].cron, now) : i \in DOMAIN allow} \ {Nil}

Earliest(times) ==
    IF times = {} THEN Nil ELSE CHOOSE t \in times : \A u \in times : t <= u

Latest(times) ==
    IF times = {} THEN Nil ELSE CHOOSE t \in times : \A u \in times : u <= t

\* The last of the candidates.
nextOpeningLast(allow, now) == Latest(Openings(allow, now))

nextOpening(allow, now) == Earliest(Openings(allow, now))

\* Deny first, in the order listed; then no schedule at all; then Allow.
EvaluateWindow(w, now) ==
    LET denied == {i \in DOMAIN w.deny : inPeriod(w.deny[i], now)}
        first  == CHOOSE i \in denied : \A j \in denied : i <= j
    IN  IF denied # {}
          THEN [Open |-> FALSE, NextOpen |-> periodEnd(w.deny[first], now)]
        ELSE IF w.allow = <<>> \/ \E i \in DOMAIN w.allow : inPeriod(w.allow[i], now)
          THEN [Open |-> TRUE, NextOpen |-> Nil]
        ELSE [Open |-> FALSE, NextOpen |-> nextOpening(w.allow, now)]

\* EvaluateWindowsFor over the windows that select the devices: one that is
\* closed closes the whole, until the last of those that say when.
EvaluateAll(ws, now) ==
    LET closed == {w \in ws : ~EvaluateWindow(w, now).Open}
    IN  [Open |-> closed = {},
         NextOpen |-> Latest({EvaluateWindow(w, now).NextOpen : w \in closed} \ {Nil})]

-----------------------------------------------------------------------------
\* What a period says (WindowPeriod): Duration is how long it stays in force once
\* Cron fires, however long ago that was within a week.
Covers(p, now) ==
    /\ InBounds(p, now)
    /\ IF p.cron = NoCron
         THEN p.from # Nil \/ p.until # Nil
         ELSE \E start \in (now - HoursPerDay * DaysPerWeek)..now :
                Fires(p.cron, start) /\ now < start + Duration(p)
=============================================================================
