-------------------------- MODULE TorporPlanProofs --------------------------
(***************************************************************************)
(* Proofs about TorporPlan, for every fleet, calendar and set of windows.  *)
(***************************************************************************)
EXTENDS TorporPlan, NaturalFacts, FiniteSetTheorems, TLAPS

-----------------------------------------------------------------------------
(* Least and greatest times *)

\* A nonempty set of integers with a lower bound has a least element.
LEMMA LeastInteger ==
    ASSUME NEW T \in SUBSET Int, T # {}, NEW b \in Int, \A t \in T : b <= t
    PROVE  \E m \in T : \A y \in T : m <= y
<1> DEFINE D == {n \in Nat : n + b \in T}
<1>1. D \in SUBSET Nat /\ D # {}
  <2>1. PICK t \in T : TRUE
    OBVIOUS
  <2>2. t - b \in Nat /\ (t - b) + b = t
    BY <2>1
  <2> QED
    BY <2>1, <2>2
<1>2. PICK k \in D : \A y \in D : k <= y
  BY <1>1, LeastNatural
<1>3. ASSUME NEW y \in T PROVE k + b <= y
  <2>1. y - b \in Nat /\ (y - b) + b = y
    OBVIOUS
  <2>2. k <= y - b
    BY <1>2, <2>1
  <2> QED
    BY <1>2, <2>2
<1> QED
  BY <1>2, <1>3

\* A nonempty set of integers with an upper bound has a greatest element.
LEMMA GreatestInteger ==
    ASSUME NEW T \in SUBSET Int, T # {}, NEW b \in Int, \A t \in T : t <= b
    PROVE  \E m \in T : \A y \in T : y <= m
<1> DEFINE D == {n \in Int : -n \in T}
<1>1. D \in SUBSET Int /\ D # {} /\ \A n \in D : -b <= n
  <2>1. PICK t \in T : TRUE
    OBVIOUS
  <2>2. -t \in Int /\ -(-t) = t
    BY <2>1
  <2>3. ASSUME NEW n \in D PROVE -b <= n
    BY <2>3
  <2> QED
    BY <2>1, <2>2, <2>3
<1>2. PICK k \in D : \A y \in D : k <= y
  <2>1. -b \in Int
    OBVIOUS
  <2> HIDE DEF D
  <2> QED
    BY <1>1, <2>1, LeastInteger
<1>3. ASSUME NEW y \in T PROVE y <= -k
  <2>1. -y \in D
    OBVIOUS
  <2>2. k <= -y
    BY <1>2, <2>1
  <2> QED
    BY <1>2, <2>2
<1> QED
  BY <1>2, <1>3

\* An integer-valued function on a finite set is bounded: on the first so many
\* of its elements it always is.
LEMMA FiniteBounded ==
    ASSUME NEW S, IsFiniteSet(S), NEW g \in [S -> Int]
    PROVE  \E b \in Int : \A s \in S : g[s] <= b
<1>1. PICK n \in Nat : ExistsSurjection(1..n, S)
  BY FS_NatSurjection
<1>2. PICK f : f \in Surjection(1..n, S)
  BY <1>1 DEF ExistsSurjection
<1>3. f \in [1..n -> S] /\ \A s \in S : \E i \in 1..n : f[i] = s
  BY <1>2 DEF Surjection
<1> DEFINE Below(k) == \E b \in Int : \A i \in 1..k : g[f[i]] <= b
           Bad == {k \in 0..n : ~Below(k)}
<1>4. \A i \in 1..n : g[f[i]] \in Int
  BY <1>3
<1>5. Below(0)
  <2>1. \A i \in 1..0 : g[f[i]] <= 0
    OBVIOUS
  <2> QED
    BY <2>1
<1>6. ASSUME NEW k \in 1..n, Below(k - 1) PROVE Below(k)
  <2>1. PICK b \in Int : \A i \in 1..(k - 1) : g[f[i]] <= b
    BY <1>6
  <2>2. g[f[k]] \in Int
    BY <1>4
  <2>3. PICK c \in Int : b <= c /\ g[f[k]] <= c
    <3>1. CASE b <= g[f[k]]
      BY <2>2, <3>1
    <3>2. CASE ~(b <= g[f[k]])
      BY <2>2, <3>2
    <3> QED
      BY <3>1, <3>2
  <2>4. ASSUME NEW i \in 1..k PROVE g[f[i]] <= c
    <3>1. g[f[i]] \in Int
      BY <1>4
    <3>2. i = k \/ i \in 1..(k - 1)
      OBVIOUS
    <3> QED
      BY <2>1, <2>3, <3>1, <3>2
  <2> QED
    BY <2>4
<1> HIDE DEF Below
<1>7. Bad = {}
  <2> SUFFICES ASSUME Bad # {} PROVE FALSE
    OBVIOUS
  <2>1. Bad \in SUBSET Nat
    OBVIOUS
  <2>2. PICK k \in Bad : \A j \in Bad : k <= j
    <3> HIDE DEF Bad
    <3> QED
      BY <2>1, LeastNatural
  <2>3. k \in 0..n /\ ~Below(k)
    BY <2>2
  <2>4. k # 0
    BY <1>5, <2>3
  <2>5. k \in 1..n /\ k - 1 \in 0..n /\ ~(k <= k - 1)
    BY <2>3, <2>4
  <2>6. k - 1 \notin Bad
    BY <2>2, <2>5
  <2>7. Below(k - 1)
    BY <2>5, <2>6
  <2> QED
    BY <1>6, <2>3, <2>5, <2>7
<1>8. Below(n)
  <2>1. n \in 0..n
    OBVIOUS
  <2> QED
    BY <1>7, <2>1
<1>9. PICK b \in Int : \A i \in 1..n : g[f[i]] <= b
  BY <1>8 DEF Below
<1>10. ASSUME NEW s \in S PROVE g[s] <= b
  <2>1. PICK i \in 1..n : f[i] = s
    BY <1>3
  <2> QED
    BY <1>9, <2>1
<1> QED
  BY <1>10

-----------------------------------------------------------------------------
(* Periods *)

\* What lastCronFire finds is the last fire within its reach.
LEMMA LastFire ==
    ASSUME NEW cron, NEW t \in Int
    PROVE  /\ FiresBefore(cron, t) \in SUBSET ((t - LookBack + 1)..t)
           /\ IF FiresBefore(cron, t) = {} THEN lastCronFire(cron, t) = Nil
              ELSE /\ lastCronFire(cron, t) \in FiresBefore(cron, t)
                   /\ \A u \in FiresBefore(cron, t) : u <= lastCronFire(cron, t)
<1> DEFINE F == FiresBefore(cron, t)
<1>1. LookBack \in Nat
  BY CalendarAssumption
<1>2. F \in SUBSET Int /\ \A u \in F : u <= t
  BY <1>1 DEF FiresBefore
<1>3. F \in SUBSET ((t - LookBack + 1)..t)
  BY DEF FiresBefore
<1>4. lastCronFire(cron, t) = IF F = {} THEN Nil ELSE CHOOSE m \in F : \A u \in F : u <= m
  BY DEF lastCronFire
<1> HIDE DEF F
<1>5. F # {} => \E m \in F : \A u \in F : u <= m
  BY <1>2, GreatestInteger
<1>6. F # {} => lastCronFire(cron, t) \in F /\ \A u \in F : u <= lastCronFire(cron, t)
  BY <1>4, <1>5, Zenon
<1> QED
  BY <1>3, <1>4, <1>6 DEF F

LEMMA DurationType == \A p \in PeriodType : Duration(p) \in Nat
BY DEF PeriodType, Duration

\* A period with a cron line is in force when some fire within reach says so:
\* the last one says so then.
LEMMA InForce ==
    ASSUME NEW p \in PeriodType, p.cron # NoCron, NEW t \in Int
    PROVE  inPeriod(p, t) <=>
             InBounds(p, t) /\ \E s \in FiresBefore(p.cron, t) : t < s + Duration(p)
<1> DEFINE F == FiresBefore(p.cron, t)
           last == lastCronFire(p.cron, t)
<1>1. Nil \notin Int /\ LookBack \in Nat /\ Duration(p) \in Nat
  BY CalendarAssumption, DurationType
<1>2. F \in SUBSET Int
  BY <1>1, LastFire
<1>3. IF F = {} THEN last = Nil ELSE last \in F /\ \A u \in F : u <= last
  BY LastFire
<1>4. inPeriod(p, t) <=> InBounds(p, t) /\ last # Nil /\ t < last + Duration(p)
  BY DEF inPeriod
<1> HIDE DEF F, last
<1>5. (last # Nil /\ t < last + Duration(p)) <=> \E s \in F : t < s + Duration(p)
  <2>1. CASE F = {}
    BY <1>3, <2>1
  <2>2. CASE F # {}
    <3>1. last \in F /\ last # Nil
      BY <1>1, <1>2, <1>3, <2>2
    <3>2. ASSUME NEW s \in F, t < s + Duration(p) PROVE t < last + Duration(p)
      BY <1>1, <1>2, <1>3, <3>1, <3>2
    <3> QED
      BY <3>1, <3>2
  <2> QED
    BY <2>1, <2>2
<1> QED
  BY <1>4, <1>5 DEF F

\* Durations within the reach of lastCronFire.
Reachable(p) == Duration(p) <= LookBack

\* Such a period is in force exactly when it says so.
LEMMA ReachableIsHonoured ==
    ASSUME NEW p \in PeriodType, Reachable(p), NEW t \in Int
    PROVE  inPeriod(p, t) <=> Covers(p, t)
<1>1. CASE p.cron = NoCron
  BY <1>1 DEF inPeriod, Covers
<1>2. CASE p.cron # NoCron
  <2> DEFINE week == HoursPerDay * DaysPerWeek
  <2>1. /\ LookBack \in Nat /\ week \in Nat /\ LookBack <= week /\ Duration(p) \in Nat
        /\ Duration(p) <= LookBack
    BY CalendarAssumption, DurationType DEF Reachable
  <2>2. Covers(p, t) <=>
          InBounds(p, t) /\ \E s \in (t - week)..t : Fires(p.cron, s) /\ t < s + Duration(p)
    BY <1>2 DEF Covers
  <2> HIDE DEF week
  <2>3. ASSUME NEW s \in Int, Fires(p.cron, s), t < s + Duration(p)
        PROVE  s \in (t - week)..t <=> s \in FiresBefore(p.cron, t)
    BY <2>1, <2>3 DEF FiresBefore
  <2>4. ASSUME NEW s \in FiresBefore(p.cron, t) PROVE s \in Int /\ Fires(p.cron, s)
    BY <2>1, <2>4 DEF FiresBefore
  <2>5. (\E s \in (t - week)..t : Fires(p.cron, s) /\ t < s + Duration(p))
          <=> \E s \in FiresBefore(p.cron, t) : t < s + Duration(p)
    <3>1. ASSUME NEW s \in (t - week)..t, Fires(p.cron, s), t < s + Duration(p)
          PROVE  s \in FiresBefore(p.cron, t)
      BY <2>1, <2>3, <3>1
    <3>2. ASSUME NEW s \in FiresBefore(p.cron, t), t < s + Duration(p)
          PROVE  s \in (t - week)..t /\ Fires(p.cron, s)
      BY <2>3, <2>4, <3>2
    <3> QED
      BY <3>1, <3>2, Zenon
  <2> QED
    BY <1>2, <2>2, <2>5, InForce
<1> QED
  BY <1>1, <1>2

-----------------------------------------------------------------------------
(* When a window opens *)

\* A deny period whose end periodEnd knows: within reach, and bounded by its
\* cron line or by Until but not by both.
EndsOnce(p) == Reachable(p) /\ (p.cron = NoCron \/ p.until = Nil)

\* Such a period stays in force until then.
LEMMA DenyStays ==
    ASSUME NEW p \in PeriodType, EndsOnce(p), NEW n \in Int, NEW t \in Int, n < t,
           inPeriod(p, n), periodEnd(p, n) # Nil
    PROVE  periodEnd(p, n) \in Int /\ (t < periodEnd(p, n) => inPeriod(p, t))
<1>1. /\ p.from \in {Nil} \cup Int /\ p.until \in {Nil} \cup Int
      /\ Duration(p) \in Nat /\ Duration(p) <= LookBack /\ LookBack \in Nat
      /\ Nil \notin Int
  BY CalendarAssumption, DurationType DEF PeriodType, EndsOnce, Reachable
<1>2. InBounds(p, n)
  BY DEF inPeriod
<1>3. CASE p.until # Nil
  <2>1. p.cron = NoCron /\ periodEnd(p, n) = p.until
    BY <1>3 DEF EndsOnce, periodEnd
  <2>2. t < p.until => InBounds(p, t)
    BY <1>1, <1>2, <1>3 DEF InBounds
  <2> QED
    BY <1>1, <1>3, <2>1, <2>2 DEF inPeriod
<1>4. CASE p.until = Nil
  <2> DEFINE s == lastCronFire(p.cron, n)
             F == FiresBefore(p.cron, n)
  <2>1. s # Nil /\ periodEnd(p, n) = s + Duration(p)
    BY <1>4 DEF periodEnd
  <2>2. F # {} => s \in F
    BY LastFire
  <2>3. F = {} => s = Nil
    BY LastFire
  <2>4. F \in SUBSET Int /\ \A u \in F : n - LookBack + 1 <= u /\ u <= n /\ Fires(p.cron, u)
    BY <1>1 DEF FiresBefore
  <2> HIDE DEF s, F
  <2>5. s \in Int /\ s <= n /\ Fires(p.cron, s)
    BY <2>1, <2>2, <2>3, <2>4
  <2>6. p.cron # NoCron
    BY <2>5 DEF Fires
  <2>7. ASSUME t < s + Duration(p) PROVE inPeriod(p, t)
    <3>1. InBounds(p, t)
      BY <1>1, <1>2, <1>4 DEF InBounds
    <3>2. s \in (t - LookBack + 1)..t
      BY <1>1, <2>5, <2>7
    <3>3. s \in FiresBefore(p.cron, t)
      BY <2>5, <3>2 DEF FiresBefore
    <3> QED
      BY <2>6, <2>7, <3>1, <3>3, InForce
  <2> QED
    BY <1>1, <2>1, <2>5, <2>7
<1> QED
  BY <1>3, <1>4

\* What nextCronFire finds is ahead, and no later than any fire within reach.
LEMMA NextFire ==
    ASSUME NEW cron, NEW n \in Int
    PROVE  /\ \/ nextCronFire(cron, n) = Nil
              \/ nextCronFire(cron, n) \in Int /\ n < nextCronFire(cron, n)
           /\ \A s \in (n + 1)..(n + LookAhead) : Fires(cron, s) =>
                nextCronFire(cron, n) \in Int /\ nextCronFire(cron, n) <= s
<1> DEFINE Ahead == (n + 1)..(n + LookAhead)
           First(t) == Fires(cron, t) /\ \A u \in (n + 1)..(t - 1) : ~Fires(cron, u)
           c == nextCronFire(cron, n)
<1>1. LookAhead \in Nat
  BY CalendarAssumption
<1>2. c = IF \E t \in Ahead : First(t) THEN CHOOSE t \in Ahead : First(t) ELSE Nil
  BY DEF nextCronFire
<1> HIDE DEF c
<1>3. (\E t \in Ahead : First(t)) => c \in Ahead /\ First(c)
  <2> HIDE DEF Ahead, First
  <2> QED
    BY <1>2, Zenon
<1>4. c = Nil \/ (c \in Int /\ n < c)
  <2>1. \A t \in Ahead : t \in Int /\ n < t
    BY <1>1
  <2> QED
    BY <1>2, <1>3, <2>1
<1>5. ASSUME NEW s \in Ahead, Fires(cron, s) PROVE c \in Int /\ c <= s
  <2> DEFINE F == {t \in Ahead : Fires(cron, t)}
  <2>1. F \in SUBSET Int /\ F # {} /\ \A t \in F : n <= t
    BY <1>1, <1>5
  <2>2. PICK m \in F : \A y \in F : m <= y
    <3> HIDE DEF F
    <3> QED
      BY <2>1, LeastInteger
  <2>3. m \in Ahead /\ Fires(cron, m)
    BY <2>2
  <2>4. ASSUME NEW u \in (n + 1)..(m - 1) PROVE ~Fires(cron, u)
    <3>1. u \in Ahead /\ ~(m <= u)
      BY <1>1, <2>3
    <3> QED
      BY <2>2, <3>1
  <2>5. First(m)
    BY <2>3, <2>4
  <2>6. c \in Ahead /\ First(c)
    BY <1>3, <2>3, <2>5
  <2>7. c \in Int /\ s \in Int /\ n + 1 <= s
    BY <1>1, <2>6
  <2>8. s \notin (n + 1)..(c - 1)
    BY <1>5, <2>6
  <2> QED
    BY <2>7, <2>8
<1> QED
  BY <1>4, <1>5 DEF c

\* The openings are ahead.
LEMMA OpeningsAhead ==
    ASSUME NEW allow \in Seq(PeriodType), NEW n \in Int
    PROVE  Openings(allow, n) \in SUBSET Int /\ \A o \in Openings(allow, n) : n <= o
<1> SUFFICES ASSUME NEW o \in Openings(allow, n) PROVE o \in Int /\ n <= o
  OBVIOUS
<1>1. PICK i \in DOMAIN allow :
        o = IF allow[i].from # Nil /\ n < allow[i].from THEN allow[i].from
            ELSE nextCronFire(allow[i].cron, n)
  BY DEF Openings
<1>2. o # Nil
  BY DEF Openings
<1>3. allow[i] \in PeriodType
  BY <1>1
<1>4. CASE allow[i].from # Nil /\ n < allow[i].from
  <2>1. allow[i].from \in {Nil} \cup Int
    BY <1>3 DEF PeriodType
  <2> QED
    BY <1>1, <1>4, <2>1
<1>5. CASE ~(allow[i].from # Nil /\ n < allow[i].from)
  <2>1. o = nextCronFire(allow[i].cron, n)
    BY <1>1, <1>5
  <2> QED
    BY <1>2, <2>1, NextFire
<1> QED
  BY <1>4, <1>5

\* A period that is not in force now and is at t opens no later than t.
LEMMA AllowOpens ==
    ASSUME NEW allow \in Seq(PeriodType), NEW i \in DOMAIN allow,
           NEW n \in Int, NEW t \in Int, n < t, t <= n + LookAhead,
           inPeriod(allow[i], t), ~inPeriod(allow[i], n)
    PROVE  \E o \in Openings(allow, n) : o <= t
<1> DEFINE p == allow[i]
           opening == IF p.from # Nil /\ n < p.from THEN p.from ELSE nextCronFire(p.cron, n)
<1>1. p \in PeriodType
  OBVIOUS
<1>2. opening # Nil => opening \in Openings(allow, n)
  BY DEF Openings
<1> HIDE DEF p
<1>3. /\ p.from \in {Nil} \cup Int /\ p.until \in {Nil} \cup Int
      /\ Duration(p) \in Nat /\ LookBack \in Nat /\ LookAhead \in Nat /\ Nil \notin Int
  BY <1>1, CalendarAssumption, DurationType DEF PeriodType
<1>4. InBounds(p, t) /\ inPeriod(p, t) /\ ~inPeriod(p, n)
  BY DEF inPeriod, p
<1>5. CASE p.from # Nil /\ n < p.from
  BY <1>2, <1>3, <1>4, <1>5 DEF InBounds
<1>6. CASE ~(p.from # Nil /\ n < p.from)
  <2>1. InBounds(p, n)
    BY <1>3, <1>4, <1>6 DEF InBounds
  <2>2. p.cron # NoCron
    BY <1>4, <2>1 DEF inPeriod
  <2>3. PICK s \in FiresBefore(p.cron, t) : t < s + Duration(p)
    BY <1>1, <1>4, <2>2, InForce
  <2>4. s \in Int /\ t - LookBack + 1 <= s /\ s <= t /\ Fires(p.cron, s)
    BY <1>3, <2>3 DEF FiresBefore
  <2>5. CASE s <= n
    <3>1. s \in (n - LookBack + 1)..n /\ n < s + Duration(p)
      BY <1>3, <2>3, <2>4, <2>5
    <3>2. s \in FiresBefore(p.cron, n)
      BY <2>4, <3>1 DEF FiresBefore
    <3> QED
      BY <1>1, <1>4, <2>1, <2>2, <3>1, <3>2, InForce
  <2>6. CASE ~(s <= n)
    <3>1. s \in (n + 1)..(n + LookAhead)
      BY <1>3, <2>4, <2>6
    <3>2. nextCronFire(p.cron, n) \in Int /\ nextCronFire(p.cron, n) <= s
      BY <2>4, <3>1, NextFire
    <3>3. opening = nextCronFire(p.cron, n)
      BY <1>6
    <3> HIDE DEF opening
    <3> QED
      BY <1>2, <1>3, <2>4, <3>2, <3>3
  <2> QED
    BY <2>5, <2>6
<1> QED
  BY <1>5, <1>6

\* A window that says when it opens is closed until then.
LEMMA WindowStaysClosed ==
    ASSUME NEW w \in WindowType, \A i \in DOMAIN w.deny : EndsOnce(w.deny[i]),
           NEW n \in Int, NEW t \in Int, n < t, t <= n + LookAhead,
           ~EvaluateWindow(w, n).Open, EvaluateWindow(w, n).NextOpen # Nil
    PROVE  /\ EvaluateWindow(w, n).NextOpen \in Int
           /\ t < EvaluateWindow(w, n).NextOpen => ~EvaluateWindow(w, t).Open
<1> DEFINE denied(x) == {i \in DOMAIN w.deny : inPeriod(w.deny[i], x)}
           first(x)  == CHOOSE i \in denied(x) : \A j \in denied(x) : i <= j
           allowed(x) == w.allow = <<>> \/ \E i \in DOMAIN w.allow : inPeriod(w.allow[i], x)
           next == EvaluateWindow(w, n).NextOpen
<1>1. w.deny \in Seq(PeriodType) /\ w.allow \in Seq(PeriodType)
  BY DEF WindowType
<1>2. ASSUME NEW x
      PROVE  EvaluateWindow(w, x) =
               IF denied(x) # {}
                 THEN [Open |-> FALSE, NextOpen |-> periodEnd(w.deny[first(x)], x)]
               ELSE IF allowed(x) THEN [Open |-> TRUE, NextOpen |-> Nil]
               ELSE [Open |-> FALSE, NextOpen |-> nextOpening(w.allow, x)]
  BY DEF EvaluateWindow
<1>3. ASSUME NEW x PROVE ~EvaluateWindow(w, x).Open <=> denied(x) # {} \/ ~allowed(x)
  <2> HIDE DEF denied, allowed, first
  <2> QED
    BY <1>2
<1>4. CASE denied(n) # {}
  <2>1. denied(n) \in SUBSET Nat
    <3>1. DOMAIN w.deny = 1..Len(w.deny) /\ Len(w.deny) \in Nat
      BY <1>1
    <3> QED
      BY <3>1
  <2>2. \E i \in denied(n) : \A j \in denied(n) : i <= j
    <3> HIDE DEF denied
    <3> QED
      BY <1>4, <2>1, LeastNatural
  <2>3. first(n) \in denied(n)
    <3> HIDE DEF denied
    <3> QED
      BY <2>2, Zenon
  <2>4. next = periodEnd(w.deny[first(n)], n)
    <3> HIDE DEF denied, first, allowed
    <3> QED
      BY <1>2, <1>4
  <2> HIDE DEF first
  <2>5. /\ first(n) \in DOMAIN w.deny /\ inPeriod(w.deny[first(n)], n)
        /\ EndsOnce(w.deny[first(n)])
    BY <2>3
  <2>6. w.deny[first(n)] \in PeriodType
    BY <1>1, <2>5
  <2>7. next \in Int /\ (t < next => inPeriod(w.deny[first(n)], t))
    BY <2>4, <2>5, <2>6, DenyStays
  <2>8. t < next => denied(t) # {}
    BY <2>5, <2>7
  <2> QED
    BY <1>3, <2>7, <2>8
<1>5. CASE denied(n) = {} /\ ~allowed(n)
  <2> DEFINE O == Openings(w.allow, n)
  <2>1. next = Earliest(O)
    <3> HIDE DEF denied, first, allowed
    <3> QED
      BY <1>2, <1>5 DEF nextOpening
  <2>2. O \in SUBSET Int /\ \A o \in O : n <= o
    BY <1>1, OpeningsAhead
  <2> HIDE DEF O
  <2>3. O # {} /\ next = CHOOSE o \in O : \A u \in O : o <= u
    BY <2>1 DEF Earliest
  <2>4. \E o \in O : \A u \in O : o <= u
    BY <2>2, <2>3, LeastInteger
  <2>5. next \in O /\ \A u \in O : next <= u
    <3> HIDE DEF next
    <3> QED
      BY <2>3, <2>4, Zenon
  <2>6. ASSUME t < next, allowed(t) PROVE FALSE
    <3>1. PICK i \in DOMAIN w.allow : inPeriod(w.allow[i], t) /\ ~inPeriod(w.allow[i], n)
      BY <1>5, <2>6
    <3>2. PICK o \in O : o <= t
      BY <1>1, <3>1, AllowOpens DEF O
    <3>3. next <= o /\ next \in Int /\ o \in Int
      BY <2>2, <2>5, <3>2
    <3> HIDE DEF next
    <3> QED
      BY <2>6, <3>2, <3>3
  <2>7. next \in Int
    BY <2>2, <2>5
  <2> QED
    BY <1>3, <2>6, <2>7
<1> QED
  BY <1>3, <1>4, <1>5

\* The gate of several windows is closed until the last of those that say when
\* they open.
LEMMA GateStaysClosed ==
    ASSUME NEW ws \in SUBSET Windows,
           \A w \in Windows : \A i \in DOMAIN w.deny : EndsOnce(w.deny[i]),
           NEW n \in Int, NEW t \in Int, n < t, t <= n + LookAhead,
           EvaluateAll(ws, n).NextOpen # Nil, t < EvaluateAll(ws, n).NextOpen
    PROVE  ~EvaluateAll(ws, t).Open
<1> DEFINE closed == {w \in ws : ~EvaluateWindow(w, n).Open}
           opens == [w \in closed |-> EvaluateWindow(w, n).NextOpen]
           says == {w \in closed : opens[w] # Nil}
           times == {EvaluateWindow(w, n).NextOpen : w \in closed} \ {Nil}
           next == EvaluateAll(ws, n).NextOpen
<1>1. IsFiniteSet(Windows) /\ Windows \subseteq WindowType
  BY FleetAssumption
<1>2. next = Latest(times)
  BY DEF EvaluateAll
<1>3. times # {} /\ next = CHOOSE u \in times : \A v \in times : v <= u
  <2> HIDE DEF times
  <2> QED
    BY <1>2 DEF Latest
<1>4. ASSUME NEW w \in says
      PROVE  /\ w \in ws /\ opens[w] \in Int
             /\ opens[w] = EvaluateWindow(w, n).NextOpen
             /\ t < opens[w] => ~EvaluateWindow(w, t).Open
  <2>1. w \in Windows /\ w \in WindowType /\ w \in ws
        /\ \A i \in DOMAIN w.deny : EndsOnce(w.deny[i])
    BY <1>1
  <2>2. /\ ~EvaluateWindow(w, n).Open /\ EvaluateWindow(w, n).NextOpen # Nil
        /\ opens[w] = EvaluateWindow(w, n).NextOpen
    OBVIOUS
  <2> HIDE DEF opens
  <2> QED
    BY <2>1, <2>2, WindowStaysClosed
<1>5. ASSUME NEW u \in times PROVE \E w \in says : u = opens[w]
  OBVIOUS
<1>6. times \in SUBSET Int
  BY <1>4, <1>5
<1>7. PICK b \in Int : \A u \in times : u <= b
  <2> DEFINE g == [w \in says |-> opens[w]]
  <2>1. IsFiniteSet(says)
    <3>1. says \subseteq Windows
      OBVIOUS
    <3> HIDE DEF says
    <3> QED
      BY <1>1, <3>1, FS_Subset
  <2>2. g \in [says -> Int]
    BY <1>4
  <2> HIDE DEF g
  <2>3. PICK b \in Int : \A w \in says : g[w] <= b
    BY <2>1, <2>2, FiniteBounded
  <2>4. ASSUME NEW u \in times PROVE u <= b
    <3>1. PICK w \in says : u = opens[w]
      BY <1>5
    <3>2. g[w] = opens[w]
      BY DEF g
    <3> QED
      BY <2>3, <3>1, <3>2
  <2> QED
    BY <2>4
<1>8. next \in times
  <2> HIDE DEF times, next
  <2>1. \E u \in times : \A v \in times : v <= u
    BY <1>3, <1>6, <1>7, GreatestInteger
  <2> QED
    BY <1>3, <2>1, Zenon
<1>9. PICK w \in says : next = opens[w]
  BY <1>5, <1>8
<1>10. w \in ws /\ ~EvaluateWindow(w, t).Open
  BY <1>4, <1>9
<1> QED
  BY <1>10 DEF EvaluateAll

-----------------------------------------------------------------------------
(* The fleet *)

\* The states Assess can give a device.
LEMMA StateType ==
    ASSUME NEW s, NEW i, NEW m
    PROVE  StateOf(s, i, m) \in {"Online", "Sleeping", "Unreachable"}
BY DEF StateOf

\* Every state of the fleet is well typed: what was reported was reported in the
\* past, and a liveness knows no report later than the device's last.
THEOREM PlanTypeCorrect == Spec => []PlanTypeOK
<1>1. Init => PlanTypeOK
  BY FleetAssumption DEF Init, PlanTypeOK
<1>2. PlanTypeOK /\ [Next]_vars => PlanTypeOK'
  <2> SUFFICES ASSUME PlanTypeOK, [Next]_vars PROVE PlanTypeOK'
    OBVIOUS
  <2>0. Start \in Int /\ Horizon \in Nat /\ NoTime \notin Int /\ NoValue \notin TwinType
    BY FleetAssumption
  <2>1. CASE Tick
    BY <2>0, <2>1 DEF Tick, PlanTypeOK
  <2>2. ASSUME NEW d \in Devices, Report(d) PROVE PlanTypeOK'
    <3>1. PICK r \in Reports :
            twin' = [twin EXCEPT ![d] = [at |-> now, hash |-> r.hash, battery |-> r.battery,
                                         mah |-> r.mah, via |-> r.via]]
      BY <2>2 DEF Report
    <3>2. UNCHANGED <<now, live, decom>>
      BY <2>2 DEF Report
    <3>3. r \in ReportType
      BY FleetAssumption
    <3>4. /\ DOMAIN twin' = Devices /\ twin'[d] \in TwinType /\ twin'[d].at = now
          /\ \A e \in Devices \ {d} : twin'[e] = twin[e]
      BY <2>0, <3>1, <3>3 DEF PlanTypeOK, ReportType, TwinType
    <3>5. ASSUME NEW e \in Devices, live[e] # NoValue, live[e].at # NoTime
          PROVE  twin'[e] # NoValue /\ live[e].at \in Start..twin'[e].at
      <4>1. /\ live[e].at \in Start..twin[e].at /\ twin[e].at \in Start..now
            /\ twin[e] # NoValue /\ now \in Int
        BY <2>0, <3>5 DEF PlanTypeOK
      <4> QED
        BY <2>0, <3>4, <4>1
    <3>6. ASSUME NEW e \in Devices, twin'[e] # NoValue
          PROVE  twin'[e] \in TwinType /\ twin'[e].at \in Start..now
      BY <2>0, <3>4, <3>6 DEF PlanTypeOK
    <3> QED
      BY <3>2, <3>4, <3>5, <3>6 DEF PlanTypeOK
  <2>3. ASSUME NEW d \in Devices, Decommission(d) PROVE PlanTypeOK'
    BY <2>3 DEF Decommission, PlanTypeOK
  <2>4. ASSUME NEW d \in Devices, Reconcile(d) PROVE PlanTypeOK'
    <3>1. live' = [live EXCEPT ![d] = Assess(d)] /\ UNCHANGED <<now, twin, decom>>
      BY <2>4 DEF Reconcile
    <3>2. /\ Assess(d).state \in {"Online", "Sleeping", "Unreachable", "Unknown"}
          /\ (Assess(d).at = NoTime) = (Assess(d).state = "Unknown")
          /\ Assess(d).at # NoTime => twin[d] # NoValue /\ Assess(d).at \in Start..twin[d].at
      <4>1. CASE twin[d] = NoValue
        BY <4>1 DEF Assess
      <4>2. CASE twin[d] # NoValue
        <5> DEFINE s == StateOf(now - twin[d].at, Manifest[d].interval, Manifest[d].mult)
        <5>1. Assess(d).state = s /\ Assess(d).at = twin[d].at
          BY <4>2 DEF Assess
        <5>2. s \in {"Online", "Sleeping", "Unreachable"}
          BY StateType
        <5>3. twin[d].at \in Start..now
          BY <4>2 DEF PlanTypeOK
        <5> HIDE DEF s
        <5> QED
          BY <2>0, <4>2, <5>1, <5>2, <5>3
      <4> QED
        BY <4>1, <4>2
    <3>3. DOMAIN live' = Devices /\ live'[d] = Assess(d)
          /\ \A e \in Devices \ {d} : live'[e] = live[e]
      BY <3>1 DEF PlanTypeOK
    <3> QED
      BY <3>1, <3>2, <3>3 DEF PlanTypeOK
  <2>5. CASE UNCHANGED vars
    BY <2>5 DEF vars, PlanTypeOK
  <2> QED
    BY <2>1, <2>2, <2>3, <2>4, <2>5 DEF Next
<1> QED
  BY <1>1, <1>2, PTL DEF Spec

-----------------------------------------------------------------------------
(* The rows of one plan *)

\* What the planner, the drift report and the query say of a liveness, whatever
\* it is.
LEMMA Verdicts ==
    ASSUME NEW l
    PROVE  LET reason == PlanReason([NoRequirements EXCEPT !.ota = TRUE], 0, l)
               row == DriftOf(Drift, l)
           IN  /\ ActionableReason(l) = "" <=> reason = ""
               /\ l.state # "Unknown" =>
                    /\ row = "DriftedAndReachable" => ActionableReason(l) = "" /\ Remediable(l)
                    /\ row = "DriftedNoCapableTransport" => reason \in RefusedReasons
                    /\ row \in {"DriftedAwaitingTransportWindow", "DriftedButSleeping"}
                         => reason \in PendingReasons
<1> DEFINE req == [NoRequirements EXCEPT !.ota = TRUE]
           reason == PlanReason(req, 0, l)
           row == DriftOf(Drift, l)
           known == l.cap # NoCapability
           door == CanAcceptOTA(l.cap, 0)
           up == ReachableOverOTA(l.cap)
<1>1. req.ota /\ req.minBattery = 0 /\ req.maxSilent = NoTime
  BY DEF NoRequirements
<1> HIDE DEF req
<1>2. reason = IF ~known THEN "NoOTACapableTransport"
               ELSE IF ~door THEN "NoOTACapableTransport"
               ELSE IF l.state \in {"Unreachable", "Unknown"} THEN "DeviceUnreachable"
               ELSE IF l.state = "Sleeping" THEN "DeviceSleeping"
               ELSE IF ~up THEN "AwaitingTransportWindow" ELSE ""
  <2>1. OTARefusal(l.cap, 0) = "NoOTACapableTransport"
    BY DEF OTARefusal
  <2>2. CASE ~known \/ ~door
    BY <1>1, <2>1, <2>2 DEF PlanReason
  <2>3. CASE known /\ door /\ l.state \in {"Unreachable", "Unknown", "Sleeping"}
    BY <1>1, <2>3 DEF PlanReason
  <2>4. CASE known /\ door /\ l.state \notin {"Unreachable", "Unknown", "Sleeping"}
    BY <1>1, <2>4 DEF PlanReason
  <2> QED
    BY <2>2, <2>3, <2>4
<1>3. ActionableReason(l) = "" <=>
        known /\ door /\ up /\ l.state \notin {"Unreachable", "Unknown", "Sleeping"}
  BY DEF ActionableReason
<1>4. /\ row = "DriftedAndReachable" =>
           known /\ door /\ up /\ l.state \notin {"Sleeping", "Unreachable"}
      /\ row = "DriftedNoCapableTransport" => known /\ ~door
      /\ row = "DriftedAwaitingTransportWindow" => known /\ door /\ ~up
      /\ row = "DriftedButSleeping" => known /\ door /\ l.state \in {"Sleeping", "Unreachable"}
  BY DEF DriftOf
<1>5. Remediable(l) <=> door /\ up
  BY DEF Remediable
<1> HIDE DEF reason, row, known, door, up
<1>6. ActionableReason(l) = "" <=> reason = ""
  BY <1>2, <1>3
<1>7. ASSUME l.state # "Unknown"
      PROVE  /\ row = "DriftedAndReachable" => ActionableReason(l) = "" /\ Remediable(l)
             /\ row = "DriftedNoCapableTransport" => reason \in RefusedReasons
             /\ row \in {"DriftedAwaitingTransportWindow", "DriftedButSleeping"}
                  => reason \in PendingReasons
  BY <1>2, <1>3, <1>4, <1>5, <1>7 DEF RefusedReasons, PendingReasons
<1> QED
  BY <1>6, <1>7 DEF reason, row, req

\* The planner, the drift report and the query never contradict each other about
\* a device, whatever its manifest, its twin and the expected release.
THEOREM RowsAlwaysAgree == Spec => []RowsAgree
<1>1. RowsAgree
  BY Verdicts DEF RowsAgree
<1> QED
  BY <1>1, PTL

\* What the two queries of QueriesAgree ask of a liveness.
LEMMA QueryVerdicts ==
    LET match(equals, notIn) == [equals |-> equals, in |-> {}, notIn |-> notIn]
        ready == [Everything EXCEPT !["state"] = match("Online", {}), !["otaReachable"] = TRUE]
        drifted == [Everything EXCEPT !["hash"] = match("", {Drift.expect})]
    IN  /\ ready # NoValue /\ drifted # NoValue
        /\ \A l : Matches(ready, l) <=>
             /\ l.state = "Online" /\ l.cap # NoCapability
             /\ CanAcceptOTA(l.cap, 0) /\ ReachableOverOTA(l.cap)
        /\ \A l : Matches(drifted, l) <=>
             (IF l.cap = NoCapability THEN "" ELSE l.cap.hash) # Drift.expect
<1> DEFINE match(equals, notIn) == [equals |-> equals, in |-> {}, notIn |-> notIn]
           online == match("Online", {})
           other == match("", {Drift.expect})
           fields == {"state", "transport", "via", "hash", "otaCapable", "otaReachable",
                      "silentLonger", "beyond", "batteryBelow", "not"}
           ready == [Everything EXCEPT !["state"] = online, !["otaReachable"] = TRUE]
           drifted == [Everything EXCEPT !["hash"] = other]
<1>1. /\ NoValue \notin MatchType /\ NoValue \notin QueryType
      /\ NoValue \notin BOOLEAN
  BY FleetAssumption
<1>2. online \in MatchType /\ other \in MatchType
  BY DEF MatchType, Asked
<1>3. online # NoValue /\ other # NoValue /\ TRUE # NoValue
  BY <1>1, <1>2
<1>4. /\ online.equals = "Online" /\ online.in = {} /\ online.notIn = {}
      /\ other.equals = "" /\ other.in = {} /\ other.notIn = {Drift.expect}
  OBVIOUS
<1>5. DOMAIN Everything = fields /\ \A f \in fields : Everything[f] = NoValue
  BY DEF Everything
<1> HIDE DEF match, online, other
<1>6. ready \in QueryType /\ drifted \in QueryType
  BY <1>2, <1>5 DEF QueryType, Everything
<1>7. ready.state = online /\ ready.otaReachable = TRUE /\ ready.transport = NoValue
      /\ ready.via = NoValue /\ ready.hash = NoValue /\ ready.otaCapable = NoValue
      /\ ready.silentLonger = NoValue /\ ready.beyond = NoValue
      /\ ready.batteryBelow = NoValue /\ ready.not = NoValue
  BY DEF Everything
<1>8. drifted.hash = other /\ drifted.otaReachable = NoValue /\ drifted.transport = NoValue
      /\ drifted.via = NoValue /\ drifted.state = NoValue /\ drifted.otaCapable = NoValue
      /\ drifted.silentLonger = NoValue /\ drifted.beyond = NoValue
      /\ drifted.batteryBelow = NoValue /\ drifted.not = NoValue
  BY DEF Everything
<1> HIDE DEF ready, drifted, fields
<1>9. ASSUME NEW l
      PROVE  Matches(ready, l) <=>
               /\ l.state = "Online" /\ l.cap # NoCapability
               /\ CanAcceptOTA(l.cap, 0) /\ ReachableOverOTA(l.cap)
  <2>1. strMatch(online, l.state) <=> l.state = "Online"
    BY <1>4 DEF strMatch
  <2>2. CanAcceptOTA(l.cap, 0) \in BOOLEAN /\ ReachableOverOTA(l.cap) \in BOOLEAN
    BY Zenon DEF CanAcceptOTA, ReachableOverOTA
  <2> QED
    BY <1>3, <1>7, <2>1, <2>2 DEF Matches, FieldsMatch
<1>10. ASSUME NEW l
       PROVE  Matches(drifted, l) <=>
                (IF l.cap = NoCapability THEN "" ELSE l.cap.hash) # Drift.expect
  <2>1. \A v : strMatch(other, v) <=> v # Drift.expect
    BY <1>4 DEF strMatch
  <2> QED
    BY <1>3, <1>8, <2>1 DEF Matches, FieldsMatch
<1>11. ready # NoValue /\ drifted # NoValue
  BY <1>1, <1>6
<1> QED
  BY <1>9, <1>10, <1>11 DEF ready, drifted, online, other, match

\* A query for what is online and reachable with firmware gives the actionable
\* devices, and a query for what is not on the release gives those the drift
\* report does not call converged.
THEOREM QueriesAlwaysAgree == Spec => []QueriesAgree
<1> DEFINE match(equals, notIn) == [equals |-> equals, in |-> {}, notIn |-> notIn]
           ready == [Everything EXCEPT !["state"] = match("Online", {}), !["otaReachable"] = TRUE]
           drifted == [Everything EXCEPT !["hash"] = match("", {Drift.expect})]
<1>1. /\ ready # NoValue /\ drifted # NoValue
      /\ \A l : Matches(ready, l) <=>
           /\ l.state = "Online" /\ l.cap # NoCapability
           /\ CanAcceptOTA(l.cap, 0) /\ ReachableOverOTA(l.cap)
      /\ \A l : Matches(drifted, l) <=>
           (IF l.cap = NoCapability THEN "" ELSE l.cap.hash) # Drift.expect
  BY QueryVerdicts
<1>2. QueriesAgree <=>
        /\ EvaluateQuery(ready, Planned).Matched = EvaluateQuery(NoValue, Planned).Actionable
        /\ Drift.expect # "" /\ ~Drift.ignoreSleeping =>
             EvaluateQuery(drifted, Planned).Matched =
               {d \in DOMAIN Planned : DriftOf(Drift, Planned[d]) # "Converged"}
  BY DEF QueriesAgree
<1> HIDE DEF ready, drifted
<1>3. ASSUME NEW d \in DOMAIN Planned
      PROVE  /\ ActionableReason(Planned[d]) = "" <=> Matches(ready, Planned[d])
             /\ Drift.expect # "" /\ ~Drift.ignoreSleeping =>
                  (DriftOf(Drift, Planned[d]) # "Converged" <=> Matches(drifted, Planned[d]))
  <2> DEFINE l == Planned[d]
  <2>1. l.state \in {"Online", "Sleeping", "Unreachable", "Unknown"}
    <3>1. l = Built(d)
      BY <1>3 DEF Planned
    <3>2. Built(d).state \in {"Online", "Sleeping", "Unreachable", "Unknown"}
      BY StateType DEF Built
    <3> QED
      BY <3>1, <3>2
  <2> HIDE DEF l
  <2>2. ActionableReason(l) = "" <=>
          /\ l.state = "Online" /\ l.cap # NoCapability
          /\ CanAcceptOTA(l.cap, 0) /\ ReachableOverOTA(l.cap)
    BY <2>1 DEF ActionableReason
  <2>3. Drift.expect # "" /\ ~Drift.ignoreSleeping =>
          (DriftOf(Drift, l) # "Converged" <=>
             (IF l.cap = NoCapability THEN "" ELSE l.cap.hash) # Drift.expect)
    BY DEF DriftOf
  <2> QED
    BY <1>1, <2>2, <2>3 DEF l
<1>4. /\ EvaluateQuery(ready, Planned).Matched = {d \in DOMAIN Planned : Matches(ready, Planned[d])}
      /\ EvaluateQuery(drifted, Planned).Matched = {d \in DOMAIN Planned : Matches(drifted, Planned[d])}
      /\ EvaluateQuery(NoValue, Planned).Actionable
           = {d \in DOMAIN Planned : ActionableReason(Planned[d]) = ""}
  BY <1>1 DEF EvaluateQuery
<1>5. QueriesAgree
  BY <1>2, <1>3, <1>4
<1> QED
  BY <1>5, PTL

-----------------------------------------------------------------------------
(* Sizes *)

\* A transport's largest payload is a count, declared or not.
LEMMA LimitsAreCounts ==
    ASSUME NEW d \in Devices, NEW t \in DeclaredCapability[d].transports
    PROVE  t.max \in Nat
<1> DEFINE cfg == Manifest[d].cfg
           declared == {Declared(item) : item \in cfg.transports}
           label == Manifest[d].transport
<1>1. \A name : DefaultTransport(name).max \in Nat /\ "max" \in DOMAIN DefaultTransport(name)
  BY DEF DefaultTransport
<1>2. ASSUME NEW item \in cfg.transports PROVE Declared(item).max \in Nat
  <2>1. item.max \in {NoValue} \cup Nat
    BY FleetAssumption
  <2>2. Declared(item)["max"] =
          IF item.max # NoValue /\ item.max > 0 THEN item.max
          ELSE DefaultTransport(item.type).max
    BY <1>1 DEF Declared
  <2> QED
    BY <1>1, <2>1, <2>2
<1>3. DeclaredCapability[d].transports = DeriveCapabilityFrom(cfg, label).transports
  BY DEF DeclaredCapability
<1>4. \/ t \in declared
      \/ \E name : t = DefaultTransport(name)
  BY <1>3 DEF DeriveCapabilityFrom
<1> QED
  BY <1>1, <1>2, <1>4

\* The tool's liveness has the transports of the manifest.
LEMMA BuiltTransports ==
    ASSUME NEW d \in Devices
    PROVE  Built(d).cap.transports = DeclaredCapability[d].transports
<1>1. DeclaredCapability[d] = DeriveCapabilityFrom(Manifest[d].cfg, Manifest[d].transport)
  BY DEF DeclaredCapability
<1> QED
  BY <1>1 DEF Built, DeriveCapabilityFrom

\* Whoever can take an image of some size can take a credential that is no larger.
LEMMA ImageThenCredential ==
    ASSUME NEW cap, cap # NoCapability, \A t \in cap.transports : t.max \in Nat,
           NEW size \in Nat, NEW spec, spec.size \in Nat, spec.size <= size,
           CanAcceptOTA(cap, size)
    PROVE  Rotatable(spec, cap)
<1>1. PICK t \in cap.transports : t.ota /\ ~(size > 0 /\ t.max > 0 /\ size > t.max)
  BY DEF CanAcceptOTA
<1>2. ~(spec.size > 0 /\ t.max > 0 /\ spec.size > t.max)
  BY <1>1
<1> QED
  BY <1>1, <1>2 DEF Rotatable

\* A device that must be visited for its credential is not one a rollout of a
\* larger image would have reached, whatever transports it declares.
THEOREM AtRiskIsNeverEligible == Spec => []AtRiskIsRefused
<1>1. AtRiskIsRefused
  <2> SUFFICES ASSUME NEW d \in DOMAIN Planned,
                      CredentialOf(Credentials, Planned[d], Expiry[d] - now) = "AtRisk",
                      Rollout.requires.ota, Rollout.size >= Credentials.size,
                      d \in ToolPlan.Eligible
               PROVE  FALSE
    BY DEF AtRiskIsRefused
  <2> DEFINE l == Built(d)
  <2>1. d \in Devices /\ Planned[d] = l
    BY DEF Planned
  <2>2. ~Rotatable(Credentials, l.cap)
    BY <2>1 DEF CredentialOf
  <2>3. PlanReason(Rollout.requires, Rollout.size, l) = ""
    BY DEF ToolPlan, PlanRollout
  <2>4. Rollout.size \in Nat /\ Credentials.size \in Nat
    BY FleetAssumption
  <2>5. \A t \in l.cap.transports : t.max \in Nat
    BY <2>1, BuiltTransports, LimitsAreCounts
  <2> HIDE DEF l
  <2>6. l.cap # NoCapability /\ CanAcceptOTA(l.cap, Rollout.size)
    BY <2>3 DEF PlanReason, OTARefusal
  <2> QED
    BY <2>2, <2>4, <2>5, <2>6, ImageThenCredential
<1> QED
  BY <1>1, PTL

-----------------------------------------------------------------------------
(* The dry run *)

\* Where the liveness is fresh, the tool derives what the controller reads.
LEMMA SameLiveness ==
    ASSUME PlanTypeOK, NEW d \in Devices, live[d] # NoValue, live[d] = Assess(d),
           twin[d] # NoValue => twin[d].mah = 0 /\ twin[d].via = NoValue
    PROVE  Found(d) = Built(d)
<1> DEFINE c == DeclaredCapability[d]
<1>1. NoTime \notin Int
  BY FleetAssumption
<1>2. Found(d) = [state |-> Assess(d).state, cap |-> CapabilityOf(d),
                  silent |-> Silence(Assess(d).at)]
  BY DEF Found, Assess
<1>3. CASE twin[d] = NoValue
  BY <1>2, <1>3 DEF Assess, CapabilityOf, Built, Silence
<1>4. CASE twin[d] # NoValue
  <2> DEFINE s == StateOf(now - twin[d].at, Manifest[d].interval, Manifest[d].mult)
  <2>1. Silence(twin[d].at) = now - twin[d].at
    <3>1. twin[d].at \in Start..now /\ Start \in Int /\ now \in Int
      BY <1>4, FleetAssumption DEF PlanTypeOK
    <3> QED
      BY <1>1, <3>1 DEF Silence
  <2>2. /\ CapabilityOf(d) = [c EXCEPT !.hash = twin[d].hash, !.battery = twin[d].battery,
                                       !.mah = 0]
        /\ Assess(d).state = s /\ Assess(d).at = twin[d].at
    BY <1>4 DEF CapabilityOf, Assess
  <2>3. Built(d) = [state |-> s,
                    cap |-> [c EXCEPT !.hash = twin[d].hash, !.battery = twin[d].battery,
                                      !.via = c.via],
                    silent |-> Silence(twin[d].at)]
    BY <1>4, <2>1 DEF Built
  <2>4. [c EXCEPT !.hash = twin[d].hash, !.battery = twin[d].battery, !.mah = 0]
          = [c EXCEPT !.hash = twin[d].hash, !.battery = twin[d].battery, !.via = c.via]
    <3>1. c = DeriveCapabilityFrom(Manifest[d].cfg, Manifest[d].transport)
      BY DEF DeclaredCapability
    <3>2. \E T, V : c = [transports |-> T, via |-> V, battery |-> 0, mah |-> 0, hash |-> ""]
      BY <3>1 DEF DeriveCapabilityFrom
    <3> HIDE DEF c
    <3>3. PICK T, V : c = [transports |-> T, via |-> V, battery |-> 0, mah |-> 0, hash |-> ""]
      BY <3>2
    <3>4. c \in [transports : {T}, via : {V}, battery : {0}, mah : {0}, hash : {""}]
      BY <3>3
    <3> QED
      BY <3>4
  <2> HIDE DEF s, c
  <2> QED
    BY <1>2, <2>2, <2>3, <2>4
<1> QED
  BY <1>3, <1>4

\* The tool's dry run is the controller's next plan: for every fleet, wherever
\* the liveness objects are fresh.
THEOREM DryRunAlwaysMatches == Spec => []DryRunMatches
<1>1. PlanTypeOK => DryRunMatches
  <2> SUFFICES ASSUME PlanTypeOK PROVE DryRunMatches
    OBVIOUS
  <2> DEFINE fresh == {d \in Matched : /\ live[d] # NoValue /\ live[d] = Assess(d)
                                       /\ twin[d] # NoValue =>
                                            twin[d].mah = 0 /\ twin[d].via = NoValue}
  <2> SUFFICES ASSUME decom = {}
               PROVE  /\ PlannedGate = Gate.Open
                      /\ ToolPlan.Eligible \cap fresh = ControllerPlan.Eligible \cap fresh
                      /\ ToolPlan.Refused \cap fresh = ControllerPlan.Refused \cap fresh
                      /\ ToolPlan.Pending \cap fresh = ControllerPlan.Pending \cap fresh
    BY DEF DryRunMatches
  <2>1. Scoped = Matched /\ Matched \subseteq Devices
    BY DEF Scoped, Matched
  <2>2. PlannedGate = Gate.Open
    <3> DEFINE ws == {w \in Windows : Selects(w, Matched)}
               closed == {w \in ws : ~EvaluateWindow(w, now).Open}
    <3>1. Gate.Open = (closed = {})
      <4>1. Gate = EvaluateAll(ws, now)
        BY DEF Gate, GateAt, PlanTypeOK
      <4> QED
        BY <4>1 DEF EvaluateAll
    <3>2. PlannedGate <=> closed = {}
      BY <2>1 DEF PlannedGate
    <3>3. PlannedGate \in BOOLEAN
      BY Zenon DEF PlannedGate
    <3> HIDE DEF closed
    <3> QED
      BY <3>1, <3>2, <3>3
  <2>3. \A d \in fresh : Found(d) = Built(d) /\ d \in Matched
    BY <2>1, SameLiveness
  <2> HIDE DEF fresh
  <2>4. ASSUME NEW d \in fresh
        PROVE  /\ [e \in Matched |-> Found(e)][d] = Found(d)
               /\ [e \in Scoped |-> Built(e)][d] = Found(d)
               /\ d \in DOMAIN [e \in Matched |-> Found(e)]
               /\ d \in DOMAIN [e \in Scoped |-> Built(e)]
    BY <2>1, <2>3
  <2> DEFINE C == [e \in Matched |-> Found(e)]
             T == [e \in Scoped |-> Built(e)]
             reason(f, d) == PlanReason(Rollout.requires, Rollout.size, f[d])
  <2>5. ASSUME NEW d \in fresh
        PROVE  d \in DOMAIN C /\ d \in DOMAIN T /\ reason(C, d) = reason(T, d)
    BY <2>4
  <2>6. /\ ToolPlan = PlanRollout(Rollout.requires, Rollout.size, T)
        /\ ControllerPlan = PlanRollout(Rollout.requires, Rollout.size, C)
    BY DEF ToolPlan, ControllerPlan
  <2> HIDE DEF C, T
  <2>7. /\ ToolPlan.Eligible \cap fresh = ControllerPlan.Eligible \cap fresh
        /\ ToolPlan.Refused \cap fresh = ControllerPlan.Refused \cap fresh
        /\ ToolPlan.Pending \cap fresh = ControllerPlan.Pending \cap fresh
    BY <2>5, <2>6 DEF PlanRollout
  <2> QED
    BY <2>2, <2>7
<1> QED
  BY <1>1, PlanTypeCorrect, PTL

-----------------------------------------------------------------------------
(* The windows *)

\* Where no period lasts longer than lastCronFire looks back, every period is in
\* force for as long as it says.
THEOREM DurationsHonoured ==
    ASSUME \A w \in Windows : /\ \A i \in DOMAIN w.deny : Reachable(w.deny[i])
                              /\ \A i \in DOMAIN w.allow : Reachable(w.allow[i])
    PROVE  Spec => []DurationHonoured
<1>1. PlanTypeOK => DurationHonoured
  <2> SUFFICES ASSUME PlanTypeOK, NEW w \in Windows
               PROVE  /\ \A i \in DOMAIN w.deny :
                           inPeriod(w.deny[i], now) = Covers(w.deny[i], now)
                      /\ \A i \in DOMAIN w.allow :
                           inPeriod(w.allow[i], now) = Covers(w.allow[i], now)
    BY DEF DurationHonoured
  <2>1. now \in Int
    BY FleetAssumption DEF PlanTypeOK
  <2>2. w.deny \in Seq(PeriodType) /\ w.allow \in Seq(PeriodType)
    BY FleetAssumption DEF WindowType
  <2>3. ASSUME NEW p \in PeriodType, Reachable(p)
        PROVE  inPeriod(p, now) = Covers(p, now)
    <3>1. inPeriod(p, now) <=> Covers(p, now)
      BY <2>1, <2>3, ReachableIsHonoured
    <3>2. inPeriod(p, now) \in BOOLEAN /\ Covers(p, now) \in BOOLEAN
      BY Zenon DEF inPeriod, Covers
    <3> QED
      BY <3>1, <3>2
  <2>4. /\ \A i \in DOMAIN w.deny : w.deny[i] \in PeriodType /\ Reachable(w.deny[i])
        /\ \A i \in DOMAIN w.allow : w.allow[i] \in PeriodType /\ Reachable(w.allow[i])
    BY <2>2
  <2> QED
    BY <2>3, <2>4
<1> QED
  BY <1>1, PlanTypeCorrect, PTL

\* A rollout that sleeps until NextOpen misses nothing: the windows are closed all
\* that time, however many overlap -- where each deny period ends once and the
\* model looks no further ahead than nextCronFire.
THEOREM ClosedUntilThen ==
    ASSUME \A w \in Windows : \A i \in DOMAIN w.deny : EndsOnce(w.deny[i]),
           Horizon <= LookAhead
    PROVE  Spec => []ClosedUntilPromised
<1>1. PlanTypeOK => ClosedUntilPromised
  <2> SUFFICES ASSUME PlanTypeOK, Gate.NextOpen # Nil,
                      NEW t \in (now + 1)..(Start + Horizon), t < Gate.NextOpen
               PROVE  ~GateAt[t].Open
    BY DEF ClosedUntilPromised
  <2> DEFINE ws == {w \in Windows : Selects(w, Matched)}
  <2>1. /\ Start \in Int /\ Horizon \in Nat /\ LookAhead \in Nat
        /\ now \in Start..(Start + Horizon)
    BY FleetAssumption, CalendarAssumption DEF PlanTypeOK
  <2>2. now \in Int /\ t \in Int /\ now < t /\ t <= now + LookAhead
        /\ t \in Start..(Start + Horizon)
    BY <2>1
  <2>3. Gate = EvaluateAll(ws, now) /\ GateAt[t] = EvaluateAll(ws, t)
    BY <2>1, <2>2 DEF Gate, GateAt
  <2>4. ws \in SUBSET Windows
    OBVIOUS
  <2> HIDE DEF ws
  <2> QED
    BY <2>2, <2>3, <2>4, GateStaysClosed
<1> QED
  BY <1>1, PlanTypeCorrect, PTL
=============================================================================
