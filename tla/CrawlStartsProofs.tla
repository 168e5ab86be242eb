------------------------- MODULE CrawlStartsProofs -------------------------
(***************************************************************************)
(* How crawls come to be started. Scheduler: for every set of sites and    *)
(* settings, every length of day and week, and any number of requests,     *)
(* failed writes and restarts, a next run lies in its window and the runs  *)
(* of a site lie apart. JobQueue: whatever requests overtake one another,  *)
(* few unfinished jobs are evicted, and the gauge and the notices hold.    *)
(***************************************************************************)
EXTENDS Scheduler, JobQueue, FiniteSetTheorems, WellFoundedInduction, TLAPS

(* Induction.                                                              *)

\* A set of numbers that is not empty has a least one.
LEMMA LeastNumber ==
  ASSUME NEW T \in SUBSET Nat, T # {}
  PROVE  Least(T) \in T /\ \A y \in T : Least(T) <= y
<1> DEFINE R == {ss \in Nat \X Nat : ss[1] < ss[2]}
<1>1. IsWellFoundedOn(R, Nat)
  BY NatLessThanWellFounded DEF OpToRel
<1>2. \A x, y \in Nat : x < y => <<x, y>> \in R
  OBVIOUS
<1> HIDE DEF R
<1>3. PICK x \in T : \A y \in T : ~ (<<y, x>> \in R)
  BY <1>1, WFMin
<1>4. \A y \in T : x <= y
  <2> SUFFICES ASSUME NEW y \in T, y < x PROVE FALSE
    BY <1>3
  <2> QED
    BY <1>2, <1>3
<1> QED
  BY <1>3, <1>4 DEF Least

\* A set of numbers with 0 that goes on from each of its numbers to the next is all.
LEMMA SetInduction ==
  ASSUME NEW S \in SUBSET Nat, 0 \in S, \A n \in S : n + 1 \in S
  PROVE  S = Nat
<1> DEFINE T == Nat \ S
<1> SUFFICES ASSUME T # {} PROVE FALSE
  OBVIOUS
<1>1. Least(T) \in T /\ \A y \in T : Least(T) <= y
  BY LeastNumber
<1>2. Least(T) # 0 /\ Least(T) \in Nat
  BY <1>1
<1>3. Least(T) - 1 \in Nat /\ (Least(T) - 1) + 1 = Least(T) /\ ~(Least(T) <= Least(T) - 1)
  BY <1>2
<1>4. Least(T) - 1 \in S
  BY <1>1, <1>3
<1> QED
  BY <1>1, <1>3, <1>4

-----------------------------------------------------------------------------
(* Days.                                                                   *)

LEMMA Division ==
  ASSUME NEW a \in Int, NEW b \in Nat \ {0}
  PROVE  /\ a \div b \in Int /\ a % b \in 0..b - 1
         /\ a = b * (a \div b) + (a % b)
  OBVIOUS

\* The remainder is the only one.
LEMMA OneRemainder ==
  ASSUME NEW b \in Nat \ {0}, NEW q \in Int, NEW r \in 0..b - 1
  PROVE  (b * q + r) \div b = q /\ (b * q + r) % b = r
  OBVIOUS

LEMMA Monotone ==
  ASSUME NEW a \in Int, NEW b \in Int, NEW n \in Nat, a <= b
  PROVE  a * n <= b * n
  OBVIOUS

\* Every time lies in its day.
LEMMA DayHolds ==
  ASSUME NEW t \in Int
  PROVE  Day(t) \in Int /\ Day(t) * DayLength <= t /\ t < Day(t) * DayLength + DayLength
<1>1. DayLength \in Nat \ {0}
  BY WindowAssumption
<1>2. /\ t \div DayLength \in Int /\ t % DayLength \in 0..DayLength - 1
      /\ t = DayLength * (t \div DayLength) + (t % DayLength)
  BY <1>1, Division
<1> QED
  BY <1>1, <1>2 DEF Day

\* And in no other.
LEMMA DayIs ==
  ASSUME NEW t \in Int, NEW day \in Int,
         day * DayLength <= t, t < day * DayLength + DayLength
  PROVE  Day(t) = day
<1> DEFINE r == t - day * DayLength
<1>1. DayLength \in Nat \ {0}
  BY WindowAssumption
<1>2. day * DayLength \in Int
  BY <1>1
<1>3. r \in 0..DayLength - 1 /\ t = DayLength * day + r
  BY <1>1, <1>2
<1> HIDE DEF r
<1>4. (DayLength * day + r) \div DayLength = day
  BY <1>1, <1>3, OneRemainder
<1> QED
  BY <1>3, <1>4 DEF Day

\* Whatever weekdays are wanted, one of the days of the week to come is allowed.
LEMMA SomeDayAllowed ==
  ASSUME NEW s \in Setting, NEW day \in Int
  PROVE  \E d \in day + 1..day + WeekLength : DayAllowed(s, d)
<1>1. WeekLength \in Nat \ {0}
  BY WindowAssumption
<1>2. CASE s.weekdays = {}
  <2>1. day + 1 \in day + 1..day + WeekLength
    BY <1>1
  <2> QED
    BY <1>2, <2>1 DEF DayAllowed
<1>3. CASE s.weekdays # {}
  <2>1. s.weekdays \subseteq 0..WeekLength - 1
    BY DEF Setting
  <2>2. PICK w \in s.weekdays : w \in 0..WeekLength - 1
    BY <1>3, <2>1
  <2> DEFINE a == w - (day + 1)
             q == a \div WeekLength
             m == a % WeekLength
             d == day + 1 + m
  <2>3. a \in Int /\ w \in Int
    BY <1>1, <2>2
  <2>4. q \in Int /\ m \in 0..WeekLength - 1 /\ a = WeekLength * q + m
    BY <1>1, <2>3, Division
  <2>5. d \in day + 1..day + WeekLength
    BY <1>1, <2>4
  <2>6. d = WeekLength * (0 - q) + w
    <3> HIDE DEF q, m
    <3>1. d = w - WeekLength * q
      BY <1>1, <2>2, <2>3, <2>4
    <3> QED
      BY <1>1, <2>3, <2>4, <3>1
  <2> HIDE DEF a, q, m, d
  <2>7. (WeekLength * (0 - q) + w) % WeekLength = w
    <3>1. 0 - q \in Int
      BY <2>4
    <3> QED
      BY <1>1, <2>2, <3>1, OneRemainder
  <2>8. d % WeekLength = w
    BY <2>6, <2>7
  <2> QED
    BY <2>2, <2>5, <2>8 DEF DayAllowed
<1> QED
  BY <1>2, <1>3

LEMMA SettingFields ==
  ASSUME NEW s \in Setting
  PROVE  /\ s.interval \in Nat
         /\ s.start \in 0..DayLength - 1 /\ s.end \in 0..DayLength - 1
  BY DEF Setting

\* A window opens on its day and closes before that day and the next are over.
LEMMA WindowHolds ==
  ASSUME NEW s \in Setting, HasWindow(s), NEW day \in Int
  PROVE  /\ Opens(s, day) \in Int /\ Closes(s, day) \in Int
         /\ day * DayLength \in Int /\ day * DayLength <= Opens(s, day)
         /\ Opens(s, day) < Closes(s, day)
         /\ day * DayLength < Closes(s, day)
         /\ Closes(s, day) < day * DayLength + DayLength + DayLength
<1>1. DayLength \in Nat \ {0} /\ day * DayLength \in Int
  BY WindowAssumption
<1>2. s.start \in 0..DayLength - 1 /\ s.end \in 0..DayLength - 1 /\ s.start # s.end
  BY SettingFields DEF HasWindow
<1> QED
  BY <1>1, <1>2 DEF Opens, Closes

\* The search finds a time, not before the one it starts from, and in a window.
LEMMA NextAllowedIs ==
  ASSUME NEW s \in Setting, NEW t \in Nat
  PROVE  NextAllowed(s, t) \in Nat /\ NextAllowed(s, t) >= t /\ InWindow(s, NextAllowed(s, t))
<1>0. /\ DayLength \in Nat \ {0} /\ WeekLength \in Nat \ {0}
      /\ Day(t) \in Int /\ Day(t) * DayLength \in Int
      /\ Day(t) * DayLength <= t /\ t < Day(t) * DayLength + DayLength
  BY WindowAssumption, DayHolds
<1>1. PICK next \in Day(t) + 1..Day(t) + WeekLength : DayAllowed(s, next)
  BY <1>0, SomeDayAllowed
<1>2. next \in Int /\ Day(t) + 1 <= next /\ next <= Day(t) + WeekLength
  BY <1>0, <1>1
<1>3. CASE HasWindow(s)
  <2> DEFINE Days == {d \in Day(t) - 1..Day(t) + 2 * WeekLength - 1 :
                        DayAllowed(s, d) /\ t < Closes(s, d)}
             V(d) == IF t < Opens(s, d) THEN Opens(s, d) ELSE t
             T == {V(d) : d \in Days}
  <2>1. \A d \in Days : d \in Int /\ DayAllowed(s, d) /\ t < Closes(s, d)
    BY <1>0
  <2>2. \A d \in Days : V(d) \in Nat /\ t <= V(d) /\ Opens(s, d) <= V(d) /\ V(d) < Closes(s, d)
    <3> SUFFICES ASSUME NEW d \in Days
                 PROVE  V(d) \in Nat /\ t <= V(d) /\ Opens(s, d) <= V(d) /\ V(d) < Closes(s, d)
      OBVIOUS
    <3>1. /\ Opens(s, d) \in Int /\ Closes(s, d) \in Int /\ Opens(s, d) < Closes(s, d)
          /\ t < Closes(s, d)
      BY <1>3, <2>1, WindowHolds
    <3> QED
      BY <3>1
  <2>3. next \in Days
    <3>1. (Day(t) + 1) * DayLength <= next * DayLength
      BY <1>0, <1>2, Monotone
    <3>2. (Day(t) + 1) * DayLength = Day(t) * DayLength + DayLength
      BY <1>0
    <3>3. next * DayLength \in Int /\ next * DayLength < Closes(s, next)
          /\ Closes(s, next) \in Int
      BY <1>2, <1>3, WindowHolds
    <3>4. t < Closes(s, next)
      BY <1>0, <3>1, <3>2, <3>3
    <3>5. next \in Day(t) - 1..Day(t) + 2 * WeekLength - 1
      BY <1>0, <1>2
    <3> QED
      BY <1>1, <3>4, <3>5
  <2> HIDE DEF Days, V
  <2>4. T \subseteq Nat /\ T # {}
    BY <2>2, <2>3
  <2>5. Least(T) \in T
    BY <2>4, LeastNumber
  <2>6. PICK d \in Days : Least(T) = V(d)
    BY <2>5
  <2>7. NextAllowed(s, t) = V(d)
    BY <1>3, <2>6 DEF NextAllowed, Days, V
  <2>8. Day(V(d)) = d \/ Day(V(d)) = d + 1
    <3>1. /\ d \in Int /\ V(d) \in Int /\ d * DayLength \in Int
          /\ d * DayLength <= V(d) /\ V(d) < d * DayLength + DayLength + DayLength
      <4>1. /\ d \in Int /\ V(d) \in Nat
            /\ Opens(s, d) <= V(d) /\ V(d) < Closes(s, d)
        BY <2>1, <2>2
      <4>2. /\ Opens(s, d) \in Int /\ Closes(s, d) \in Int
            /\ d * DayLength \in Int /\ d * DayLength <= Opens(s, d)
            /\ Closes(s, d) < d * DayLength + DayLength + DayLength
        BY <1>3, <4>1, WindowHolds
      <4>3. d * DayLength + DayLength + DayLength \in Int
        BY <1>0, <4>2
      <4> QED
        BY <4>1, <4>2, <4>3
    <3>2. (d + 1) * DayLength = d * DayLength + DayLength
      BY <1>0, <3>1
    <3>3. CASE V(d) < d * DayLength + DayLength
      BY <3>1, <3>3, DayIs
    <3>4. CASE ~(V(d) < d * DayLength + DayLength)
      <4>1. (d + 1) * DayLength <= V(d) /\ V(d) < (d + 1) * DayLength + DayLength /\ d + 1 \in Int
        BY <1>0, <3>1, <3>2, <3>4
      <4> QED
        BY <3>1, <4>1, DayIs
    <3> QED
      BY <3>3, <3>4
  <2>9. d \in {Day(V(d)) - 1, Day(V(d))}
    BY <2>1, <2>8
  <2>10. InWindow(s, V(d))
    BY <1>3, <2>1, <2>2, <2>9 DEF InWindow
  <2> QED
    BY <2>2, <2>7, <2>10
<1>4. CASE ~HasWindow(s)
  <2> DEFINE U == {u \in {t + days * DayLength : days \in 0..WeekLength} : DayAllowed(s, Day(u))}
  <2>1. \A days \in 0..WeekLength :
          days * DayLength \in Nat /\ t + days * DayLength \in Nat /\ t <= t + days * DayLength
    BY <1>0
  <2>2. \A u \in U : u \in Nat /\ t <= u /\ DayAllowed(s, Day(u))
    BY <2>1
  <2>3. U # {}
    <3> DEFINE days == next - Day(t)
               u == t + days * DayLength
    <3>1. days \in 0..WeekLength /\ days \in Int
      BY <1>0, <1>2
    <3>2. next * DayLength = Day(t) * DayLength + days * DayLength
      BY <1>0, <1>2, <3>1
    <3>3. days * DayLength \in Int /\ next * DayLength \in Int
      BY <1>0, <1>2, <3>1
    <3>4. u \in Int /\ next * DayLength <= u /\ u < next * DayLength + DayLength
      BY <1>0, <3>2, <3>3
    <3>5. Day(u) = next
      BY <1>2, <3>4, DayIs
    <3> QED
      BY <1>1, <3>1, <3>5
  <2>4. U \subseteq Nat
    BY <2>2
  <2>5. NextAllowed(s, t) = Least(U)
    BY <1>4 DEF NextAllowed
  <2> HIDE DEF U
  <2>6. Least(U) \in U
    BY <2>3, <2>4, LeastNumber
  <2> QED
    BY <1>4, <2>2, <2>5, <2>6 DEF InWindow
<1> QED
  BY <1>3, <1>4

\* The next run is at least a day after what it is counted from.
LEMMA NextRunIs ==
  ASSUME NEW s \in Setting, NEW base \in Nat, s.interval # 0
  PROVE  /\ NextRun(s, base) \in Nat /\ NextRun(s, base) >= base + DayLength
         /\ InWindow(s, NextRun(s, base))
<1>1. DayLength \in Nat /\ s.interval \in Nat /\ 1 <= s.interval
  BY WindowAssumption, SettingFields
<1>2. 1 * DayLength <= s.interval * DayLength /\ s.interval * DayLength \in Nat
  BY <1>1, Monotone
<1>3. base + s.interval * DayLength \in Nat
  BY <1>2
<1>4. NextRun(s, base) = NextAllowed(s, base + s.interval * DayLength)
  BY DEF NextRun
<1> QED
  BY <1>1, <1>2, <1>3, <1>4, NextAllowedIs

\* A missed slot is moved by at least a day, to a time in a window.
LEMMA PostponedIs ==
  ASSUME NEW s \in Setting, NEW slot \in Nat, NEW t, NEW limit \in Nat \ {0}, s.interval # 0
  PROVE  /\ Postponed(s, slot, t, limit) \in Nat
         /\ Postponed(s, slot, t, limit) >= slot + DayLength
         /\ InWindow(s, Postponed(s, slot, t, limit))
<1> DEFINE Chain(n, f) == f = [k \in 0..n |-> IF k = 0 THEN slot ELSE NextRun(s, f[k - 1])]
           Chains == {n \in Nat : \E f : Chain(n, f)}
<1>1. Chains = Nat
  <2>1. 0 \in Chains
    <3>1. Chain(0, [k \in 0..0 |-> slot])
      OBVIOUS
    <3> QED
      BY <3>1
  <2>2. ASSUME NEW n \in Chains PROVE n + 1 \in Chains
    <3>1. PICK f : Chain(n, f)
      OBVIOUS
    <3> DEFINE g == [k \in 0..n + 1 |-> IF k <= n THEN f[k] ELSE NextRun(s, f[n])]
    <3>2. \A k \in 0..n : g[k] = f[k]
      OBVIOUS
    <3>3. g[n + 1] = NextRun(s, f[n])
      OBVIOUS
    <3>4. \A k \in 0..n + 1 : k = 0 \/ k - 1 \in 0..n
      OBVIOUS
    <3>5. \A k \in 0..n + 1 : g[k] = IF k = 0 THEN slot ELSE NextRun(s, g[k - 1])
      <4> SUFFICES ASSUME NEW k \in 0..n + 1
                   PROVE  g[k] = IF k = 0 THEN slot ELSE NextRun(s, g[k - 1])
        OBVIOUS
      <4>1. CASE k = n + 1
        BY <3>2, <3>3, <4>1
      <4>2. CASE k \in 0..n
        BY <3>1, <3>2, <3>4, <4>2
      <4> QED
        BY <4>1, <4>2
    <3>6. g = [k \in 0..n + 1 |-> g[k]]
      OBVIOUS
    <3> HIDE DEF g
    <3>7. Chain(n + 1, g)
      BY <3>5, <3>6
    <3> QED
      BY <3>7
  <2> HIDE DEF Chains
  <2>3. Chains \subseteq Nat
    BY DEF Chains
  <2> QED
    BY <2>1, <2>2, <2>3, SetInduction
<1> DEFINE slots[k \in 0..limit] == IF k = 0 THEN slot ELSE NextRun(s, slots[k - 1])
           Stops(k) == slots[k] > t \/ k = limit
           reached == CHOOSE k \in 1..limit : Stops(k) /\ \A j \in 1..k - 1 : ~Stops(j)
<1>2. Chain(limit, slots)
  BY <1>1
<1>3. Postponed(s, slot, t, limit) = slots[reached]
  BY DEF Postponed
<1> HIDE DEF slots
<1>4. /\ slots[0] = slot
      /\ \A k \in 1..limit : slots[k] = NextRun(s, slots[k - 1])
  BY <1>2
<1> DEFINE Fine == {n \in Nat : n < limit => /\ slots[n] \in Nat /\ slots[n] >= slot
                                            /\ slots[n + 1] \in Nat
                                            /\ slots[n + 1] >= slot + DayLength
                                            /\ InWindow(s, slots[n + 1])}
<1>5. Fine = Nat
  <2>1. ASSUME NEW n \in Nat, n < limit, slots[n] \in Nat, slots[n] >= slot PROVE n \in Fine
    <3>1. n + 1 \in 1..limit /\ (n + 1) - 1 = n
      BY <2>1
    <3>2. slots[n + 1] = NextRun(s, slots[n])
      BY <1>4, <3>1
    <3>3. /\ slots[n + 1] \in Nat /\ slots[n + 1] >= slots[n] + DayLength
          /\ InWindow(s, slots[n + 1])
      BY <2>1, <3>2, NextRunIs
    <3> QED
      BY <2>1, <3>3, WindowAssumption
  <2>2. 0 \in Fine
    BY <1>4, <2>1
  <2>3. ASSUME NEW n \in Fine PROVE n + 1 \in Fine
    <3>1. CASE n + 1 < limit
      <4>1. slots[n + 1] \in Nat /\ slots[n + 1] >= slot + DayLength
        BY <3>1
      <4>2. slots[n + 1] >= slot
        BY <4>1, WindowAssumption
      <4> QED
        BY <2>1, <3>1, <4>1, <4>2
    <3>2. CASE ~(n + 1 < limit)
      BY <3>2
    <3> QED
      BY <3>1, <3>2
  <2>4. Fine \subseteq Nat
    OBVIOUS
  <2> HIDE DEF Fine
  <2> QED
    BY <2>2, <2>3, <2>4, SetInduction
<1>6. reached \in 1..limit
  <2> DEFINE Stop == {k \in 1..limit : Stops(k)}
  <2>1. limit \in Stop /\ Stop \subseteq Nat
    OBVIOUS
  <2>2. Least(Stop) \in Stop /\ \A k \in Stop : Least(Stop) <= k
    BY <2>1, LeastNumber
  <2>3. \A j \in 1..Least(Stop) - 1 : j \in 1..limit /\ ~(Least(Stop) <= j)
    BY <2>2
  <2>4. \A j \in 1..Least(Stop) - 1 : ~Stops(j)
    BY <2>2, <2>3
  <2> HIDE DEF Stops
  <2> QED
    BY <2>2, <2>4
<1> HIDE DEF reached
<1>7. reached - 1 \in Nat /\ reached - 1 < limit /\ (reached - 1) + 1 = reached
  BY <1>6
<1>8. reached - 1 \in Fine
  BY <1>5, <1>7
<1> QED
  BY <1>3, <1>7, <1>8

-----------------------------------------------------------------------------
(* The inductive invariant.                                                *)

Runs == {NoRun} \cup [number : Nat, slot : Int, at : Nat, started : Nat, setting : Setting,
                      saved : BOOLEAN]

\* A config as it is read, held and written: its next run lies in its window.
Sane(c) ==
  /\ c \in Configs
  /\ c.next # Never => c.next \in Nat /\ InWindow(c.setting, c.next)

\* The next run is at least a day after the last one that was written down.
Apart(d, c) ==
  run[d] # NoRun /\ run[d].saved /\ c.next # Never => c.next >= run[d].at + DayLength

SaneInv ==
  /\ \A d \in Domains : Sane(config[d])
  /\ Sane(held)
  /\ admin # Idle => Sane(admin.config)

\* The thread is at a site with a slot that is due, by a clock it read before.
ScanInv ==
  /\ now <= clock
  /\ pc \in {"persist", "postpone", "crawl"} => current \in Domains
  /\ pc \in {"persist", "postpone"} => held.setting.interval # 0 /\ held.next # Never

\* While a request is at work no time passes.
AdminInv ==
  admin # Idle => admin.config.next = Never \/ admin.config.next >= clock + DayLength

ApartInv ==
  /\ \A d \in Domains : Apart(d, config[d])
  /\ \A d \in Domains : run[d] # NoRun => run[d].at <= clock
  /\ pc \in {"persist", "postpone"} => Apart(current, held)

IInv ==
  /\ TypeOK
  /\ run \in [Domains -> Runs]
  /\ SaneInv /\ ScanInv /\ AdminInv /\ ApartInv

LEMMA Numbers ==
  /\ DayLength \in Nat \ {0} /\ WeekLength \in Nat \ {0} /\ Never \in Int /\ Never \notin Nat
  /\ Time \subseteq Nat /\ 0 \in Time
  BY WindowAssumption, SchedulerAssumption DEF Never, Time

LEMMA ConfigFields ==
  ASSUME NEW c \in Configs
  PROVE  /\ c.setting \in Setting /\ c.setting \in Settings \cup {NoSetting}
         /\ c.last \in Int /\ c.next \in Int
<1>1. NoSetting \in Setting
  BY WindowAssumption DEF NoSetting, Setting
<1>2. c.setting \in Settings \cup {NoSetting} /\ c.last \in Int /\ c.next \in Int
  BY DEF Configs
<1> QED
  BY <1>1, <1>2, SchedulerAssumption

\* What the scheduler and the handlers write.
LEMMA NextRunSane ==
  ASSUME NEW s \in Setting, NEW base \in Nat
  PROVE  /\ NextRun(s, base) \in Int
         /\ NextRun(s, base) # Never =>
              /\ NextRun(s, base) \in Nat /\ NextRun(s, base) >= base + DayLength
              /\ InWindow(s, NextRun(s, base))
<1>1. s.interval = 0 => NextRun(s, base) = Never
  BY DEF NextRun
<1> QED
  BY <1>1, NextRunIs, Numbers

LEMMA DefaultSane == Sane(Default)
  BY Numbers DEF Sane, Default, Configs

LEMMA InitIInv == Init => IInv
<1> SUFFICES ASSUME Init PROVE IInv
  OBVIOUS
<1>1. ASSUME NEW d \in Domains PROVE Sane(config[d])
  <2>1. PICK setting \in [Domains -> Settings] :
          config = [e \in Domains |->
                      [setting |-> setting[e], last |-> Never, next |-> NextRun(setting[e], 0)]]
    BY DEF Init
  <2>2. setting[d] \in Settings /\ setting[d] \in Setting
    BY <2>1, SchedulerAssumption
  <2>3. config[d] = [setting |-> setting[d], last |-> Never, next |-> NextRun(setting[d], 0)]
    BY <2>1
  <2> QED
    BY <2>2, <2>3, NextRunSane, Numbers DEF Sane, Configs
<1>2. config \in [Domains -> Configs]
  <2>1. PICK value : config = [e \in Domains |-> value[e]]
    BY DEF Init
  <2> QED
    BY <1>1, <2>1 DEF Sane
<1>3. TypeOK
  BY <1>2, DefaultSane, Numbers, SchedulerAssumption DEF Init, TypeOK, Sane
<1>4. run \in [Domains -> Runs] /\ \A d \in Domains : run[d] = NoRun
  BY DEF Init, Runs
<1>5. SaneInv
  BY <1>1, DefaultSane DEF SaneInv, Init
<1>6. ScanInv /\ AdminInv /\ ApartInv
  BY <1>4 DEF Init, ScanInv, AdminInv, ApartInv, Apart
<1> QED
  BY <1>3, <1>4, <1>5, <1>6 DEF IInv

-----------------------------------------------------------------------------
(* Steps that write no file and start no run.                              *)

\* All that the invariant says while a step leaves the files and the runs alone.
LEMMA Quiet ==
  ASSUME IInv, UNCHANGED <<config, torn, run>>, TypeOK',
         Sane(held)', (admin # Idle => Sane(admin.config))', ScanInv', AdminInv',
         clock <= clock',
         (pc \in {"persist", "postpone"} => Apart(current, held))'
  PROVE  IInv'
<1>1. SaneInv'
  BY DEF IInv, SaneInv, Sane
<1>2. \A d \in Domains : Apart(d, config[d])'
  BY DEF IInv, ApartInv, Apart
<1>3. \A d \in Domains : run'[d] # NoRun => run'[d].at <= clock'
  <2> SUFFICES ASSUME NEW d \in Domains, run[d] # NoRun PROVE run[d].at <= clock'
    OBVIOUS
  <2>1. run[d].at \in Int /\ run[d].at <= clock
    BY DEF IInv, ApartInv, Runs
  <2>2. clock \in Int /\ clock' \in Int
    BY Numbers DEF IInv, TypeOK
  <2> QED
    BY <2>1, <2>2
<1>4. ApartInv'
  BY <1>2, <1>3 DEF ApartInv
<1> QED
  BY <1>1, <1>4 DEF IInv

LEMMA TickStep == ASSUME IInv, Tick PROVE IInv'
<1> USE DEF Tick, files, loop, counts
<1>1. clock \in Int /\ clock + 1 \in Time /\ now \in Int
  BY Numbers, SchedulerAssumption DEF IInv, TypeOK, Time
<1>2. TypeOK'
  BY <1>1 DEF IInv, TypeOK
<1>3. ScanInv' /\ AdminInv' /\ clock <= clock'
  BY <1>1 DEF IInv, ScanInv, AdminInv
<1>4. Sane(held)' /\ (admin # Idle => Sane(admin.config))'
  BY DEF IInv, SaneInv, Sane
<1>5. (pc \in {"persist", "postpone"} => Apart(current, held))'
  OBVIOUS
<1> QED
  BY <1>2, <1>3, <1>4, <1>5, Quiet

LEMMA StartScanStep == ASSUME IInv, StartScan PROVE IInv'
<1> USE DEF StartScan, files, counts
<1>1. clock \in Int
  BY Numbers DEF IInv, TypeOK
<1>2. TypeOK'
  BY DEF IInv, TypeOK
<1>3. ScanInv' /\ AdminInv' /\ clock <= clock'
  BY <1>1 DEF IInv, ScanInv, AdminInv
<1>4. Sane(held)' /\ (admin # Idle => Sane(admin.config))'
  BY DEF IInv, SaneInv, Sane
<1> QED
  BY <1>2, <1>3, <1>4, Quiet

LEMMA CheckSiteStep == ASSUME IInv, CheckSite PROVE IInv'
<1> USE DEF files, counts
<1>1. PICK d \in todo :
        /\ pc = "scan"
        /\ todo' = todo \ {d}
        /\ IF d \in torn \/ ~Due(config[d], now)
           THEN UNCHANGED <<pc, current, held>>
           ELSE IF IsAllowed(config[d].setting, now) /\ ~config[d].setting.site
           THEN UNCHANGED <<pc, current, held>>
           ELSE /\ current' = d
                /\ held' = config[d]
                /\ pc' = IF IsAllowed(config[d].setting, now) THEN "persist" ELSE "postpone"
        /\ UNCHANGED <<clock, files, now, attempts, admin, counts, run>>
  BY DEF CheckSite
<1>2. clock \in Int /\ d \in Domains
  BY <1>1, Numbers DEF IInv, TypeOK
<1>3. UNCHANGED <<config, torn, run>> /\ clock <= clock'
  BY <1>1, <1>2
<1>4. AdminInv' /\ (admin # Idle => Sane(admin.config))'
  BY <1>1 DEF IInv, AdminInv, SaneInv, Sane
<1>5. CASE UNCHANGED <<pc, current, held>>
  <2>1. TypeOK'
    BY <1>1, <1>5 DEF IInv, TypeOK
  <2>2. ScanInv' /\ Sane(held)'
    BY <1>1, <1>5 DEF IInv, ScanInv, SaneInv, Sane
  <2>3. (pc \in {"persist", "postpone"} => Apart(current, held))'
    BY <1>1, <1>5
  <2> QED
    BY <1>3, <1>4, <2>1, <2>2, <2>3, Quiet
<1>6. CASE ~UNCHANGED <<pc, current, held>>
  <2>1. /\ Due(config[d], now) /\ current' = d /\ held' = config[d]
        /\ pc' \in {"persist", "postpone"}
    BY <1>1, <1>6
  <2>2. Sane(config[d])
    BY <1>2 DEF IInv, SaneInv
  <2>3. Sane(held)' /\ held' \in Configs
    BY <2>1, <2>2 DEF Sane
  <2>4. TypeOK'
    BY <1>1, <1>2, <2>1, <2>3 DEF IInv, TypeOK
  <2>5. ScanInv'
    <3>1. held'.setting.interval # 0 /\ held'.next # Never
      BY <2>1 DEF Due
    <3>2. now' <= clock'
      BY <1>1 DEF IInv, ScanInv
    <3> QED
      BY <1>2, <2>1, <3>1, <3>2 DEF ScanInv
  <2>6. Apart(current, held)'
    BY <1>1, <1>2, <2>1 DEF IInv, ApartInv, Apart
  <2> QED
    BY <1>3, <1>4, <2>3, <2>4, <2>5, <2>6, Quiet
<1> QED
  BY <1>5, <1>6

LEMMA EndScanStep == ASSUME IInv, EndScan PROVE IInv'
<1> USE DEF EndScan, files, counts
<1>1. clock \in Nat
  BY Numbers DEF IInv, TypeOK
<1>2. TypeOK'
  BY Numbers DEF IInv, TypeOK
<1>3. ScanInv' /\ AdminInv' /\ clock <= clock'
  BY <1>1 DEF IInv, ScanInv, AdminInv
<1>4. Sane(held)' /\ (admin # Idle => Sane(admin.config))'
  BY DEF IInv, SaneInv, Sane
<1> QED
  BY <1>2, <1>3, <1>4, Quiet

LEMMA CrawlStep == ASSUME IInv, Crawl PROVE IInv'
<1> USE DEF files, counts
<1>0. /\ pc = "crawl"
      /\ UNCHANGED <<clock, config, torn, now, todo, admin, requests, faults, crashes, run>>
      /\ pc' \in {"crawl", "scan"}
  BY DEF Crawl, NextSite
<1>1. clock \in Int
  BY Numbers DEF IInv, TypeOK
<1>2. Sane(held)' /\ attempts' \in 0..Retries
      /\ (current' = Nowhere \/ current' = current) /\ (pc' = "crawl" => current' = current)
  <2>1. CASE NextSite
    BY <2>1, DefaultSane, SchedulerAssumption DEF NextSite, Sane
  <2>2. CASE attempts < Retries /\ attempts' = attempts + 1 /\ UNCHANGED <<pc, current, held>>
    BY <2>2, SchedulerAssumption DEF IInv, SaneInv, Sane, TypeOK
  <2> QED
    BY <2>1, <2>2 DEF Crawl
<1>3. TypeOK'
  BY <1>0, <1>2 DEF IInv, TypeOK, Sane
<1>4. ScanInv' /\ AdminInv' /\ clock <= clock'
  BY <1>0, <1>1, <1>2 DEF IInv, ScanInv, AdminInv
<1>5. (admin # Idle => Sane(admin.config))'
  BY <1>0 DEF IInv, SaneInv, Sane
<1> QED
  BY <1>0, <1>2, <1>3, <1>4, <1>5, Quiet

LEMMA RestartStep == ASSUME IInv, Restart PROVE IInv'
<1> USE DEF Restart, files
<1>1. clock \in Nat
  BY Numbers DEF IInv, TypeOK
<1>2. Sane(held)'
  BY DefaultSane DEF Sane
<1>3. crashes' \in 0..MaxCrashes
  BY SchedulerAssumption DEF IInv, TypeOK
<1>4. TypeOK'
  BY <1>2, <1>3, Numbers, SchedulerAssumption DEF IInv, TypeOK, Sane
<1>5. ScanInv' /\ AdminInv' /\ clock <= clock'
  BY <1>1 DEF IInv, ScanInv, AdminInv
<1> QED
  BY <1>2, <1>4, <1>5, Quiet

LEMMA StutterStep == ASSUME IInv, UNCHANGED vars PROVE IInv'
<1> USE DEF vars, files, loop, counts
<1>1. clock \in Int
  BY Numbers DEF IInv, TypeOK
<1>2. TypeOK'
  BY DEF IInv, TypeOK
<1>3. ScanInv' /\ AdminInv' /\ clock <= clock'
  BY <1>1 DEF IInv, ScanInv, AdminInv
<1>4. Sane(held)' /\ (admin # Idle => Sane(admin.config))'
  BY DEF IInv, SaneInv, Sane
<1>5. (pc \in {"persist", "postpone"} => Apart(current, held))'
  BY DEF IInv, ApartInv, Apart
<1> QED
  BY <1>2, <1>3, <1>4, <1>5, Quiet

-----------------------------------------------------------------------------
(* Steps that write.                                                       *)

\* A config with its next run, and another field, changed.
LEMMA NextChanged ==
  ASSUME NEW c \in Configs, NEW n
  PROVE  [c EXCEPT !.next = n] = [setting |-> c.setting, last |-> c.last, next |-> n]
  BY DEF Configs

LEMMA LastChanged ==
  ASSUME NEW c \in Configs, NEW t, NEW n
  PROVE  [c EXCEPT !.last = t, !.next = n] = [setting |-> c.setting, last |-> t, next |-> n]
<1> DEFINE e == [c EXCEPT !.last = t]
<1>1. e = [setting |-> c.setting, last |-> t, next |-> c.next]
  BY DEF Configs
<1>2. [e EXCEPT !.next = n] = [setting |-> e.setting, last |-> e.last, next |-> n]
  <2> HIDE DEF e
  <2> QED
    BY <1>1
<1>3. e.setting = c.setting /\ e.last = t
  <2> HIDE DEF e
  <2> QED
    BY <1>1
<1> QED
  BY <1>2, <1>3, Zenon

LEMMA SettingChanged ==
  ASSUME NEW c \in Configs, NEW s, NEW n
  PROVE  [c EXCEPT !.setting = s, !.next = n] = [setting |-> s, last |-> c.last, next |-> n]
<1> DEFINE e == [c EXCEPT !.setting = s]
<1>1. e = [setting |-> s, last |-> c.last, next |-> c.next]
  BY DEF Configs
<1>2. [e EXCEPT !.next = n] = [setting |-> e.setting, last |-> e.last, next |-> n]
  <2> HIDE DEF e
  <2> QED
    BY <1>1
<1>3. e.setting = s /\ e.last = c.last
  <2> HIDE DEF e
  <2> QED
    BY <1>1
<1> QED
  BY <1>2, <1>3, Zenon

\* A whole new file in the place of the old one.
LEMMA Replaced ==
  ASSUME IInv, NEW d \in Domains, NEW c, Sane(c), NEW gone \in SUBSET Domains,
         config' = [config EXCEPT ![d] = c], torn' = torn \ gone
  PROVE  /\ config' \in [Domains -> Configs] /\ torn' \subseteq Domains
         /\ config'[d] = c
         /\ \A e \in Domains \ {d} : config'[e] = config[e]
         /\ \A e \in Domains : Sane(config'[e])
<1>1. config \in [Domains -> Configs] /\ torn \subseteq Domains
  BY DEF IInv, TypeOK
<1>2. c \in Configs
  BY DEF Sane
<1>3. config'[d] = c /\ \A e \in Domains \ {d} : config'[e] = config[e]
  BY <1>1
<1>4. \A e \in Domains : Sane(config'[e])
  BY <1>3 DEF IInv, SaneInv
<1> QED
  BY <1>1, <1>2, <1>3, <1>4

\* What a site's thread is at, and its config.
LEMMA AtSite ==
  ASSUME IInv, pc \in {"persist", "postpone"}
  PROVE  /\ current \in Domains /\ held \in Configs /\ held.setting \in Setting
         /\ held.setting \in Settings \cup {NoSetting} /\ held.last \in Int
         /\ held.setting.interval # 0 /\ held.next \in Nat /\ InWindow(held.setting, held.next)
         /\ now \in Nat /\ clock \in Nat /\ now <= clock /\ Apart(current, held)
<1>1. current \in Domains /\ held.setting.interval # 0 /\ held.next # Never /\ now <= clock
  BY DEF IInv, ScanInv
<1>2. held \in Configs /\ held.next \in Nat /\ InWindow(held.setting, held.next)
  BY <1>1 DEF IInv, SaneInv, Sane
<1>3. Apart(current, held)
  BY DEF IInv, ApartInv
<1>4. now \in Nat /\ clock \in Nat
  BY Numbers DEF IInv, TypeOK
<1> QED
  BY <1>1, <1>2, <1>3, <1>4, ConfigFields

\* _write_schedule_config, with what it leaves of the bounds.
LEMMA ReplaceEffect ==
  ASSUME IInv, current \in Domains, NEW c, Sane(c), Replace(c)
  PROVE  /\ config' \in [Domains -> Configs] /\ torn' \subseteq Domains
         /\ \A e \in Domains : Sane(config'[e])
         /\ \A e \in Domains \ {current} : config'[e] = config[e]
         /\ faults' = faults => config'[current] = c
         /\ faults' # faults => config' = config
         /\ requests' = requests /\ crashes' = crashes /\ faults' \in 0..MaxFaults
<1>0. faults \in 0..MaxFaults /\ config \in [Domains -> Configs] /\ torn \subseteq Domains
      /\ \A e \in Domains : Sane(config[e])
  BY DEF IInv, TypeOK, SaneInv
<1>1. CASE config' = [config EXCEPT ![current] = c] /\ torn' = torn \ {current} /\ UNCHANGED counts
  <2>1. /\ config' \in [Domains -> Configs] /\ torn' \subseteq Domains
        /\ config'[current] = c
        /\ \A e \in Domains \ {current} : config'[e] = config[e]
        /\ \A e \in Domains : Sane(config'[e])
    <3>1. {current} \in SUBSET Domains /\ torn' = torn \ {current}
      BY <1>1
    <3>2. config' = [config EXCEPT ![current] = c]
      BY <1>1
    <3> QED
      BY <3>1, <3>2, Replaced
  <2> QED
    BY <1>0, <1>1, <2>1 DEF counts
<1>2. CASE /\ faults < MaxFaults /\ faults' = faults + 1
           /\ UNCHANGED <<files, requests, crashes>>
  BY <1>0, <1>2, SchedulerAssumption DEF files
<1> QED
  BY <1>1, <1>2 DEF Replace

LEMMA PostponeStep == ASSUME IInv, Postpone PROVE IInv'
<1> DEFINE c == [held EXCEPT !.next = Postponed(held.setting, held.next, now, PostponeLimit)]
<1>0. /\ pc = "postpone" /\ Replace(c) /\ NextSite
      /\ UNCHANGED <<clock, now, todo, admin, run>>
  BY DEF Postpone
<1>1. /\ current \in Domains /\ held \in Configs /\ held.setting \in Setting
      /\ held.setting \in Settings \cup {NoSetting} /\ held.last \in Int
      /\ held.setting.interval # 0 /\ held.next \in Nat
      /\ now \in Nat /\ clock \in Nat /\ now <= clock /\ Apart(current, held)
  BY <1>0, AtSite
<1>2. /\ c.next \in Nat /\ c.next >= held.next + DayLength /\ InWindow(held.setting, c.next)
      /\ c.setting = held.setting /\ c \in Configs
  <2>1. PostponeLimit \in Nat \ {0}
    BY SchedulerAssumption
  <2> DEFINE p == Postponed(held.setting, held.next, now, PostponeLimit)
  <2>2. p \in Nat /\ p >= held.next + DayLength /\ InWindow(held.setting, p)
    BY <1>1, <2>1, PostponedIs
  <2>3. c = [setting |-> held.setting, last |-> held.last, next |-> p]
    BY <1>1, NextChanged
  <2> HIDE DEF p, c
  <2> QED
    BY <1>1, <2>2, <2>3 DEF Configs
<1>3. Sane(c)
  BY <1>2 DEF Sane
<1> HIDE DEF c
<1>4. /\ config' \in [Domains -> Configs] /\ torn' \subseteq Domains
      /\ \A e \in Domains : Sane(config'[e])
      /\ \A e \in Domains \ {current} : config'[e] = config[e]
      /\ faults' = faults => config'[current] = c
      /\ faults' # faults => config' = config
      /\ requests' = requests /\ crashes' = crashes /\ faults' \in 0..MaxFaults
  BY <1>0, <1>1, <1>3, ReplaceEffect
<1>5. pc' = "scan" /\ current' = Nowhere /\ Sane(held)' /\ attempts' = 0
  BY <1>0, DefaultSane DEF NextSite, Sane
<1>6. TypeOK'
  BY <1>0, <1>4, <1>5, SchedulerAssumption DEF IInv, TypeOK, Sane
<1>7. SaneInv'
  <2>1. (admin # Idle => Sane(admin.config))'
    BY <1>0 DEF IInv, SaneInv, Sane
  <2>2. (\A e \in Domains : Sane(config[e]))'
    BY <1>4 DEF Sane
  <2> QED
    BY <1>5, <2>1, <2>2 DEF SaneInv
<1>8. ScanInv' /\ AdminInv'
  BY <1>0, <1>5 DEF IInv, ScanInv, AdminInv
<1>9. \A e \in Domains : Apart(e, config[e])'
  <2> SUFFICES ASSUME NEW e \in Domains, run[e] # NoRun, run[e].saved, config'[e].next # Never
               PROVE  config'[e].next >= run[e].at + DayLength
    BY <1>0 DEF Apart
  <2>1. CASE config'[e] = config[e]
    BY <2>1 DEF IInv, ApartInv, Apart
  <2>2. CASE e = current /\ config'[e] = c
    <3>1. held.next >= run[e].at + DayLength
      BY <1>1, <2>2, Numbers DEF Apart
    <3>2. run[e].at \in Int
      BY DEF IInv, Runs
    <3> QED
      BY <1>1, <1>2, <2>2, <3>1, <3>2, Numbers
  <2> QED
    BY <1>4, <2>1, <2>2
<1>10. ApartInv'
  BY <1>0, <1>5, <1>9 DEF IInv, ApartInv
<1> QED
  BY <1>0, <1>6, <1>7, <1>8, <1>10 DEF IInv

LEMMA PersistStep == ASSUME IInv, Persist PROVE IInv'
<1> DEFINE c == [held EXCEPT !.last = now, !.next = NextRun(held.setting, now)]
           new == [number |-> run[current].number + 1, slot |-> held.next, at |-> now,
                   started |-> clock, setting |-> held.setting, saved |-> faults' = faults]
<1>0. /\ pc = "persist" /\ Replace(c) /\ run' = [run EXCEPT ![current] = new]
      /\ pc' = "crawl"
      /\ UNCHANGED <<clock, now, todo, current, held, attempts, admin>>
  BY DEF Persist, StartRun
<1>1. /\ current \in Domains /\ held \in Configs /\ held.setting \in Setting
      /\ held.setting \in Settings \cup {NoSetting} /\ held.last \in Int
      /\ held.setting.interval # 0 /\ held.next \in Nat
      /\ now \in Nat /\ clock \in Nat /\ now <= clock
  BY <1>0, AtSite
<1>2. /\ c.next \in Nat /\ c.next >= now + DayLength /\ InWindow(held.setting, c.next)
      /\ c.setting = held.setting /\ c \in Configs
  <2> DEFINE n == NextRun(held.setting, now)
  <2>1. n \in Nat /\ n >= now + DayLength /\ InWindow(held.setting, n)
    BY <1>1, NextRunIs
  <2>2. c = [setting |-> held.setting, last |-> now, next |-> n]
    <3>1. held \in Configs
      BY <1>1
    <3> QED
      BY <3>1, LastChanged, Zenon
  <2> HIDE DEF n, c
  <2> QED
    BY <1>1, <2>1, <2>2 DEF Configs
<1>3. Sane(c)
  BY <1>2 DEF Sane
<1> HIDE DEF c
<1>4. /\ config' \in [Domains -> Configs] /\ torn' \subseteq Domains
      /\ \A e \in Domains : Sane(config'[e])
      /\ \A e \in Domains \ {current} : config'[e] = config[e]
      /\ faults' = faults => config'[current] = c
      /\ requests' = requests /\ crashes' = crashes /\ faults' \in 0..MaxFaults
  BY <1>0, <1>1, <1>3, ReplaceEffect
<1>5. run[current].number \in Nat
  <2>1. run[current] = NoRun \/ run[current].number \in Nat
    BY <1>1 DEF IInv, Runs
  <2> QED
    BY <2>1 DEF NoRun
<1>6. new \in Runs /\ new.at = now /\ new.saved = (faults' = faults) /\ new # NoRun
  <2>1. new # NoRun
    BY <1>5 DEF NoRun
  <2> QED
    BY <1>1, <1>5, <2>1 DEF Runs
<1> HIDE DEF new
<1>7. /\ run' \in [Domains -> Runs] /\ run'[current] = new
      /\ \A e \in Domains \ {current} : run'[e] = run[e]
  BY <1>0, <1>1, <1>6 DEF IInv
<1>8. TypeOK'
  BY <1>0, <1>4 DEF IInv, TypeOK
<1>9. SaneInv'
  <2>1. (admin # Idle => Sane(admin.config))' /\ Sane(held)'
    BY <1>0 DEF IInv, SaneInv, Sane
  <2>2. (\A e \in Domains : Sane(config[e]))'
    BY <1>4 DEF Sane
  <2> QED
    BY <2>1, <2>2 DEF SaneInv
<1>10. ScanInv' /\ AdminInv'
  BY <1>0, <1>1 DEF IInv, ScanInv, AdminInv
<1>11. \A e \in Domains : Apart(e, config[e])'
  <2> SUFFICES ASSUME NEW e \in Domains, run'[e] # NoRun, run'[e].saved, config'[e].next # Never
               PROVE  config'[e].next >= run'[e].at + DayLength
    BY DEF Apart
  <2>1. CASE e # current
    BY <1>4, <1>7, <2>1 DEF IInv, ApartInv, Apart
  <2>2. CASE e = current
    BY <1>2, <1>4, <1>6, <1>7, <2>2
  <2> QED
    BY <2>1, <2>2
<1>12. \A e \in Domains : run'[e] # NoRun => run'[e].at <= clock'
  BY <1>0, <1>1, <1>6, <1>7 DEF IInv, ApartInv
<1>13. ApartInv'
  BY <1>0, <1>11, <1>12 DEF ApartInv
<1> QED
  BY <1>7, <1>8, <1>9, <1>10, <1>13 DEF IInv

\* A request as it is read, changed and put aside to be written.
LEMMA RequestStep ==
  ASSUME IInv, NEW d \in Domains, NEW c, Request(d, c), Sane(c),
         c.next = Never \/ c.next >= clock + DayLength
  PROVE  IInv'
<1> USE DEF Request, files, loop
<1>1. admin' = [state |-> "ready", domain |-> d, config |-> c] /\ c \in Configs
  BY DEF Sane
<1>2. clock \in Int /\ requests' \in 0..MaxRequests
  BY Numbers, SchedulerAssumption DEF IInv, TypeOK
<1>3. admin' \in [state : {"ready", "writing"}, domain : Domains, config : Configs]
  BY <1>1
<1>4. TypeOK'
  BY <1>2, <1>3 DEF IInv, TypeOK
<1>5. admin'.config = c
  BY <1>1
<1>6. ScanInv' /\ AdminInv' /\ clock <= clock'
  BY <1>2, <1>5 DEF IInv, ScanInv, AdminInv
<1>7. Sane(held)' /\ (admin # Idle => Sane(admin.config))'
  BY <1>5 DEF IInv, SaneInv, Sane
<1>8. (pc \in {"persist", "postpone"} => Apart(current, held))'
  BY DEF IInv, ApartInv, Apart
<1> QED
  BY <1>4, <1>6, <1>7, <1>8, Quiet

LEMMA LoadedSane ==
  ASSUME IInv, NEW d \in Domains
  PROVE  Sane(Loaded(d)) /\ Loaded(d) \in Configs
  BY DefaultSane DEF Loaded, IInv, SaneInv, Sane

\* A config with a setting of the administrator, or its own, and the next run that
\* follows from it.
LEMMA Rewritten ==
  ASSUME IInv, NEW s \in Setting, s \in Settings \cup {NoSetting}, NEW last \in Int, NEW c,
         c = [setting |-> s, last |-> last, next |-> NextRun(s, clock)]
  PROVE  Sane(c) /\ (c.next = Never \/ c.next >= clock + DayLength)
<1>1. clock \in Nat
  BY Numbers DEF IInv, TypeOK
<1> DEFINE n == NextRun(s, clock)
<1>2. n \in Int /\ (n # Never => n \in Nat /\ n >= clock + DayLength /\ InWindow(s, n))
  BY <1>1, NextRunSane
<1> HIDE DEF n
<1>3. c = [setting |-> s, last |-> last, next |-> n]
  BY DEF n
<1> QED
  BY <1>2, <1>3 DEF Sane, Configs

LEMMA PutSettingsStep == ASSUME IInv, NEW d \in Domains, PutSettings(d) PROVE IInv'
<1>1. PICK s \in Settings :
        Request(d, [Loaded(d) EXCEPT !.setting = s, !.next = NextRun(s, clock)])
  BY DEF PutSettings
<1> DEFINE c == [Loaded(d) EXCEPT !.setting = s, !.next = NextRun(s, clock)]
<1>2. Loaded(d) \in Configs /\ s \in Setting
  BY LoadedSane, SchedulerAssumption
<1>3. c = [setting |-> s, last |-> Loaded(d).last, next |-> NextRun(s, clock)]
      /\ Loaded(d).last \in Int
  <2>1. Loaded(d) \in Configs
    BY <1>2
  <2>2. c = [setting |-> s, last |-> Loaded(d).last, next |-> NextRun(s, clock)]
    BY <2>1, SettingChanged, Zenon
  <2> QED
    BY <2>1, <2>2, ConfigFields
<1>4. Request(d, c)
  BY <1>1
<1> HIDE DEF c
<1>5. Sane(c) /\ (c.next = Never \/ c.next >= clock + DayLength)
  BY <1>2, <1>3, Rewritten
<1> QED
  BY <1>4, <1>5, RequestStep

LEMMA RunNowStep == ASSUME IInv, NEW d \in Domains, RunNow(d) PROVE IInv'
<1> DEFINE s == Loaded(d).setting
           c == [Loaded(d) EXCEPT !.last = clock, !.next = NextRun(Loaded(d).setting, clock)]
<1>1. Loaded(d) \in Configs
  BY LoadedSane
<1>2. s \in Setting /\ s \in Settings \cup {NoSetting}
  BY <1>1, ConfigFields
<1>3. clock \in Int
  BY Numbers DEF IInv, TypeOK
<1>4. c = [setting |-> s, last |-> clock, next |-> NextRun(s, clock)]
  BY <1>1, LastChanged, Zenon
<1>5. Request(d, c)
  BY DEF RunNow
<1> HIDE DEF c, s
<1>6. Sane(c) /\ (c.next = Never \/ c.next >= clock + DayLength)
  BY <1>2, <1>3, <1>4, Rewritten
<1> QED
  BY <1>5, <1>6, RequestStep

LEMMA BeginSaveStep == ASSUME IInv, BeginSave PROVE IInv'
<1> USE DEF BeginSave, loop, counts
<1>1. admin # Idle
  BY DEF Idle
<1>2. /\ admin \in [state : {"ready", "writing"}, domain : Domains, config : Configs]
      /\ admin.domain \in Domains
  BY <1>1 DEF IInv, TypeOK
<1>3. /\ admin' \in [state : {"ready", "writing"}, domain : Domains, config : Configs]
      /\ admin'.config = admin.config
  BY <1>2
<1>4. TypeOK'
  BY <1>2, <1>3 DEF IInv, TypeOK
<1>5. SaneInv'
  <2>1. Sane(admin.config)'
    BY <1>1, <1>3 DEF IInv, SaneInv, Sane
  <2>2. Sane(held)' /\ (\A e \in Domains : Sane(config[e]))'
    BY DEF IInv, SaneInv, Sane
  <2> QED
    BY <2>1, <2>2 DEF SaneInv
<1>6. ScanInv' /\ AdminInv'
  BY <1>1, <1>3 DEF IInv, ScanInv, AdminInv
<1>7. ApartInv'
  BY DEF IInv, ApartInv, Apart
<1> QED
  BY <1>4, <1>5, <1>6, <1>7 DEF IInv

LEMMA EndSaveStep == ASSUME IInv, EndSave PROVE IInv'
<1> DEFINE d == admin.domain
           c == admin.config
<1>0. /\ admin.state = "writing" /\ admin' = Idle
      /\ IF d \in torn
         THEN config' = [config EXCEPT ![d] = c] /\ torn' = torn \ {d}
         ELSE UNCHANGED files
      /\ UNCHANGED <<clock, loop, counts, run>>
  BY DEF EndSave
<1>1. admin # Idle
  BY <1>0 DEF Idle
<1>2. d \in Domains /\ c \in Configs
  BY <1>1 DEF IInv, TypeOK
<1>3. Sane(c) /\ (c.next = Never \/ c.next >= clock + DayLength)
  BY <1>1 DEF IInv, SaneInv, AdminInv
<1> HIDE DEF d, c
<1>4. /\ config' \in [Domains -> Configs] /\ torn' \subseteq Domains
      /\ \A e \in Domains : Sane(config'[e])
      /\ \A e \in Domains : config'[e] = config[e] \/ config'[e] = c
  <2>1. CASE d \in torn
    <3>1. config' = [config EXCEPT ![d] = c] /\ torn' = torn \ {d} /\ {d} \in SUBSET Domains
      BY <1>0, <1>2, <2>1
    <3>2. /\ config' \in [Domains -> Configs] /\ torn' \subseteq Domains
          /\ config'[d] = c
          /\ \A e \in Domains \ {d} : config'[e] = config[e]
          /\ \A e \in Domains : Sane(config'[e])
      BY <1>2, <1>3, <3>1, Replaced
    <3> QED
      BY <3>2
  <2>2. CASE d \notin torn
    BY <1>0, <2>2 DEF IInv, TypeOK, SaneInv, files
  <2> QED
    BY <2>1, <2>2
<1>5. /\ admin' = Idle
      /\ UNCHANGED <<clock, pc, now, todo, current, held, attempts, requests, faults, crashes, run>>
  BY <1>0 DEF loop, counts
<1>6. TypeOK'
  BY <1>4, <1>5 DEF IInv, TypeOK
<1>7. SaneInv'
  <2>1. Sane(held)'
    BY <1>5 DEF IInv, SaneInv, Sane
  <2>2. (\A e \in Domains : Sane(config[e]))'
    BY <1>4 DEF Sane
  <2> QED
    BY <1>5, <2>1, <2>2 DEF SaneInv
<1>8. ScanInv' /\ AdminInv'
  BY <1>5 DEF IInv, ScanInv, AdminInv
<1>9. \A e \in Domains : Apart(e, config[e])'
  <2> SUFFICES ASSUME NEW e \in Domains, run[e] # NoRun, run[e].saved, config'[e].next # Never
               PROVE  config'[e].next >= run[e].at + DayLength
    BY <1>5 DEF Apart
  <2>1. CASE config'[e] = config[e]
    BY <2>1 DEF IInv, ApartInv, Apart
  <2>2. CASE config'[e] = c
    <3>1. run[e].at \in Int /\ run[e].at <= clock /\ clock \in Int /\ c.next \in Int
      BY <1>3, Numbers DEF IInv, ApartInv, Runs, TypeOK, Sane, Configs
    <3> QED
      BY <1>3, <2>2, <3>1, Numbers
  <2> QED
    BY <1>4, <2>1, <2>2
<1>10. ApartInv'
  <2>1. (pc \in {"persist", "postpone"} => Apart(current, held))'
    BY <1>5 DEF IInv, ApartInv, Apart
  <2> QED
    BY <1>5, <1>9, <2>1 DEF IInv, ApartInv
<1> QED
  BY <1>5, <1>6, <1>7, <1>8, <1>10 DEF IInv

-----------------------------------------------------------------------------
(* The theorems.                                                           *)

LEMMA NextIInv == ASSUME IInv, [Next]_vars PROVE IInv'
<1>1. CASE Tick BY <1>1, TickStep
<1>2. CASE StartScan BY <1>2, StartScanStep
<1>3. CASE CheckSite BY <1>3, CheckSiteStep
<1>4. CASE EndScan BY <1>4, EndScanStep
<1>5. CASE Postpone BY <1>5, PostponeStep
<1>6. CASE Persist BY <1>6, PersistStep
<1>7. CASE Crawl BY <1>7, CrawlStep
<1>8. CASE \E d \in Domains : PutSettings(d) \/ RunNow(d)
  BY <1>8, PutSettingsStep, RunNowStep
<1>9. CASE BeginSave BY <1>9, BeginSaveStep
<1>10. CASE EndSave BY <1>10, EndSaveStep
<1>11. CASE Restart BY <1>11, RestartStep
<1>12. CASE UNCHANGED vars BY <1>12, StutterStep
<1> QED
  BY <1>1, <1>2, <1>3, <1>4, <1>5, <1>6, <1>7, <1>8, <1>9, <1>10, <1>11, <1>12 DEF Next, Loop

\* The scheduler and the handlers overwrite each other's configs, yet what lies in a
\* file, in the thread's hands or in a request is a config one of them made, whose
\* next run is at least a day after the last run that was written down.
THEOREM Invariant == Spec => []IInv
<1>1. Init => IInv
  BY InitIInv
<1>2. IInv /\ [Next]_vars => IInv'
  BY NextIInv
<1> QED
  BY <1>1, <1>2, PTL DEF Spec

\* The variables stay what the program can hold.
THEOREM TypeCorrect == Spec => []TypeOK
<1>1. IInv => TypeOK
  BY DEF IInv
<1> QED
  BY <1>1, Invariant, PTL

\* Whatever of each other's the scheduler and the handlers overwrite, the next run
\* of a site whose file can be read lies in the window of the settings beside it:
\* _calc_next_run_at and _reschedule_missed_window never leave the window.
THEOREM Allowed == Spec => []NextRunAllowed
<1>1. IInv => NextRunAllowed
  BY DEF IInv, SaneInv, Sane, NextRunAllowed
<1> QED
  BY <1>1, Invariant, PTL

\* Only _persist_timestamps starts a run, for the slot the thread read.
LEMMA RunStep ==
  ASSUME IInv, [Next]_vars, NEW d \in Domains, run'[d] # run[d], run[d] # NoRun, run[d].saved
  PROVE  run'[d].slot >= run[d].at + DayLength
<1> USE DEF files, loop, counts
<1>1. Persist
  <2>1. ~UNCHANGED run
    OBVIOUS
  <2>2. ~\E e \in Domains : PutSettings(e) \/ RunNow(e)
    BY <2>1 DEF PutSettings, RunNow, Request
  <2> QED
    BY <2>1, <2>2 DEF Next, vars, Loop, Tick, StartScan, CheckSite, EndScan, Postpone, Crawl,
       BeginSave, EndSave, Restart
<1> DEFINE new == [number |-> run[current].number + 1, slot |-> held.next, at |-> now,
                   started |-> clock, setting |-> held.setting, saved |-> faults' = faults]
<1>2. pc = "persist" /\ run' = [run EXCEPT ![current] = new]
  BY <1>1 DEF Persist, StartRun
<1>3. current \in Domains /\ held.next \in Nat /\ Apart(current, held)
  BY <1>2, AtSite
<1>4. new.slot = held.next
  OBVIOUS
<1> HIDE DEF new
<1>5. d = current /\ run'[d] = new
  BY <1>2, <1>3 DEF IInv
<1> QED
  BY <1>3, <1>4, <1>5, Numbers DEF Apart

\* "Timestamps first, against double execution": after a run that was written down
\* no other is started for a slot less than a day later, whatever requests, failed
\* writes, restarts and lost updates lie between them.
THEOREM Once == Spec => RunsApart
<1>1. IInv /\ [Next]_vars =>
        [\A d \in Domains :
           run'[d] # run[d] /\ run[d] # NoRun /\ run[d].saved =>
             run'[d].slot >= run[d].at + DayLength]_vars
  BY RunStep
<1> QED
  BY <1>1, Invariant, PTL DEF Spec, RunsApart

-----------------------------------------------------------------------------
(* JobQueue: any number of request threads, sites and jobs, and any times. *)

\* Of a number that was not given out there is nothing.
FreshInv ==
  \A j \in Ids : j > started =>
    /\ site[j] = NoSite
    /\ status[j] = "none"
    /\ thread[j] = "none"
    /\ child[j] = "none"
    /\ notices[j] = 0

\* What a thread has done when it is where it is.
ThreadInv ==
  \A j \in Ids :
    /\ thread[j] = "started" => status[j] = "queued" /\ child[j] = "none" /\ notices[j] = 0
    /\ thread[j] = "launch" => status[j] = "running" /\ child[j] = "none" /\ notices[j] = 0
    /\ thread[j] = "read" => status[j] = "running" /\ notices[j] = 0
    /\ thread[j] = "dead" => status[j] \in Active /\ notices[j] = 0
    /\ thread[j] = "notify" => notices[j] = 0
    /\ thread[j] \in {"notify", "ended"} => status[j] \in Finished /\ child[j] # "running"
    /\ thread[j] = "ended" => notices[j] = 1
    /\ thread[j] = "none" => notices[j] = 0

JobsInv == \A j \in jobs : status[j] # "none" /\ site[j] \in Sites

\* A checked request saw no unfinished job, and none it could see has come since.
CheckInv ==
  \A c \in Clients : client[c].state = "checked" =>
    /\ client[c].seen <= started
    /\ \A j \in OfSite(jobs, client[c].site) : j <= client[c].seen => status[j] \notin Active

\* The jobs newer than an unfinished one that can be found and the requests that
\* may still add one are fewer than the request threads: each thread can overtake
\* it once at most.
Newer(j) == {k \in Ids : site[k] = site[j] /\ k > j}
Pending(s) == {c \in Clients : client[c].state = "checked" /\ client[c].site = s}
Room(j) == Cardinality(Newer(j)) + Cardinality(Pending(site[j])) < Cardinality(Clients)
RoomInv == \A j \in jobs : status[j] \in Active => Room(j)

QueueInv ==
  /\ QueueTypeOK
  /\ FreshInv
  /\ ThreadInv
  /\ JobsInv
  /\ UnfinishedCrowdedOut
  /\ CheckInv
  /\ RoomInv
  /\ DepthIsBetween

-----------------------------------------------------------------------------
(* Counting.                                                               *)

LEMMA SetsOfIds ==
  ASSUME NEW S \in SUBSET Ids
  PROVE  IsFiniteSet(S) /\ Cardinality(S) \in Nat
<1>1. IsFiniteSet(Ids)
  BY QueueAssumption, FS_Interval DEF Ids
<1>2. IsFiniteSet(S)
  BY <1>1, FS_Subset
<1> QED
  BY <1>2, FS_CardinalityType

LEMMA SetsOfClients ==
  ASSUME NEW S \in SUBSET Clients
  PROVE  IsFiniteSet(S) /\ Cardinality(S) \in Nat
BY QueueAssumption, FS_Subset, FS_CardinalityType

\* Of known jobs the gauge counts those that are not finished.
LEMMA DepthOfKnown ==
  ASSUME NEW known \in SUBSET Ids,
         NEW state \in [Ids -> {"none", "queued", "running"} \cup Finished],
         \A j \in known : state[j] # "none"
  PROVE  /\ Unfinished(known, state) = Cardinality({j \in known : state[j] \in Active})
         /\ Unfinished(known, state) \in Nat
<1>1. {j \in known : state[j] \notin Finished} = {j \in known : state[j] \in Active}
  BY DEF Finished, Active
<1>2. Cardinality({j \in known : state[j] \in Active}) \in Nat
  BY SetsOfIds
<1> QED
  BY <1>1, <1>2 DEF Unfinished

\* A part of a set of jobs is no larger.
LEMMA PartOfIds ==
  ASSUME NEW S \in SUBSET Ids, NEW T \in SUBSET S
  PROVE  Cardinality(T) <= Cardinality(S)
BY SetsOfIds, FS_Subset

-----------------------------------------------------------------------------
(* Steps of the queue.                                                     *)

LEMMA InitQueueInv == InitQueue => QueueInv
<1> SUFFICES ASSUME InitQueue PROVE QueueInv
  OBVIOUS
<1>1. {j \in Ids : status[j] \in Active} = {} /\ {j \in jobs : status[j] \in Active} = {}
  BY DEF InitQueue, Active
<1>2. DepthIsBetween
  BY <1>1, FS_EmptySet DEF InitQueue, DepthIsBetween
<1>3. QueueTypeOK
  BY QueueAssumption DEF InitQueue, QueueTypeOK
<1>4. FreshInv /\ ThreadInv /\ JobsInv /\ UnfinishedCrowdedOut /\ CheckInv /\ RoomInv
  BY DEF InitQueue, FreshInv, ThreadInv, JobsInv, UnfinishedCrowdedOut, CheckInv, RoomInv,
         NoRequest, Active, Finished, OfSite
<1> QED
  BY <1>2, <1>3, <1>4 DEF QueueInv

\* A step of a thread makes no job unfinished that was not.
LEMMA StatusStep ==
  ASSUME QueueInv, UNCHANGED <<started, site, stamp, jobs, client>>,
         \A j \in Ids : status'[j] \in Active => status[j] \in Active,
         \A j \in Ids : status[j] = "none" <=> status'[j] = "none"
  PROVE  JobsInv' /\ UnfinishedCrowdedOut' /\ CheckInv' /\ RoomInv'
<1>0. jobs \in SUBSET Ids
  BY DEF QueueInv, QueueTypeOK
<1>1. JobsInv'
  BY <1>0 DEF QueueInv, JobsInv
<1>2. UnfinishedCrowdedOut'
  <2>1. \A j \in Ids : Ahead(j)' = Ahead(j)
    BY DEF Ahead, OfSite
  <2> QED
    BY <2>1 DEF QueueInv, UnfinishedCrowdedOut
<1>3. CheckInv'
  BY <1>0 DEF QueueInv, CheckInv, OfSite
<1>4. RoomInv'
  BY <1>0 DEF QueueInv, RoomInv, Room, Newer, Pending
<1> QED
  BY <1>1, <1>2, <1>3, <1>4

\* A step that sets a status and publishes the gauge.
LEMMA UpdateStep ==
  ASSUME QueueInv, NEW j \in Ids, NEW new \in {"running"} \cup Finished, Update(j, new),
         status[j] \in Active, UNCHANGED <<started, site, stamp, client>>
  PROVE  /\ JobsInv' /\ UnfinishedCrowdedOut' /\ CheckInv' /\ RoomInv' /\ DepthIsBetween'
         /\ depth' \in Nat
         /\ status' \in [Ids -> {"none", "queued", "running"} \cup Finished]
<1>1. status' \in [Ids -> {"none", "queued", "running"} \cup Finished]
  BY DEF QueueInv, QueueTypeOK, Update
<1>2. \A k \in Ids : status'[k] \in Active => status[k] \in Active
  BY DEF QueueInv, QueueTypeOK, Update
<1>3. \A k \in Ids : status[k] = "none" <=> status'[k] = "none"
  BY DEF QueueInv, QueueTypeOK, Update, Finished, Active
<1>4. JobsInv' /\ UnfinishedCrowdedOut' /\ CheckInv' /\ RoomInv'
  BY <1>2, <1>3, StatusStep DEF Update
<1>5. jobs \in SUBSET Ids /\ jobs' = jobs
  BY DEF QueueInv, QueueTypeOK, Update
<1>6. \A k \in jobs : status'[k] # "none"
  BY <1>3, <1>5 DEF QueueInv, JobsInv
<1>7. /\ Unfinished(jobs, status') = Cardinality({k \in jobs : status'[k] \in Active})
      /\ Unfinished(jobs, status') \in Nat
  BY <1>1, <1>5, <1>6, DepthOfKnown
<1>8. Cardinality({k \in jobs : status'[k] \in Active}) <= Cardinality({k \in Ids : status'[k] \in Active})
  BY <1>5, PartOfIds
<1>9. DepthIsBetween' /\ depth' \in Nat
  BY <1>5, <1>7, <1>8 DEF Update, DepthIsBetween
<1> QED
  BY <1>1, <1>4, <1>9

LEMMA RunJobQueueInv ==
  ASSUME QueueInv, NEW j \in Ids, RunJob(j)
  PROVE  QueueInv'
<1> USE DEF At, Finished, Active, counters
<1>1. CASE Begin(j)
  <2>1. status[j] \in Active
    BY <1>1 DEF Begin, QueueInv, ThreadInv, Active
  <2>2. /\ JobsInv' /\ UnfinishedCrowdedOut' /\ CheckInv' /\ RoomInv' /\ DepthIsBetween'
        /\ depth' \in Nat
        /\ status' \in [Ids -> {"none", "queued", "running"} \cup Finished]
    BY <1>1, <2>1, UpdateStep DEF Begin
  <2>3. QueueTypeOK'
    BY <1>1, <2>2 DEF Begin, Update, QueueInv, QueueTypeOK
  <2>4. FreshInv' /\ ThreadInv'
    BY <1>1 DEF Begin, Update, QueueInv, QueueTypeOK, FreshInv, ThreadInv
  <2> QED
    BY <2>2, <2>3, <2>4 DEF QueueInv
<1>2. CASE Launch(j)
  <2>1. JobsInv' /\ UnfinishedCrowdedOut' /\ CheckInv' /\ RoomInv'
    BY <1>2, StatusStep DEF Launch
  <2>2. QueueTypeOK'
    BY <1>2 DEF Launch, QueueInv, QueueTypeOK
  <2>3. FreshInv' /\ ThreadInv' /\ DepthIsBetween'
    BY <1>2 DEF Launch, QueueInv, QueueTypeOK, FreshInv, ThreadInv, DepthIsBetween
  <2> QED
    BY <2>1, <2>2, <2>3 DEF QueueInv
<1>3. CASE LaunchFails(j)
  <2>1. status[j] \in Active
    BY <1>3 DEF LaunchFails, QueueInv, ThreadInv, QueueTypeOK, FreshInv, Active
  <2>2. /\ JobsInv' /\ UnfinishedCrowdedOut' /\ CheckInv' /\ RoomInv' /\ DepthIsBetween'
        /\ depth' \in Nat
        /\ status' \in [Ids -> {"none", "queued", "running"} \cup Finished]
    BY <1>3, <2>1, UpdateStep DEF LaunchFails
  <2>3. QueueTypeOK'
    BY <1>3, <2>2, QueueAssumption DEF LaunchFails, Update, QueueInv, QueueTypeOK
  <2>4. FreshInv' /\ ThreadInv'
    BY <1>3 DEF LaunchFails, Update, QueueInv, QueueTypeOK, FreshInv, ThreadInv
  <2> QED
    BY <2>2, <2>3, <2>4 DEF QueueInv
<1>4. CASE Undecodable(j)
  <2>1. JobsInv' /\ UnfinishedCrowdedOut' /\ CheckInv' /\ RoomInv'
    BY <1>4, StatusStep DEF Undecodable
  <2>2. QueueTypeOK'
    BY <1>4, QueueAssumption DEF Undecodable, QueueInv, QueueTypeOK
  <2>3. FreshInv' /\ ThreadInv' /\ DepthIsBetween'
    BY <1>4 DEF Undecodable, QueueInv, QueueTypeOK, FreshInv, ThreadInv, DepthIsBetween
  <2> QED
    BY <2>1, <2>2, <2>3 DEF QueueInv
<1>5. CASE Finish(j)
  <2>1. status[j] \in Active
    BY <1>5 DEF Finish, QueueInv, ThreadInv, QueueTypeOK, FreshInv, Active
  <2>2. /\ JobsInv' /\ UnfinishedCrowdedOut' /\ CheckInv' /\ RoomInv' /\ DepthIsBetween'
        /\ depth' \in Nat
        /\ status' \in [Ids -> {"none", "queued", "running"} \cup Finished]
    BY <1>5, <2>1, UpdateStep DEF Finish
  <2>3. QueueTypeOK'
    BY <1>5, <2>2 DEF Finish, Update, QueueInv, QueueTypeOK
  <2>4. FreshInv' /\ ThreadInv'
    BY <1>5 DEF Finish, Update, QueueInv, QueueTypeOK, FreshInv, ThreadInv
  <2> QED
    BY <2>2, <2>3, <2>4 DEF QueueInv
<1>6. CASE Notify(j)
  <2>1. JobsInv' /\ UnfinishedCrowdedOut' /\ CheckInv' /\ RoomInv'
    BY <1>6, StatusStep DEF Notify
  <2>2. QueueTypeOK'
    BY <1>6 DEF Notify, QueueInv, QueueTypeOK
  <2>3. FreshInv' /\ ThreadInv' /\ DepthIsBetween'
    BY <1>6 DEF Notify, QueueInv, QueueTypeOK, FreshInv, ThreadInv, DepthIsBetween
  <2> QED
    BY <2>1, <2>2, <2>3 DEF QueueInv
<1> QED
  BY <1>1, <1>2, <1>3, <1>4, <1>5, <1>6 DEF RunJob

LEMMA ChildEndsQueueInv ==
  ASSUME QueueInv, NEW j \in Ids, ChildEnds(j)
  PROVE  QueueInv'
<1>1. JobsInv' /\ UnfinishedCrowdedOut' /\ CheckInv' /\ RoomInv'
  BY StatusStep DEF ChildEnds, memory
<1>2. QueueTypeOK' /\ DepthIsBetween'
  BY DEF ChildEnds, memory, counters, QueueInv, QueueTypeOK, DepthIsBetween
<1>3. FreshInv' /\ ThreadInv'
  BY DEF ChildEnds, memory, counters, QueueInv, QueueTypeOK, FreshInv, ThreadInv
<1> QED
  BY <1>1, <1>2, <1>3 DEF QueueInv

LEMMA RestartQueueInv ==
  ASSUME QueueInv, RestartServer
  PROVE  QueueInv'
<1>1. /\ {j \in Ids : status'[j] \in Active} = {}
      /\ {j \in jobs' : status'[j] \in Active} = {}
  BY DEF RestartServer, Active
<1>2. DepthIsBetween'
  <2>1. /\ Cardinality({j \in Ids : status'[j] \in Active}) = 0
        /\ Cardinality({j \in jobs' : status'[j] \in Active}) = 0
    BY <1>1, FS_EmptySet
  <2>2. depth' = 0
    BY DEF RestartServer
  <2> QED
    BY <2>1, <2>2 DEF DepthIsBetween
<1>3. QueueTypeOK'
  BY QueueAssumption DEF RestartServer, QueueInv, QueueTypeOK
<1>4. FreshInv' /\ ThreadInv' /\ JobsInv' /\ UnfinishedCrowdedOut' /\ CheckInv' /\ RoomInv'
  BY DEF RestartServer, QueueInv, FreshInv, ThreadInv, JobsInv, UnfinishedCrowdedOut, CheckInv,
     RoomInv,
         NoRequest, Active, Finished
<1> QED
  BY <1>2, <1>3, <1>4 DEF QueueInv

\* Of a site a request has checked no job that can be found is unfinished, so it
\* may wait beside any number of others.
LEMMA CheckQueueInv ==
  ASSUME QueueInv, NEW c \in Clients, NEW s \in Sites, Check(c, s)
  PROVE  QueueInv'
<1>0. jobs \in SUBSET Ids /\ jobs' = jobs
  BY DEF Check, memory, QueueInv, QueueTypeOK
<1>1. \A j \in jobs : status[j] \in Active => site[j] # s
  BY DEF Check, OfSite, Active, Finished
<1>2. \A t : t # s => Pending(t)' = Pending(t)
  BY DEF Check, Pending, QueueInv, QueueTypeOK, NoRequest
<1>3. RoomInv'
  <2>1. \A j \in jobs : status'[j] \in Active => Pending(site[j])' = Pending(site[j])
    BY <1>1, <1>2 DEF Check, memory
  <2> QED
    BY <1>0, <2>1 DEF Check, memory, QueueInv, RoomInv, Room, Newer
<1>4. CheckInv'
  BY <1>0, <1>1 DEF Check, memory, QueueInv, QueueTypeOK, CheckInv, OfSite
<1>5. QueueTypeOK'
  BY DEF Check, memory, counters, QueueInv, QueueTypeOK
<1>6. FreshInv' /\ ThreadInv' /\ JobsInv' /\ UnfinishedCrowdedOut' /\ DepthIsBetween'
  BY DEF Check, memory, QueueInv, FreshInv, ThreadInv, JobsInv, UnfinishedCrowdedOut, DepthIsBetween,
     Ahead, OfSite
<1> QED
  BY <1>3, <1>4, <1>5, <1>6 DEF QueueInv

\* A start takes the place of one pending request among those that may overtake
\* an unfinished job, so that the eviction reaches one only with the help of jobs
\* whose times are later than their places.
LEMMA RegisterQueueInv ==
  ASSUME QueueInv, NEW c \in Clients, Register(c)
  PROVE  QueueInv'
<1>j. PICK j \in Ids : j = started + 1
  BY QueueAssumption DEF Register, QueueInv, QueueTypeOK, Ids
<1>s. PICK s \in Sites : s = client[c].site
  BY DEF Register, QueueInv, QueueTypeOK, NoRequest
<1>1. /\ j > started /\ s # NoSite /\ client[c].state = "checked"
      /\ site[j] = NoSite /\ status[j] = "none"
      /\ thread[j] = "none" /\ child[j] = "none" /\ notices[j] = 0
  <2>1. j > started /\ s # NoSite /\ client[c].state = "checked"
    BY <1>j, QueueAssumption DEF Register, QueueInv, QueueTypeOK
  <2> QED
    BY <2>1 DEF QueueInv, FreshInv
<1>2. PICK at \in Seconds :
      /\ started' = j
      /\ site' = [site EXCEPT ![j] = s]
      /\ stamp' = [stamp EXCEPT ![j] = at]
      /\ status' = [status EXCEPT ![j] = "queued"]
      /\ \/ thread' = [thread EXCEPT ![j] = "started"] /\ failures' = failures
         \/ /\ failures < MaxFailures /\ failures' = failures + 1
            /\ thread' = [thread EXCEPT ![j] = "dead"]
      /\ client' = [client EXCEPT ![c] = NoRequest]
      /\ depth' = Unfinished(jobs \cup {j}, status')
      /\ jobs' = Kept(jobs \cup {j}, s, site', stamp')
      /\ UNCHANGED <<child, notices, restarts>>
  BY <1>j, <1>s DEF Register
<1>3. /\ jobs \in SUBSET Ids /\ jobs' \in SUBSET (jobs \cup {j}) /\ jobs \cup {j} \in SUBSET Ids
      /\ \A k \in jobs : k <= started /\ k # j
  <2>1. jobs \in SUBSET Ids /\ jobs' \in SUBSET (jobs \cup {j})
    BY <1>2 DEF QueueInv, QueueTypeOK, Kept
  <2>2. \A k \in jobs : k <= started /\ k # j
    BY <1>1, <2>1 DEF QueueInv, QueueTypeOK, JobsInv, FreshInv, Ids
  <2> QED
    BY <2>1, <2>2
<1>4. /\ site' \in [Ids -> Sites \cup {NoSite}]
      /\ status' \in [Ids -> {"none", "queued", "running"} \cup Finished]
      /\ stamp' \in [Ids -> Seconds \cup {0}]
      /\ site'[j] = s /\ status'[j] = "queued"
      /\ \A k \in Ids : k # j => site'[k] = site[k] /\ status'[k] = status[k] /\ stamp'[k] = stamp[k]
  BY <1>2 DEF QueueInv, QueueTypeOK
<1>5. depth' \in Nat /\ DepthIsBetween'
  <2>1. \A k \in jobs \cup {j} : status'[k] # "none"
    BY <1>3, <1>4 DEF QueueInv, JobsInv
  <2>2. /\ Unfinished(jobs \cup {j}, status') = Cardinality({k \in jobs \cup {j} : status'[k] \in Active})
        /\ Unfinished(jobs \cup {j}, status') \in Nat
    BY <1>3, <1>4, <2>1, DepthOfKnown
  <2>3. /\ Cardinality({k \in jobs' : status'[k] \in Active})
             <= Cardinality({k \in jobs \cup {j} : status'[k] \in Active})
        /\ Cardinality({k \in jobs \cup {j} : status'[k] \in Active})
             <= Cardinality({k \in Ids : status'[k] \in Active})
    BY <1>3, PartOfIds
  <2> QED
    BY <1>2, <2>2, <2>3 DEF DepthIsBetween
<1>6. Cardinality(Clients) \in Nat
  BY SetsOfClients
<1>7. \A k \in jobs \cup {j} : status'[k] \in Active => Room(k)'
  <2>1. \A t \in Sites : Pending(t)' = Pending(t) \ {c}
    BY <1>2 DEF Pending, QueueInv, QueueTypeOK, NoRequest
  <2>2. /\ Cardinality(Pending(s)) \in Nat
        /\ Cardinality(Pending(s)') = Cardinality(Pending(s)) - 1
    <3>1. Pending(s) \in SUBSET Clients /\ c \in Pending(s)
      BY <1>s, <1>1 DEF Pending
    <3>2. IsFiniteSet(Pending(s)) /\ Cardinality(Pending(s)) \in Nat
      BY <3>1, SetsOfClients
    <3>3. Cardinality(Pending(s) \ {c}) = Cardinality(Pending(s)) - 1
      BY <3>1, <3>2, FS_RemoveElement
    <3> QED
      BY <2>1, <3>2, <3>3
  <2>3. \A t \in Sites : t # s => Pending(t)' = Pending(t)
    BY <1>s, <2>1 DEF Pending
  <2> SUFFICES ASSUME NEW k \in jobs \cup {j}, status'[k] \in Active
               PROVE  Cardinality(Newer(k)') + Cardinality(Pending(site[k])')
                        < Cardinality(Clients)
    BY DEF Room
  <2>4. CASE k = j
    <3>1. Newer(k)' = {}
      BY <1>1, <1>2, <1>4, <2>4 DEF Newer, QueueInv, QueueTypeOK, FreshInv, Ids
    <3>2. Cardinality(Pending(s)) <= Cardinality(Clients)
      BY QueueAssumption, FS_Subset DEF Pending
    <3> QED
      BY <1>4, <1>6, <2>2, <2>4, <3>1, <3>2, FS_EmptySet
  <2>5. CASE k # j /\ site[k] = s
    <3>1. Newer(k)' = Newer(k) \cup {j} /\ j \notin Newer(k)
      <4>1. k <= started /\ k \in Ids
        BY <1>3, <2>5
      <4> QED
        BY <4>1, <1>1, <1>4, <2>5 DEF Newer, QueueInv, QueueTypeOK, Ids
    <3>2. IsFiniteSet(Newer(k)) /\ Cardinality(Newer(k)) \in Nat
      BY SetsOfIds DEF Newer
    <3>3. Cardinality(Newer(k) \cup {j}) = Cardinality(Newer(k)) + 1
      BY <3>1, <3>2, FS_AddElement
    <3>4. Cardinality(Newer(k)) + Cardinality(Pending(s)) < Cardinality(Clients)
      BY <1>3, <1>4, <2>5 DEF QueueInv, RoomInv, Room
    <3> QED
      BY <1>3, <1>4, <1>6, <2>2, <2>5, <3>1, <3>2, <3>3, <3>4
  <2>6. CASE k # j /\ site[k] # s
    <3>1. site[k] \in Sites /\ site'[k] = site[k] /\ k \in jobs /\ k \in Ids
      BY <1>3, <1>4, <2>6 DEF QueueInv, JobsInv
    <3>2. Newer(k)' = Newer(k)
      BY <1>1, <1>4, <2>6, <3>1, QueueAssumption DEF Newer
    <3>3. Cardinality(Newer(k)) + Cardinality(Pending(site[k])) < Cardinality(Clients)
      BY <1>4, <2>6, <3>1 DEF QueueInv, RoomInv, Room
    <3> QED
      BY <2>3, <2>6, <3>1, <3>2, <3>3
  <2> QED
    BY <2>4, <2>5, <2>6
<1>8. UnfinishedCrowdedOut'
  <2> SUFFICES ASSUME NEW k \in Ids, status'[k] \in Active, k \notin jobs'
               PROVE  Cardinality(Clients) + Cardinality(Ahead(k)') >= MaxJobs
    BY DEF UnfinishedCrowdedOut
  <2>1. CASE k \in jobs \cup {j}
    <3> DEFINE front == {m \in jobs \cup {j} : site'[m] = s /\ Behind(stamp', k, m)}
    <3>1. site'[k] = s /\ ~(Cardinality(front) < MaxJobs - 1)
      BY <1>2, <2>1 DEF Kept
    <3>2. front \subseteq Newer(k)' \cup Ahead(k)'
      <4> SUFFICES ASSUME NEW m \in front PROVE m \in Newer(k)' \/ m \in Ahead(k)'
        OBVIOUS
      <4>1. m \in Ids /\ site'[m] = site'[k] /\ Behind(stamp', k, m) /\ status'[m] # "none"
        BY <1>3, <1>4, <3>1 DEF QueueInv, JobsInv
      <4>2. stamp'[m] \in Nat /\ stamp'[k] \in Nat
        BY <1>4, <4>1, QueueAssumption
      <4>3. CASE m > k
        BY <4>1, <4>3 DEF Newer
      <4>4. CASE m < k
        BY <4>1, <4>2, <4>4 DEF Behind, Ahead, OfSite, Ids
      <4>5. m # k
        BY <4>1, <4>2 DEF Behind, Ids
      <4> QED
        BY <4>1, <4>3, <4>4, <4>5 DEF Ids
    <3>3. /\ IsFiniteSet(Newer(k)') /\ Cardinality(Newer(k)') \in Nat
          /\ IsFiniteSet(Ahead(k)') /\ Cardinality(Ahead(k)') \in Nat
      BY SetsOfIds DEF Newer, Ahead, OfSite
    <3>4. /\ IsFiniteSet(Newer(k)' \cup Ahead(k)')
          /\ Cardinality(Newer(k)' \cup Ahead(k)') <= Cardinality(Newer(k)') + Cardinality(Ahead(k)')
          /\ Cardinality(Newer(k)' \cup Ahead(k)') \in Nat
      <4>1. Newer(k)' \cap Ahead(k)' = {}
        BY DEF Newer, Ahead, OfSite, Ids
      <4>2. Cardinality(Newer(k)' \cap Ahead(k)') = 0
        BY <4>1, FS_EmptySet
      <4>3. /\ IsFiniteSet(Newer(k)' \cup Ahead(k)')
            /\ Cardinality(Newer(k)' \cup Ahead(k)')
                 = Cardinality(Newer(k)') + Cardinality(Ahead(k)') - Cardinality(Newer(k)' \cap Ahead(k)')
        BY <3>3, FS_Union
      <4> QED
        BY <3>3, <4>2, <4>3
    <3>5. Cardinality(front) <= Cardinality(Newer(k)') + Cardinality(Ahead(k)') /\ Cardinality(front) \in Nat
      BY <3>2, <3>3, <3>4, FS_Subset, FS_CardinalityType
    <3>6. Cardinality(Newer(k)') + Cardinality(Pending(s)') < Cardinality(Clients)
      BY <1>7, <2>1, <3>1 DEF Room
    <3>7. Cardinality(Pending(s)') \in Nat
      BY <1>2, SetsOfClients DEF Pending
    <3> HIDE DEF front
    <3> QED
      BY <1>6, <3>1, <3>3, <3>5, <3>6, <3>7, QueueAssumption
  <2>2. CASE k \notin jobs \cup {j}
    <3>1. k < j
      BY <1>1, <1>4, <1>j, <2>2 DEF QueueInv, QueueTypeOK, FreshInv, Ids, Active
    <3>2. Ahead(k)' = Ahead(k)
      BY <1>4, <2>2, <3>1 DEF Ahead, OfSite, Ids
    <3> QED
      BY <1>4, <2>2, <3>2 DEF QueueInv, UnfinishedCrowdedOut
  <2> QED
    BY <2>1, <2>2
<1>9. QueueTypeOK'
  <2>1. started' \in 0..MaxStarts /\ jobs' \subseteq Ids
    <3>1. j \in 0..MaxStarts
      BY QueueAssumption DEF Ids
    <3> QED
      BY <1>2, <1>3, <3>1
  <2>2. /\ thread' \in [Ids -> {"none", "started", "launch", "read", "notify", "ended", "dead"}]
        /\ client' \in [Clients -> {NoRequest} \cup
                           [state : {"checked"}, site : Sites, seen : 0..MaxStarts]]
        /\ failures' \in 0..MaxFailures
    BY <1>2, QueueAssumption DEF QueueInv, QueueTypeOK
  <2> QED
    BY <1>2, <1>4, <1>5, <2>1, <2>2 DEF QueueInv, QueueTypeOK
<1>10. FreshInv' /\ ThreadInv'
  <2>1. /\ thread'[j] \in {"started", "dead"}
        /\ \A k \in Ids : k # j => thread'[k] = thread[k]
    BY <1>2 DEF QueueInv, QueueTypeOK
  <2>2. FreshInv'
    <3> SUFFICES ASSUME NEW k \in Ids, k > started'
                 PROVE  /\ site'[k] = NoSite /\ status'[k] = "none" /\ thread'[k] = "none"
                        /\ child'[k] = "none" /\ notices'[k] = 0
      BY DEF FreshInv
    <3>1. k # j /\ k > started
      BY <1>j, <1>2 DEF QueueInv, QueueTypeOK, Ids
    <3> QED
      BY <1>2, <1>4, <2>1, <3>1 DEF QueueInv, FreshInv
  <2>3. ThreadInv'
    BY <1>1, <1>2, <1>4, <2>1 DEF QueueInv, ThreadInv, Finished, Active
  <2> QED
    BY <2>2, <2>3
<1>11. JobsInv' /\ RoomInv'
  <2>1. \A k \in jobs' : k = j \/ (k \in jobs /\ site'[k] = site[k] /\ status'[k] = status[k])
    BY <1>3, <1>4
  <2>2. JobsInv'
    BY <1>4, <2>1 DEF QueueInv, JobsInv
  <2>3. RoomInv'
    BY <1>3, <1>7 DEF RoomInv
  <2> QED
    BY <2>2, <2>3
<1>12. CheckInv'
  <2> SUFFICES ASSUME NEW d \in Clients, client'[d].state = "checked"
               PROVE  /\ client'[d].seen <= started'
                      /\ \A k \in jobs' : site'[k] = client'[d].site /\ k <= client'[d].seen
                                          => status'[k] \notin Active
    BY DEF CheckInv, OfSite
  <2>1. d # c /\ client'[d] = client[d]
    BY <1>2 DEF QueueInv, QueueTypeOK, NoRequest
  <2>2. client[d].seen <= started /\ client[d].seen \in Nat /\ started \in Nat
    BY <2>1 DEF QueueInv, QueueTypeOK, CheckInv, NoRequest
  <2>3. \A k \in jobs' : k <= client[d].seen => k \in jobs /\ k # j
    BY <1>j, <1>3, <2>2
  <2>4. \A k \in jobs : site[k] = client[d].site /\ k <= client[d].seen => status[k] \notin Active
    BY <2>1 DEF QueueInv, CheckInv, OfSite
  <2>5. \A k \in jobs : site'[k] = site[k] /\ status'[k] = status[k]
    BY <1>3, <1>4
  <2>6. client'[d].seen <= started'
    BY <1>j, <1>2, <2>1, <2>2
  <2>7. \A k \in jobs' : site'[k] = client'[d].site /\ k <= client'[d].seen => status'[k] \notin Active
    BY <2>1, <2>3, <2>4, <2>5
  <2> QED
    BY <2>6, <2>7
<1> QED
  BY <1>5, <1>8, <1>9, <1>10, <1>11, <1>12 DEF QueueInv

-----------------------------------------------------------------------------
(* The theorems.                                                           *)

LEMMA NextQueueInv == ASSUME QueueInv, NextQueue PROVE QueueInv'
BY RunJobQueueInv, ChildEndsQueueInv, RestartQueueInv, CheckQueueInv, RegisterQueueInv DEF NextQueue

LEMMA StutterQueueInv == ASSUME QueueInv, UNCHANGED queue PROVE QueueInv'
BY DEF queue, memory, counters, QueueInv, QueueTypeOK, FreshInv, ThreadInv, JobsInv,
   UnfinishedCrowdedOut, Ahead, CheckInv, RoomInv, Room, DepthIsBetween, OfSite, Newer, Pending

LEMMA QueueInvariance == QueueSpec => []QueueInv
<1>1. QueueInv /\ [NextQueue]_queue => QueueInv'
  BY NextQueueInv, StutterQueueInv
<1> QED
  BY InitQueueInv, <1>1, PTL DEF QueueSpec

\* The jobs, their threads and the requests keep their types.
THEOREM QueueTypeCorrect == QueueSpec => []QueueTypeOK
<1>1. QueueInv => QueueTypeOK
  BY DEF QueueInv
<1> QED
  BY <1>1, QueueInvariance, PTL

\* For any number of request threads and any times of the wall clock, an unfinished
\* job is evicted only when the threads and the earlier jobs with later times fill
\* the places kept for the site (_evict_old_jobs).
THEOREM EvictionBound == QueueSpec => []UnfinishedCrowdedOut
<1>1. QueueInv => UnfinishedCrowdedOut
  BY DEF QueueInv
<1> QED
  BY <1>1, QueueInvariance, PTL

\* The gauge, set before the eviction (start_crawl_job), counts every unfinished
\* job that can be found and none that is finished.
THEOREM DepthCounts == QueueSpec => []DepthIsBetween
<1>1. QueueInv => DepthIsBetween
  BY DEF QueueInv
<1> QED
  BY <1>1, QueueInvariance, PTL

\* Overtaken or not, requests never bring more unfinished jobs of one site beside
\* each other than there are request threads, as far as they can be found.
THEOREM AsManyAsThreads == QueueSpec => []SideBySide
<1>1. QueueInv => SideBySide
  <2> SUFFICES ASSUME QueueInv, NEW s \in Sites
               PROVE  Cardinality({j \in OfSite(jobs, s) : status[j] \in Active}) + Cardinality(Pending(s))
                        <= Cardinality(Clients)
    BY DEF SideBySide, Pending
  <2> DEFINE U == {j \in OfSite(jobs, s) : status[j] \in Active}
  <2>1. U \in SUBSET Ids
    BY DEF QueueInv, QueueTypeOK, OfSite
  <2>2. Cardinality(Clients) \in Nat /\ Cardinality(Pending(s)) \in Nat
    BY SetsOfClients DEF Pending
  <2>3. ASSUME U = {} PROVE Cardinality(U) + Cardinality(Pending(s)) <= Cardinality(Clients)
    <3>1. Cardinality(Pending(s)) <= Cardinality(Clients)
      BY QueueAssumption, FS_Subset DEF Pending
    <3>2. Cardinality(U) = 0
      BY <2>3, FS_EmptySet
    <3> HIDE DEF U
    <3> QED
      BY <2>2, <3>1, <3>2
  <2>4. ASSUME U # {} PROVE Cardinality(U) + Cardinality(Pending(s)) <= Cardinality(Clients)
    <3>1. U \subseteq Nat
      BY <2>1 DEF Ids
    <3>2. PICK o \in U : \A k \in U : o <= k
      BY <2>4, <3>1, LeastNumber
    <3>3. U \ {o} \subseteq Newer(o)
      BY <2>1, <3>2 DEF Newer, OfSite, Ids
    <3>4. Newer(o) \in SUBSET Ids
      BY DEF Newer
    <3>5. Cardinality(U \ {o}) <= Cardinality(Newer(o))
      BY <3>3, <3>4, PartOfIds
    <3>6. IsFiniteSet(U) /\ Cardinality(U) \in Nat /\ Cardinality(Newer(o)) \in Nat
      BY <2>1, <3>4, SetsOfIds
    <3>7. Cardinality(U \ {o}) = Cardinality(U) - 1
      BY <3>2, <3>6, FS_RemoveElement
    <3>8. Cardinality(Newer(o)) + Cardinality(Pending(s)) < Cardinality(Clients)
      BY <3>2 DEF QueueInv, RoomInv, Room, OfSite
    <3> HIDE DEF U
    <3> QED
      BY <2>2, <3>5, <3>6, <3>7, <3>8
  <2>5. Cardinality(U) + Cardinality(Pending(s)) <= Cardinality(Clients)
    BY <2>3, <2>4
  <2> QED
    BY <2>5
<1> QED
  BY <1>1, QueueInvariance, PTL

\* on_done is called once for a job, after its process has ended (_run_job).
THEOREM OneNotice == QueueSpec => []NoticeOnceAtTheEnd
<1>1. QueueInv => NoticeOnceAtTheEnd
  BY DEF QueueInv, QueueTypeOK, ThreadInv, NoticeOnceAtTheEnd
<1> QED
  BY <1>1, QueueInvariance, PTL

\* Between active_job_for_domain and start_crawl_job a request can be overtaken;
\* an unfinished job it starts another one beside was registered in between, or
\* could not be found any more.
THEOREM OvertakenOnly == QueueSpec => OverlapIsOvertaking
<1>1. QueueInv /\ [NextQueue]_queue =>
        [\A c \in Clients :
           client[c].state = "checked" /\ started' = started + 1 /\ client'[c] = NoRequest
           => \A j \in OfSite(Ids, client[c].site) :
                status[j] \in Active => j > client[c].seen \/ j \notin jobs]_queue
  <2> SUFFICES ASSUME QueueInv, NEW c \in Clients, client[c].state = "checked",
                      NEW j \in OfSite(Ids, client[c].site), status[j] \in Active, j \in jobs
               PROVE  j > client[c].seen
    OBVIOUS
  <2>1. client[c].seen \in Nat /\ j \in Nat
    BY DEF QueueInv, QueueTypeOK, OfSite, Ids, NoRequest
  <2> QED
    BY <2>1 DEF QueueInv, CheckInv, OfSite
<1> QED
  BY <1>1, QueueInvariance, PTL DEF QueueSpec, OverlapIsOvertaking
=============================================================================
