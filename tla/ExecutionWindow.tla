--------------------------- MODULE ExecutionWindow ---------------------------
(***************************************************************************)
(* When a scheduled crawl may run: _calc_next_run_at and                   *)
(* _next_allowed_datetime of web/services/scheduler.py.  Time is a number  *)
(* of units (minutes in the code) on the wall clock of one zone, without   *)
(* changes of daylight saving.                                             *)
(***************************************************************************)
EXTENDS Integers

CONSTANTS
  DayLength,      \* units in a day
  WeekLength      \* days in a week (7)

ASSUME WindowAssumption == DayLength \in Nat \ {0} /\ WeekLength \in Nat \ {0}

\* What an administrator sets: days between runs (0: disabled), the weekdays
\* wanted, the window of a day (none if it starts when it ends), and whether
\* there is an address to crawl.
Setting ==
  [interval : Nat, weekdays : SUBSET (0..WeekLength - 1),
   start : 0..DayLength - 1, end : 0..DayLength - 1, site : BOOLEAN]

Never == -1

Day(t) == t \div DayLength
DayAllowed(s, day) == s.weekdays = {} \/ day % WeekLength \in s.weekdays
HasWindow(s) == s.start # s.end

\* The window that opens on a day; one that ends before it starts runs overnight.
Opens(s, day) == day * DayLength + s.start
Closes(s, day) == day * DayLength + s.end + (IF s.end <= s.start THEN DayLength ELSE 0)

Least(S) == CHOOSE x \in S : \A y \in S : x <= y

\* _next_allowed_datetime.  Of a window, the first moment from t on; without one,
\* t itself or the same time of the next day allowed.
NextAllowed(s, t) ==
  IF HasWindow(s)
  THEN Least({IF t < Opens(s, day) THEN Opens(s, day) ELSE t :
                day \in {d \in Day(t) - 1..Day(t) + 2 * WeekLength - 1 :
                           DayAllowed(s, d) /\ t < Closes(s, d)}})
  ELSE Least({u \in {t + days * DayLength : days \in 0..WeekLength} : DayAllowed(s, Day(u))})

\* _is_allowed_execution_time.
IsAllowed(s, t) == NextAllowed(s, t) = t

\* _calc_next_run_at.
NextRun(s, base) ==
  IF s.interval = 0 THEN Never ELSE NextAllowed(s, base + s.interval * DayLength)

\* _reschedule_missed_window: interval after interval until one lies ahead.
Postponed(s, slot, now, limit) ==
  LET slots[k \in 0..limit] == IF k = 0 THEN slot ELSE NextRun(s, slots[k - 1])
      Stops(k) == slots[k] > now \/ k = limit
  IN  slots[CHOOSE k \in 1..limit : Stops(k) /\ \A j \in 1..k - 1 : ~Stops(j)]

-----------------------------------------------------------------------------
\* What a window means, without the search: some window holds t, or without one
\* the day is allowed.
InWindow(s, t) ==
  IF HasWindow(s)
  THEN \E day \in {Day(t) - 1, Day(t)} :
         DayAllowed(s, day) /\ Opens(s, day) <= t /\ t < Closes(s, day)
  ELSE DayAllowed(s, Day(t))
=============================================================================
