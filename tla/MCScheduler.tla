---------------------------- MODULE MCScheduler ----------------------------
(***************************************************************************)
(* Small schedules for Scheduler: a day of three units, a week of two days.*)
(***************************************************************************)
EXTENDS Scheduler

\* A window that runs past midnight, and a schedule for every second day.
Overnight == [interval |-> 1, weekdays |-> {}, start |-> 2, end |-> 1, site |-> TRUE]
EverySecondDay == [interval |-> 1, weekdays |-> {1}, start |-> 0, end |-> 0, site |-> TRUE]

MixedSettings == {Overnight, EverySecondDay}
=============================================================================
