----------------------------- MODULE Scheduler -----------------------------
(***************************************************************************)
(* Scheduled crawls (web/services/scheduler.py): one thread that scans the *)
(* schedule.json of every site and crawls those that are due one after the *)
(* other, and the handlers of web/routes/schedule.py that write the same   *)
(* files.                                                                  *)
(***************************************************************************)
EXTENDS ExecutionWindow

CONSTANTS
  Domains,
  Settings,           \* the settings an administrator chooses from
  Retries,            \* retry_max
  PostponeLimit,      \* intervals skipped at most (370)
  MaxClock,           \* bounds: time,
  MaxRequests,        \* requests of administrators,
  MaxFaults,          \* failed writes of the scheduler,
  MaxCrashes          \* restarts of the server

ASSUME SchedulerAssumption ==
  /\ Settings \subseteq Setting
  /\ Retries \in Nat
  /\ PostponeLimit \in Nat \ {0}
  /\ MaxClock \in Nat /\ MaxRequests \in Nat /\ MaxFaults \in Nat /\ MaxCrashes \in Nat

Time == 0..MaxClock
NoSetting == [interval |-> 0, weekdays |-> {}, start |-> 0, end |-> 0, site |-> FALSE]
Configs == [setting : Settings \cup {NoSetting}, last : Int, next : Int]
Default == [setting |-> NoSetting, last |-> Never, next |-> Never]
Nowhere == "no site"

VARIABLES
  clock,
  config,         \* each site's schedule.json
  torn,           \* the sites whose schedule.json is half written
  pc,             \* where the scheduler's thread is
  now,            \* the time it read at the start of its scan
  todo,           \* sites it has not come to in this scan
  current,        \* the site it is at
  held,           \* the config it read
  attempts,       \* crawls tried for it
  admin,          \* a request: idle, or about to write, or writing a config
  requests, faults, crashes,
  run             \* for checking: of each site, the last scheduled run

files == <<config, torn>>
loop == <<pc, now, todo, current, held, attempts>>
counts == <<requests, faults, crashes>>
vars == <<clock, files, loop, admin, counts, run>>

Idle == [state |-> "idle"]
NoRun == [number |-> 0]

Init ==
  /\ clock = 0
  /\ \E setting \in [Domains -> Settings] :
       config = [d \in Domains |->
                   [setting |-> setting[d], last |-> Never, next |-> NextRun(setting[d], 0)]]
  /\ torn = {}
  /\ pc = "sleep"
  /\ now = 0
  /\ todo = {}
  /\ current = Nowhere
  /\ held = Default
  /\ attempts = 0
  /\ admin = Idle
  /\ requests = 0 /\ faults = 0 /\ crashes = 0
  /\ run = [d \in Domains |-> NoRun]

\* Time passes between scans and while a crawl or its back-off takes time; the
\* rest takes none.
Tick ==
  /\ clock < MaxClock
  /\ pc \in {"sleep", "crawl"}
  /\ admin = Idle
  /\ clock' = clock + 1
  /\ UNCHANGED <<files, loop, admin, counts, run>>

-----------------------------------------------------------------------------
(* The scheduler's thread.                                                 *)

\* _check_and_run_due reads the clock once.
StartScan ==
  /\ pc = "sleep"
  /\ now' = clock
  /\ todo' = Domains
  /\ pc' = "scan"
  /\ UNCHANGED <<clock, files, current, held, attempts, admin, counts, run>>

Due(c, t) == c.setting.interval # 0 /\ c.next # Never /\ c.next <= t

\* _maybe_run up to its decision: not readable, disabled, not due, outside the
\* window, without an address, or a run.
CheckSite == \E d \in todo :
  /\ pc = "scan"
  /\ todo' = todo \ {d}
  /\ IF d \in torn \/ ~Due(config[d], now)
     THEN UNCHANGED <<pc, current, held>>
     ELSE IF IsAllowed(config[d].setting, now) /\ ~config[d].setting.site
     THEN UNCHANGED <<pc, current, held>>
     ELSE /\ current' = d
          /\ held' = config[d]
          /\ pc' = IF IsAllowed(config[d].setting, now) THEN "persist" ELSE "postpone"
  /\ UNCHANGED <<clock, files, now, attempts, admin, counts, run>>

EndScan ==
  /\ pc = "scan"
  /\ todo = {}
  /\ pc' = "sleep"
  /\ now' = 0
  /\ UNCHANGED <<clock, files, todo, current, held, attempts, admin, counts, run>>

\* _write_schedule_config puts a whole new file in the place of the old one, or
\* fails and says nothing.
Replace(c) ==
  \/ /\ config' = [config EXCEPT ![current] = c]
     /\ torn' = torn \ {current}
     /\ UNCHANGED counts
  \/ /\ faults < MaxFaults
     /\ faults' = faults + 1
     /\ UNCHANGED <<files, requests, crashes>>

NextSite ==
  /\ pc' = "scan" /\ current' = Nowhere /\ held' = Default /\ attempts' = 0

\* A window that was missed and left for the next scan.
Postpone_Forgotten ==
  /\ pc = "postpone"
  /\ NextSite
  /\ UNCHANGED <<clock, files, now, todo, admin, counts, run>>

\* _reschedule_missed_window.
Postpone ==
  /\ pc = "postpone"
  /\ Replace([held EXCEPT !.next = Postponed(held.setting, held.next, now, PostponeLimit)])
  /\ NextSite
  /\ UNCHANGED <<clock, now, todo, admin, run>>

\* The run is written down with the slot it is for and whether that succeeded.
StartRun(saved) ==
  run' = [run EXCEPT ![current] =
            [number |-> @.number + 1, slot |-> held.next, at |-> now, started |-> clock,
             setting |-> held.setting, saved |-> saved]]

\* A run that leaves its slot in place.
Persist_KeepsNext ==
  /\ pc = "persist"
  /\ Replace([held EXCEPT !.last = now])
  /\ StartRun(faults' = faults)
  /\ pc' = "crawl"
  /\ UNCHANGED <<clock, now, todo, current, held, attempts, admin>>

\* _persist_timestamps, and the crawl begins.
Persist ==
  /\ pc = "persist"
  /\ Replace([held EXCEPT !.last = now, !.next = NextRun(held.setting, now)])
  /\ StartRun(faults' = faults)
  /\ pc' = "crawl"
  /\ UNCHANGED <<clock, now, todo, current, held, attempts, admin>>


\* The crawl ends, well or badly; after the last attempt history and notification.
Crawl ==
  /\ pc = "crawl"
  /\ \/ NextSite
     \/ attempts < Retries /\ attempts' = attempts + 1 /\ UNCHANGED <<pc, current, held>>
  /\ UNCHANGED <<clock, files, now, todo, admin, counts, run>>

Loop == StartScan \/ CheckSite \/ EndScan \/ Postpone \/ Persist \/ Crawl

-----------------------------------------------------------------------------
(* The handlers.                                                           *)

\* _load_config: what cannot be read counts as not there.
Loaded(d) == IF d \in torn THEN Default ELSE config[d]

Request(d, c) ==
  /\ admin = Idle
  /\ requests < MaxRequests
  /\ requests' = requests + 1
  /\ admin' = [state |-> "ready", domain |-> d, config |-> c]
  /\ UNCHANGED <<clock, files, loop, faults, crashes, run>>

\* A change that leaves the old time of the next run in place.
PutSettings_KeepsNext(d) == \E s \in Settings :
  Request(d, [Loaded(d) EXCEPT !.setting = s])

\* api_schedule_config_post.
PutSettings(d) == \E s \in Settings :
  Request(d, [Loaded(d) EXCEPT !.setting = s, !.next = NextRun(s, clock)])

\* api_schedule_run_now.
RunNow(d) ==
  Request(d, [Loaded(d) EXCEPT !.last = clock, !.next = NextRun(Loaded(d).setting, clock)])

\* _save_config writes in place: for a moment the file is empty.
BeginSave ==
  /\ admin.state = "ready"
  /\ admin' = [admin EXCEPT !.state = "writing"]
  /\ torn' = torn \cup {admin.domain}
  /\ UNCHANGED <<clock, config, loop, counts, run>>

\* If the scheduler replaced the file meanwhile, the rest goes to the old one.
EndSave ==
  /\ admin.state = "writing"
  /\ admin' = Idle
  /\ IF admin.domain \in torn
     THEN config' = [config EXCEPT ![admin.domain] = admin.config] /\ torn' = torn \ {admin.domain}
     ELSE UNCHANGED files
  /\ UNCHANGED <<clock, loop, counts, run>>

\* The server stops and is started again: files stay as they are.
Restart ==
  /\ crashes < MaxCrashes
  /\ crashes' = crashes + 1
  /\ pc' = "sleep"
  /\ admin' = Idle
  /\ now' = 0
  /\ todo' = {}
  /\ current' = Nowhere
  /\ held' = Default
  /\ attempts' = 0
  /\ UNCHANGED <<clock, files, requests, faults, run>>

Next ==
  \/ Tick
  \/ Loop
  \/ \E d \in Domains : PutSettings(d) \/ RunNow(d)
  \/ BeginSave \/ EndSave
  \/ Restart

Spec == Init /\ [][Next]_vars

\* The thread is never stopped while the server runs, its crawls end (at the
\* latest after ten minutes), and a request is handled to its end.
FairSpec == Spec /\ WF_vars(Loop) /\ WF_vars(BeginSave) /\ WF_vars(EndSave)

-----------------------------------------------------------------------------
TypeOK ==
  /\ clock \in Time
  /\ config \in [Domains -> Configs]
  /\ torn \subseteq Domains
  /\ pc \in {"sleep", "scan", "postpone", "persist", "crawl"}
  /\ now \in Time
  /\ todo \subseteq Domains
  /\ current \in Domains \cup {Nowhere}
  /\ held \in Configs
  /\ attempts \in 0..Retries
  /\ \/ admin = Idle
     \/ admin \in [state : {"ready", "writing"}, domain : Domains, config : Configs]
  /\ requests \in 0..MaxRequests
  /\ faults \in 0..MaxFaults
  /\ crashes \in 0..MaxCrashes

\* Whatever the scheduler and the handlers overwrite of each other's, the next
\* run of a site that can be read lies in the window of the settings beside it.
NextRunAllowed ==
  \A d \in Domains \ torn : config[d].next # Never => InWindow(config[d].setting, config[d].next)

\* "Timestamps first, against double execution": after a run that was written
\* down no other is started for a slot less than a day later, through requests,
\* restarts and lost updates.
RunsApart ==
  [][\A d \in Domains :
       run'[d] # run[d] /\ run[d] # NoRun /\ run[d].saved =>
         run'[d].slot >= run[d].at + DayLength]_vars

\* No site is forgotten behind the others: one that is due with an address is run
\* or given a later time.
DueIsHandled ==
  \A d \in Domains :
    LET waits == d \notin torn /\ config[d].setting.site /\ Due(config[d], clock)
    IN  waits ~> ~waits

=============================================================================
