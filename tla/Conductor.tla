----------------------------- MODULE Conductor -----------------------------
(***************************************************************************)
(* The conductor of one site (web/services/orchestration/conductor.py): it *)
(* takes a goal's steps one by one, waits for each step's work at most two *)
(* hours, and asks the work to stop when it gives up on it.  The work of a *)
(* step belongs to an agent (orchestration/agents): a test run is a child  *)
(* process, a repair run is a thread of the server.                        *)
(***************************************************************************)
EXTENDS FiniteSets, Integers

CONSTANTS
  Callers,        \* the daily watch and the requests that start a run
  Plan,           \* the agent of each step: "run" or "healing" (goals.py)
  MaxRuns,        \* bounds: runs started,
  MaxCancels,     \* cancellations asked for,
  MaxFaults,      \* exceptions, and states of work that cannot be read,
  MaxCrashes      \* ends of the server

Steps == DOMAIN Plan
Last == Cardinality(Steps)

ASSUME ConductorAssumption ==
  /\ Last \in Nat \ {0} /\ Steps = 1..Last
  /\ \A i \in Steps : Plan[i] \in {"run", "healing"}
  /\ MaxRuns \in Nat /\ MaxCancels \in Nat /\ MaxFaults \in Nat /\ MaxCrashes \in Nat

Runs == 1..MaxRuns
Terminal == {"succeeded", "failed", "skipped", "waiting_human", "cancelled"}
Unfinished == {"queued", "running"}
Stillborn == {"unsaved", "unstarted"}  \* a run in memory whose start failed

VARIABLES
  started,      \* runs started so far
  status,       \* each run's status, "none" before it is started
  step,         \* step_index
  record,       \* the status of each step of each run
  human,        \* runs that ask for a human (run.human_action)
  known,        \* _RUNS: the runs in memory
  loop,         \* where each run's thread is, or that it never came to be
  pending,      \* runs whose thread carries a human's turn over the rounds
  event,        \* runs whose cancel event is set
  handle,       \* runs whose current step has a handle
  work,         \* each step's work: "none", "running" or "over"
  told,         \* steps whose work was asked to stop
  blind,        \* runs that lost sight of their work: an exception or no state
  caller,       \* each caller of start_if_idle
  cancels, faults, crashes

memory == <<status, step, record, human, known>>
thread == <<loop, pending, event, handle>>
steps == <<work, told, blind>>
counts == <<cancels, faults, crashes>>
vars == <<started, memory, thread, steps, caller, counts>>

Init ==
  /\ started = 0
  /\ status = [r \in Runs |-> "none"]
  /\ step = [r \in Runs |-> 1]
  /\ record = [r \in Runs |-> [i \in Steps |-> "queued"]]
  /\ human = {} /\ known = {}
  /\ loop = [r \in Runs |-> "none"]
  /\ pending = {} /\ event = {} /\ handle = {}
  /\ work = [r \in Runs |-> [i \in Steps |-> "none"]]
  /\ told = {} /\ blind = {}
  /\ caller = [c \in Callers |-> "idle"]
  /\ cancels = 0 /\ faults = 0 /\ crashes = 0

-----------------------------------------------------------------------------
(* Starting a run.                                                         *)

\* reap_orphans: an unfinished run that is not in memory has failed.
Reaped == [r \in Runs |-> IF status[r] \in Unfinished /\ r \notin known THEN "failed" ELSE status[r]]

\* A caller that does not wait for the lock.
Look_Unlocked(c) ==
  /\ caller[c] = "idle"
  /\ status' = Reaped
  /\ started < MaxRuns
  /\ \A r \in Runs : Reaped[r] \notin Unfinished
  /\ caller' = [caller EXCEPT ![c] = "starting"]
  /\ UNCHANGED <<started, step, record, human, known, thread, steps, counts>>

\* start_if_idle under _START_LOCK: orphans are reaped, then an unfinished run is looked for.
Look(c) ==
  /\ caller[c] = "idle"
  /\ \A b \in Callers : caller[b] = "idle"
  /\ status' = Reaped
  /\ caller' = IF started < MaxRuns /\ \A r \in Runs : Reaped[r] \notin Unfinished
               THEN [caller EXCEPT ![c] = "starting"] ELSE caller
  /\ UNCHANGED <<started, step, record, human, known, thread, steps, counts>>

Start(c) ==
  LET r == started + 1 IN
  /\ caller[c] = "starting" /\ started < MaxRuns
  /\ started' = r
  /\ status' = [status EXCEPT ![r] = "queued"]
  /\ known' = known \cup {r}
  /\ loop' = [loop EXCEPT ![r] = "queued"]
  /\ caller' = [caller EXCEPT ![c] = "idle"]
  /\ UNCHANGED <<step, record, human, pending, event, handle, steps, counts>>

\* The run is put into _RUNS before its file is written and its thread is started, and
\* either may fail: no thread takes the run up, and reap_orphans leaves it alone.
StartFails(c) ==
  LET r == started + 1 IN
  /\ caller[c] = "starting" /\ started < MaxRuns /\ faults < MaxFaults
  /\ faults' = faults + 1
  /\ started' = r
  /\ status' = [status EXCEPT ![r] = "queued"]
  /\ known' = known \cup {r}
  /\ \E place \in Stillborn : loop' = [loop EXCEPT ![r] = place]
  /\ caller' = [caller EXCEPT ![c] = "idle"]
  /\ UNCHANGED <<step, record, human, pending, event, handle, steps, cancels, crashes>>

-----------------------------------------------------------------------------
(* The end of a step and of a run.                                         *)

\* _finish: an ask for a human is never taken back.
Finish(r, new, asks) ==
  /\ status' = [status EXCEPT ![r] = new]
  /\ human' = IF asks THEN human \cup {r} ELSE human
  /\ loop' = [loop EXCEPT ![r] = "finally"]
  /\ UNCHANGED <<step, pending, handle>>

\* _skip_remaining: the steps after this one that are still queued.
Skipped(r, recs) ==
  [i \in Steps |-> IF i > step[r] /\ recs[i] = "queued" THEN "skipped" ELSE recs[i]]

Proceed(r) ==
  /\ loop' = [loop EXCEPT ![r] = "top"]
  /\ step' = [step EXCEPT ![r] = @ + 1]
  /\ handle' = handle \ {r}
  /\ UNCHANGED <<status, human, pending>>

\* The end of the loop without a look at what was carried over.
Complete_Success(r) == Finish(r, "succeeded", FALSE)

\* The end of the loop, or of the rounds: what was carried over is the result.
Complete(r) ==
  IF r \in pending THEN Finish(r, "waiting_human", TRUE) ELSE Finish(r, "succeeded", FALSE)


\* has_more.
More(r) == step[r] < Last

\* _settle: what a step's result means for the run.  "skipped" of a repair means
\* two things: there is nothing to repair, or another repair is not finished.
Settle(r, result, reason) ==
  LET i == step[r]
      more == More(r)
      repair == Plan[i] = "healing"
      carried == result = "waiting_human" /\ repair /\ more /\ reason # "already_reported"
      busy == result = "skipped" /\ repair /\ reason = "busy"
      enough == result = "skipped" /\ repair /\ reason = "no_defects" /\ more
      done == [record[r] EXCEPT ![i] = result]
      Write(recs) == record' = [record EXCEPT ![r] = recs]
  IN
  \/ /\ carried /\ Write(done)
     /\ loop' = [loop EXCEPT ![r] = "carry"]
     /\ UNCHANGED <<status, step, human, pending, handle>>
  \/ busy /\ Write(Skipped(r, done)) /\ Finish(r, "skipped", FALSE)
  \/ enough /\ Write(Skipped(r, done)) /\ Complete(r)
  \/ /\ result \in {"succeeded", "skipped"} /\ ~busy /\ ~enough
     /\ Write(done)
     /\ IF more THEN Proceed(r) ELSE Complete(r)
  \/ /\ result = "waiting_human" /\ ~carried
     /\ Write(IF reason = "already_reported" THEN Skipped(r, done) ELSE done)
     /\ Finish(r, "waiting_human", TRUE)
  \/ result \in {"failed", "cancelled"} /\ Write(done) /\ Finish(r, result, FALSE)

-----------------------------------------------------------------------------
(* The thread of a run: _loop.                                             *)

Begin(r) ==
  /\ loop[r] = "queued"
  /\ loop' = [loop EXCEPT ![r] = "top"]
  /\ status' = [status EXCEPT ![r] = "running"]
  /\ UNCHANGED <<started, step, record, human, known, pending, event, handle, steps, caller, counts>>

\* Between two steps.
StopHere(r) ==
  /\ loop[r] = "top" /\ r \in event
  /\ Finish(r, "cancelled", FALSE)
  /\ UNCHANGED <<started, record, known, event, steps, caller, counts>>

Enter(r) ==
  /\ loop[r] = "top" /\ r \notin event
  /\ loop' = [loop EXCEPT ![r] = "ready"]
  /\ record' = [record EXCEPT ![r][step[r]] = "running"]
  /\ UNCHANGED <<started, status, step, human, known, pending, event, handle, steps, caller, counts>>

\* What an agent says without starting any work.
Refusals(agent) ==
  IF agent = "run" THEN {<<"waiting_human", "">>, <<"failed", "">>}
  ELSE {<<"waiting_human", "">>, <<"waiting_human", "already_reported">>,
        <<"skipped", "busy">>, <<"skipped", "no_defects">>, <<"failed", "">>}

Refuse(r) ==
  /\ loop[r] = "ready"
  /\ \E answer \in Refusals(Plan[step[r]]) : Settle(r, answer[1], answer[2])
  /\ UNCHANGED <<started, known, event, steps, caller, counts>>

\* agent.run starts the work; a repair is never started beside another one.
Launch(r) ==
  /\ loop[r] = "ready"
  /\ Plan[step[r]] = "healing" =>
       \A q \in Runs, i \in Steps : Plan[i] = "healing" => work[q][i] # "running"
  /\ loop' = [loop EXCEPT ![r] = "launched"]
  /\ work' = [work EXCEPT ![r][step[r]] = "running"]
  /\ UNCHANGED <<started, memory, pending, event, handle, told, blind, caller, counts>>

Receive(r) ==
  /\ loop[r] = "launched"
  /\ loop' = [loop EXCEPT ![r] = "await"]
  /\ handle' = handle \cup {r}
  /\ UNCHANGED <<started, memory, pending, event, steps, caller, counts>>

\* A look at the work every ten seconds: the cancellation comes first.
Abandon(r) ==
  /\ loop[r] = "await" /\ r \in event
  /\ told' = told \cup {<<r, step[r]>>}
  /\ Settle(r, "cancelled", "")
  /\ UNCHANGED <<started, known, event, work, blind, caller, counts>>

\* What agent.status makes of work that is over; a repair that was stopped has failed.
Results(r) ==
  IF Plan[step[r]] = "healing" THEN {"succeeded", "failed", "waiting_human"}
  ELSE {"succeeded", "failed"} \cup (IF <<r, step[r]>> \in told THEN {"cancelled"} ELSE {})

Observe(r) ==
  /\ loop[r] = "await" /\ r \notin event
  /\ work[r][step[r]] = "over"
  /\ \E result \in Results(r) : Settle(r, result, "")
  /\ UNCHANGED <<started, known, event, steps, caller, counts>>

\* The work's state cannot be read: the step has failed, and nobody stops the work.
Unreadable(r) ==
  /\ loop[r] = "await" /\ r \notin event
  /\ faults < MaxFaults
  /\ faults' = faults + 1
  /\ blind' = blind \cup {r}
  /\ Settle(r, "failed", "")
  /\ UNCHANGED <<started, known, event, work, told, caller, cancels, crashes>>

\* A deadline that moves on with every look.
Timeout_Renewed(r) == loop[r] = "await" /\ UNCHANGED vars

\* A step that is given up without a word to its work.
Timeout_Silent(r) ==
  /\ loop[r] = "await" /\ r \notin event
  /\ work[r][step[r]] = "running"
  /\ Settle(r, "failed", "")
  /\ UNCHANGED <<started, known, event, steps, caller, counts>>

\* STEP_TIMEOUT_SEC: the work is asked to stop.
Timeout(r) ==
  /\ loop[r] = "await" /\ r \notin event
  /\ work[r][step[r]] = "running"
  /\ told' = told \cup {<<r, step[r]>>}
  /\ Settle(r, "failed", "")
  /\ UNCHANGED <<started, known, event, work, blind, caller, counts>>

\* A human's turn is carried over, and asked for at once.
Carry(r) ==
  /\ loop[r] = "carry"
  /\ pending' = pending \cup {r}
  /\ human' = human \cup {r}
  /\ loop' = [loop EXCEPT ![r] = "top"]
  /\ step' = [step EXCEPT ![r] = @ + 1]
  /\ handle' = handle \ {r}
  /\ UNCHANGED <<started, status, record, known, event, steps, caller, counts>>

\* An agent that raises, a save of the thread that fails: the step is left as it is.
Exception(r) ==
  /\ loop[r] \notin {"none", "finally", "over"} \cup Stillborn
  /\ faults < MaxFaults
  /\ faults' = faults + 1
  /\ blind' = blind \cup {r}
  /\ Finish(r, "failed", FALSE)
  /\ UNCHANGED <<started, record, known, event, work, told, caller, cancels, crashes>>

Finally(r) ==
  /\ loop[r] = "finally"
  /\ loop' = [loop EXCEPT ![r] = "over"]
  /\ event' = event \ {r}
  /\ UNCHANGED <<started, memory, pending, handle, steps, caller, counts>>

Thread(r) ==
  \/ Begin(r) \/ StopHere(r) \/ Enter(r) \/ Refuse(r) \/ Launch(r) \/ Receive(r)
  \/ Abandon(r) \/ Observe(r) \/ Unreadable(r) \/ Timeout(r) \/ Carry(r)
  \/ Exception(r) \/ Finally(r)

-----------------------------------------------------------------------------
(* Outside the thread.                                                     *)

Stoppable(r) == r \in handle /\ record[r][step[r]] = "running"

\* cancel: the event, and a word to the work of the step if it has a handle.
Cancel(r) ==
  /\ cancels < MaxCancels
  /\ cancels' = cancels + 1
  /\ r \in known /\ loop[r] \notin {"none", "over"}
  /\ event' = event \cup {r}
  /\ told' = IF Stoppable(r) THEN told \cup {<<r, step[r]>>} ELSE told
  /\ UNCHANGED <<started, memory, loop, pending, handle, work, blind, caller, faults, crashes>>

WorkEnds(r, i) ==
  /\ work[r][i] = "running"
  /\ work' = [work EXCEPT ![r][i] = "over"]
  /\ UNCHANGED <<started, memory, thread, told, blind, caller, counts>>

\* The server ends; an orderly end (_stop_running_steps) tells the work first.  A
\* repair ends with its thread, the process of a test run does not.  Of a run that
\* was never saved there is no file.
Restart ==
  /\ crashes < MaxCrashes
  /\ crashes' = crashes + 1
  /\ \E orderly \in BOOLEAN :
       told' = IF orderly
               THEN told \cup {<<r, step[r]>> : r \in {q \in known : status[q] \in Unfinished /\ Stoppable(q)}}
               ELSE told
  /\ blind' = blind \cup {r \in known : status[r] \in Unfinished}
  /\ work' = [r \in Runs |-> [i \in Steps |->
       IF work[r][i] = "running" /\ Plan[i] = "healing" THEN "over" ELSE work[r][i]]]
  /\ known' = {} /\ event' = {} /\ handle' = {} /\ pending' = {}
  /\ loop' = [r \in Runs |-> "none"]
  /\ status' = [r \in Runs |-> IF loop[r] = "unsaved" THEN "none" ELSE status[r]]
  /\ caller' = [c \in Callers |-> "idle"]
  /\ UNCHANGED <<started, step, record, human, cancels, faults>>

Next ==
  \/ \E c \in Callers : Look(c) \/ Start(c) \/ StartFails(c)
  \/ \E r \in Runs : Thread(r) \/ Cancel(r)
  \/ \E r \in Runs, i \in Steps : WorkEnds(r, i)
  \/ Restart

Spec == Init /\ [][Next]_vars

\* Threads are scheduled and the daily watch goes on asking.  Nothing makes work end.
FairSpec ==
  /\ Spec
  /\ \A r \in Runs : WF_vars(Thread(r))
  /\ \A c \in Callers : WF_vars(Look(c) \/ Start(c))

-----------------------------------------------------------------------------

\* However callers, crashes and endings fall together, one run of the site is
\* unfinished at a time, and it is the only one whose thread still takes steps.
OneConductor ==
  \A r, q \in Runs :
    r # q /\ status[r] \in Unfinished =>
      status[q] \notin Unfinished /\ loop[q] \in {"none", "finally", "over"}

\* A run that is over leaves no work behind that nobody asked to stop, unless it lost
\* sight of the work: an exception, a state that could not be read, a restart.
StopAsked ==
  \A r \in Runs \ blind : status[r] \in Terminal =>
    \A i \in Steps : work[r][i] = "running" => <<r, i>> \in told

\* A success means that every step succeeded or was not needed: no human's turn is
\* lost over the rounds, no step is left that was to run.
SucceededMeansDone ==
  \A r \in Runs : status[r] = "succeeded" =>
    \A i \in Steps : record[r][i] \in {"succeeded", "skipped"}

\* Every run ends, though work need never end: its deadlines see to it, or, after a
\* restart, the next caller.  Only a run whose start failed is unfinished for ever, and
\* bars its site, until the server is restarted.
RunsEnd ==
  \A r \in Runs :
    status[r] \in Unfinished /\ loop[r] \notin Stillborn ~> status[r] \in Terminal
=============================================================================
