---------------------------- MODULE BackendTests ----------------------------
(***************************************************************************)
(* Back-end tests (System 08): the handlers of web/routes/                 *)
(* backend_test_stages.py, backend_test_run.py and backend_test.py, which  *)
(* read a job's file, work on their copy and write it back whole, and the  *)
(* runner of web/services/backendtest/runner.py with its registry in       *)
(* memory, its marker per tenant and a summary file per run.               *)
(***************************************************************************)
EXTENDS BackendStages, FiniteSets

CONSTANTS
  Clients,          \* request threads
  Tenants,
  Jobs,
  Owner,            \* the tenant of each job
  MaxRuns,          \* bounds: runs of a job,
  MaxReworks,       \* requests that go back on a stage,
  MaxOverlaps,      \* requests that begin while another one is under way,
  MaxFaults         \* failed writes and starts of a process, and restarts of the server

ASSUME BackendAssumption ==
  /\ Owner \in [Jobs -> Tenants]
  /\ MaxRuns \in Nat /\ MaxReworks \in Nat /\ MaxOverlaps \in Nat
  /\ MaxFaults \in Nat

Numbers == 1..MaxRuns
Runs == [of : Jobs, id : Numbers]     \* a run's id is unique in its job only
Nobody == [of |-> "nobody", id |-> 0]
Idle == [at |-> "idle"]

VARIABLES
  file,         \* job.json of each job
  used,         \* the ids of each job's run folders
  mem,          \* the status of each run's object, "none" without one
  disk,         \* the status in each run's run.json, "none" without one
  registry,     \* _RUNS: the run each id stands for
  slot,         \* _ACTIVE_BY_TENANT: an id, 0 for none
  marker,       \* .running of each tenant
  closing,      \* runs that ended and whose run.json is not written yet
  torn,         \* runs whose end never reached run.json
  stuck,        \* runs registered by a start that failed half way
  req,          \* what each request is at, with its copy of the job
  reworks, overlaps, faults

runner == <<used, mem, disk, registry, slot, marker, closing, torn, stuck>>
vars == <<file, runner, req, reworks, overlaps, faults>>

Init ==
  /\ file = [j \in Jobs |-> NewJob]
  /\ used = [j \in Jobs |-> {}]
  /\ mem = [r \in Runs |-> "none"]
  /\ disk = [r \in Runs |-> "none"]
  /\ registry = [i \in Numbers |-> Nobody]
  /\ slot = [t \in Tenants |-> 0]
  /\ marker = [t \in Tenants |-> Nobody]
  /\ closing = {} /\ torn = {} /\ stuck = {}
  /\ req = [c \in Clients |-> Idle]
  /\ reworks = 0 /\ overlaps = 0 /\ faults = 0

-----------------------------------------------------------------------------
(* Requests that read the file, compute and write it *)

Forward(job) ==
  (UNION {Generate(job, n) : n \in {k \in 1..Design : CanGenerate(job, k) /\ job.status[k] # "approved"}})
    \cup {Approve(job, n) : n \in {k \in Stages : CanApprove(job, k)}}
    \cup (IF CanJudge(job) THEN {Judge(job)} ELSE {})

\* An approved stage generated again, a stage sent back, new material.
Back(job) ==
  (UNION {Generate(job, n) : n \in {k \in 1..Design : CanGenerate(job, k) /\ job.status[k] = "approved"}})
    \cup {Reject(job, n) : n \in {k \in Stages : CanReject(job, k)}}
    \cup {Reread(job)}

Begin(c, q) ==
  /\ req[c] = Idle
  /\ \/ (\A d \in Clients : req[d] = Idle) /\ UNCHANGED overlaps
     \/ (\E d \in Clients : req[d] # Idle) /\ overlaps < MaxOverlaps /\ overlaps' = overlaps + 1
  /\ req' = [req EXCEPT ![c] = q]

Edit(c, j) ==
  /\ \/ \E job \in Forward(file[j]) :
           Begin(c, [at |-> "save", of |-> j, job |-> job]) /\ UNCHANGED reworks
     \/ /\ reworks < MaxReworks /\ reworks' = reworks + 1
        /\ \E job \in Back(file[j]) :
              Begin(c, [at |-> "save", of |-> j, job |-> job])
  /\ UNCHANGED <<file, runner, faults>>

Save(c) ==
  /\ req[c].at = "save"
  /\ file' = [file EXCEPT ![req[c].of] = req[c].job]
  /\ req' = [req EXCEPT ![c] = Idle]
  /\ UNCHANGED <<runner, reworks, overlaps, faults>>

-----------------------------------------------------------------------------
(* A run is started *)

IsActive_Running(r) == r # Nobody /\ mem[r] = "running"

IsActive(r) == r # Nobody /\ mem[r] \in Active
Current(t) == IF slot[t] = 0 THEN Nobody ELSE registry[slot[t]]
CodeReady(job) == job.status[Code] = "approved" /\ ~job.stale[Code]
Busy(job) == \E id \in Listed(job) : job.runs[id].status \in Active /\ IsActive(registry[id])

\* new_run_id: the day and a number in it, after every id of the job's folders.
NewIds(j) == {i \in Numbers : \A k \in used[j] : k < i}
Reserving(j) == Cardinality({d \in Clients : req[d].at = "reserve" /\ req[d].of = j})

\* run_start has read the job and may go on. The bound leaves each request an id.
StartRun(c, j) ==
  /\ CodeReady(file[j]) /\ ~Busy(file[j])
  /\ Reserving(j) < Cardinality(NewIds(j))
  /\ Begin(c, [at |-> "reserve", of |-> j, job |-> file[j]])
  /\ UNCHANGED <<file, runner, reworks, faults>>

Refuse(c) ==
  /\ req[c].at = "reserve"
  /\ IsActive(Current(Owner[req[c].of]))
  /\ req' = [req EXCEPT ![c] = Idle]
  /\ UNCHANGED <<file, runner, reworks, overlaps, faults>>

Recovered_MarkerOnly(t) == disk

\* recover_stale: the run of a marker nobody in memory knows ends in error.
Recovered(t) ==
  IF Current(t) = Nobody /\ marker[t] # Nobody /\ disk[marker[t]] \in Active
  THEN [disk EXCEPT ![marker[t]] = "error"] ELSE disk

\* _reserve, under _LOCK. Writing the marker or run.json may fail: the run
\* stays registered, and the request ends.
Take(c, r) ==
  LET j == r.of
      t == Owner[j]
  IN /\ ~IsActive(Current(t))
     /\ used' = [used EXCEPT ![j] = @ \cup {r.id}]
     /\ mem' = [mem EXCEPT ![r] = "queued"]
     /\ registry' = [registry EXCEPT ![r.id] = r]
     /\ slot' = [slot EXCEPT ![t] = r.id]
     /\ \/ /\ marker' = [marker EXCEPT ![t] = r]
           /\ disk' = [Recovered(t) EXCEPT ![r] = "queued"]
           /\ req' = [req EXCEPT ![c] = [at |-> "launch", of |-> j, job |-> req[c].job, id |-> r.id]]
           /\ UNCHANGED <<stuck, faults>>
        \/ /\ faults < MaxFaults /\ faults' = faults + 1
           /\ marker' \in {[marker EXCEPT ![t] = x] : x \in {r, Nobody}}
           /\ disk' = Recovered(t)
           /\ stuck' = stuck \cup {r}
           /\ req' = [req EXCEPT ![c] = Idle]
     /\ UNCHANGED <<file, closing, torn, reworks, overlaps>>

Reserve(c) ==
  /\ req[c].at = "reserve"
  /\ \E id \in NewIds(req[c].of) :
        /\ id + Reserving(req[c].of) <= MaxRuns + 1       \* the bound, as in StartRun
        /\ Take(c, [of |-> req[c].of, id |-> id])

\* _release compares ids: those of a tenant's own slot and marker.
Free(r) ==
  LET t == Owner[r.of]
  IN /\ slot' = IF slot[t] = r.id THEN [slot EXCEPT ![t] = 0] ELSE slot
     /\ marker' = IF marker[t].id = r.id THEN [marker EXCEPT ![t] = Nobody] ELSE marker

\* _finish up to the end of the lock; run.json is written after it.
Close(r, status) ==
  /\ mem' = [mem EXCEPT ![r] = status]
  /\ Free(r)
  /\ closing' = closing \cup {r}
  /\ UNCHANGED <<used, disk, registry, torn>>

Launched(c) == [of |-> req[c].of, id |-> req[c].id]

Launch(c) ==
  /\ req[c].at = "launch"
  /\ mem' = [mem EXCEPT ![Launched(c)] = "running"]
  /\ \/ /\ disk' = [disk EXCEPT ![Launched(c)] = "running"]
        /\ req' = [req EXCEPT ![c] = [at |-> "record", of |-> @.of, job |-> @.job, id |-> @.id]]
        /\ UNCHANGED <<stuck, faults>>
     \/ /\ faults < MaxFaults /\ faults' = faults + 1      \* run.json fails: nobody watches
        /\ stuck' = stuck \cup {Launched(c)}
        /\ req' = [req EXCEPT ![c] = Idle]
        /\ UNCHANGED disk
  /\ UNCHANGED <<file, used, registry, slot, marker, closing, torn, reworks, overlaps>>

LaunchFails_Unreleased(c) ==
  /\ req[c].at = "launch"
  /\ faults < MaxFaults /\ faults' = faults + 1
  /\ req' = [req EXCEPT ![c] = Idle]
  /\ UNCHANGED <<file, runner, reworks, overlaps>>

\* The process does not start: the run ends in error, and so does the request.
LaunchFails(c) ==
  /\ req[c].at = "launch"
  /\ faults < MaxFaults /\ faults' = faults + 1
  /\ Close(Launched(c), "error")
  /\ req' = [req EXCEPT ![c] = Idle]
  /\ UNCHANGED <<file, stuck, reworks, overlaps>>

\* runner.status: the object of that id, whichever job's it is, or run.json.
Status(r) == IF registry[r.id] # Nobody THEN mem[registry[r.id]] ELSE disk[r]

\* The list of the copy gets the run, and the copy becomes the file.
Record(c) ==
  /\ req[c].at = "record"
  /\ file' = [file EXCEPT ![req[c].of] = WithRun(req[c].job, req[c].id, Status(Launched(c)))]
  /\ req' = [req EXCEPT ![c] = Idle]
  /\ UNCHANGED <<runner, reworks, overlaps, faults>>

-----------------------------------------------------------------------------
(* The watching thread *)

Finish(r) ==
  /\ mem[r] = "running" /\ r \notin stuck
  /\ \E status \in Finished : Close(r, status)
  /\ UNCHANGED <<file, stuck, req, reworks, overlaps, faults>>

WriteEnd(r) ==
  /\ r \in closing
  /\ closing' = closing \ {r}
  /\ \/ /\ disk' = [disk EXCEPT ![r] = mem[r]]
        /\ UNCHANGED <<torn, faults>>
     \/ /\ faults < MaxFaults /\ faults' = faults + 1
        /\ torn' = torn \cup {r}
        /\ UNCHANGED disk
  /\ UNCHANGED <<file, used, mem, registry, slot, marker, stuck, req, reworks, overlaps>>

-----------------------------------------------------------------------------
(* A run is asked for, or stopped *)

Listing(j, id) == file[j].runs[id].status

\* run_status has read the job. One that finds what the job says changes nothing.
AskStatus(c, j) ==
  /\ \E id \in Listed(file[j]) :
        /\ Listing(j, id) \in Active \/ Status([of |-> j, id |-> id]) # Listing(j, id)
        /\ Begin(c, [at |-> "poll", of |-> j, job |-> file[j], id |-> id])
  /\ UNCHANGED <<file, runner, reworks, faults>>

\* run_cancel stops a run in memory that has not ended, and waits for it.
Cancel(c, j) ==
  /\ \E id \in Listed(file[j]) :
        /\ IsActive(registry[id])
        /\ Begin(c, [at |-> "stopping", of |-> j, job |-> file[j], id |-> id])
  /\ UNCHANGED <<file, runner, reworks, faults>>

Settled(c, status) == FinishStage(WithRun(req[c].job, req[c].id, status), status)

\* _sync writes only a final status that the copy does not have yet.
Poll(c) ==
  LET status == Status(Launched(c))
  IN /\ req[c].at = "poll"
     /\ file' = IF status \in Finished /\ req[c].job.runs[req[c].id].status # status
                THEN [file EXCEPT ![req[c].of] = Settled(c, status)] ELSE file
     /\ req' = [req EXCEPT ![c] = Idle]
     /\ UNCHANGED <<runner, reworks, overlaps, faults>>

\* The thread has ended, or eight seconds have passed.
Stopped(c) ==
  /\ req[c].at = "stopping"
  /\ file' = [file EXCEPT ![req[c].of] = Settled(c, Status(Launched(c)))]
  /\ req' = [req EXCEPT ![c] = Idle]
  /\ UNCHANGED <<runner, reworks, overlaps, faults>>

-----------------------------------------------------------------------------

Restart ==
  /\ faults < MaxFaults /\ faults' = faults + 1
  /\ mem' = [r \in Runs |-> "none"]
  /\ registry' = [i \in Numbers |-> Nobody]
  /\ slot' = [t \in Tenants |-> 0]
  /\ torn' = torn \cup closing /\ closing' = {} /\ stuck' = {}
  /\ req' = [c \in Clients |-> Idle]
  /\ UNCHANGED <<file, used, disk, marker, reworks, overlaps>>

Go(c) ==
  \/ Save(c) \/ Refuse(c) \/ Reserve(c) \/ Launch(c) \/ LaunchFails(c) \/ Record(c)
  \/ Poll(c) \/ Stopped(c)

Next ==
  \/ \E c \in Clients : Go(c)
  \/ \E c \in Clients, j \in Jobs : Edit(c, j) \/ StartRun(c, j) \/ AskStatus(c, j) \/ Cancel(c, j)
  \/ \E r \in Runs : Finish(r) \/ WriteEnd(r)
  \/ Restart

\* A request goes on, and the thread of a run ends it: it has a deadline.
Fairness ==
  /\ \A c \in Clients : WF_vars(Go(c))
  /\ \A r \in Runs : WF_vars(Finish(r)) /\ WF_vars(WriteEnd(r))

Spec == Init /\ [][Next]_vars /\ Fairness
-----------------------------------------------------------------------------

Copies == {file[j] : j \in Jobs} \cup {req[c].job : c \in {d \in Clients : req[d] # Idle}}

(***************************************************************************)
(* In every job file, and in every copy a request will write back, what is *)
(* not marked as out of date rests on approved stages (stages.py:168).     *)
(***************************************************************************)
FreshIsBuilt == \A job \in Copies : Built(job)

(***************************************************************************)
(* A report that is not marked as out of date was made from all the runs   *)
(* of its list that have ended, whatever copies were written over it       *)
(* (run_prep.py:51).                                                       *)
(***************************************************************************)
ReportCoversRuns == \A job \in Copies : Covered(job)

\* No id stands for runs of two tenants.
IdsApart ==
  \A r, s \in Runs :
     r.id = s.id /\ r.id \in used[r.of] /\ s.id \in used[s.of] => Owner[r.of] = Owner[s.of]

(***************************************************************************)
(* A run the job's list shows as active can still be settled: the process  *)
(* knows it, or run.json has its end, or the next start of the tenant will *)
(* recover it. It may stay there only when run.json never got its end      *)
(* (runner.py:391), or after another tenant got its id. As long as a       *)
(* listed run is active nothing is judged.                                 *)
(***************************************************************************)
RunningCanSettle ==
  IdsApart =>
    \A j \in Jobs : \A id \in Listed(file[j]) :
       LET r == [of |-> j, id |-> id]
       IN Listing(j, id) \in Active
            => \/ registry[r.id] # Nobody \/ disk[r] \in Finished
               \/ marker[Owner[j]] = r \/ r \in torn

(***************************************************************************)
(* A tenant whose runs are refused because one is active gets free again,  *)
(* unless that one was registered by a start that failed on a file         *)
(* (runner.py:189 and 107): only a restart ends it then.                   *)
(***************************************************************************)
TenantFreed ==
  \A t \in Tenants :
     IsActive(Current(t)) ~> (~IsActive(Current(t)) \/ Current(t) \in stuck)

(***************************************************************************)
(* At most one run of a tenant is active: 「同時実行はテナントあたり 1 本」       *)
(* (runner.py:7), as long as no id was given to runs of two tenants, which *)
(* new_run_id does not exclude.                                            *)
(***************************************************************************)
OneRunPerTenant ==
  IdsApart =>
    \A r, s \in Runs :
       Owner[r.of] = Owner[s.of] /\ mem[r] \in Active /\ mem[s] \in Active => r = s
=============================================================================
