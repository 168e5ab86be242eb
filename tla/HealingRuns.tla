---------------------------- MODULE HealingRuns ----------------------------
(***************************************************************************)
(* Repair runs of one connected repository: web/services/healing/          *)
(* orchestrator.py and the handlers of web/routes/healing.py that call it. *)
(* A run has a thread (its loop), an object in _RUNS and a file; requests  *)
(* start runs, cancel them and decide on them and on their reports.        *)
(***************************************************************************)
EXTENDS FiniteSets, Integers

CONSTANTS
  Clients,          \* request threads, the daily watch and the conductor
  Defects,
  Keep,             \* KEEP_RUN_ARTIFACTS (5)
  MaxIterations,    \* project.max_iterations
  MaxRuns,          \* bounds: runs started,
  MaxDecisions,     \* decisions and pull requests asked for,
  MaxFaults,        \* exceptions in a loop and saves that fail,
  MaxCrashes        \* restarts of the server

\* A run's objects: the one start_run made and its thread works on, and after a
\* restart the copy each request may have read from the file.
Thread == "thread"
Objects == {Thread} \cup Clients
Nobody == "nobody"

ASSUME HealingAssumption ==
  /\ IsFiniteSet(Clients) /\ {Thread, Nobody} \cap Clients = {}
  /\ Keep \in Nat \ {0} /\ MaxIterations \in Nat \ {0}
  /\ MaxRuns \in Nat /\ MaxDecisions \in Nat /\ MaxFaults \in Nat /\ MaxCrashes \in Nat

Runs == 1..MaxRuns
Active == {"queued", "preparing", "verifying", "analyzing", "fixing", "reverifying"}
Terminal == {"succeeded", "no_defects", "failed", "cancelled"}
Statuses == Active \cup Terminal \cup {"awaiting_human"}
Idle == [at |-> "idle"]
NoReport == <<>>
Blank == [status |-> "absent", pr |-> "none"]

VARIABLES
  created,      \* runs started so far; a run's number says how old it is
  held,         \* _RUNS: which of its objects each run is known by, or Nobody
  object,       \* status and pull request in each object of each run,
  file,         \* and in its file
  loop,         \* where each run's thread is
  round,        \* its iteration
  asked,        \* _CANCEL
  found,        \* the defects each run recorded
  applied,      \* those whose repair of the product was merged into its branch
  branch,       \* the branch a run knows: "none", "there" or "gone"
  trees,        \* runs whose integration worktree exists
  github,       \* the pull request at GitHub
  report,       \* the report on each defect of each run
  client,       \* each request
  byHand,       \* runs started without asking whether another one is active
  decisions, faults, crashes

run == <<held, object, file>>
work == <<loop, round, found, applied>>
repository == <<branch, trees>>
counts == <<decisions, faults, crashes>>
vars == <<created, byHand, run, work, asked, repository, github, report, client, counts>>

Init ==
  /\ created = 0 /\ byHand = {}
  /\ held = [r \in Runs |-> Nobody]
  /\ object = [r \in Runs |-> [o \in Objects |-> Blank]]
  /\ file = [r \in Runs |-> Blank]
  /\ loop = [r \in Runs |-> "none"]
  /\ round = [r \in Runs |-> 1]
  /\ asked = {}
  /\ found = [r \in Runs |-> {}]
  /\ applied = [r \in Runs |-> {}]
  /\ branch = [r \in Runs |-> "none"]
  /\ trees = {}
  /\ github = [r \in Runs |-> "none"]
  /\ report = [r \in Runs |-> [d \in Defects |-> "none"]]
  /\ client = [c \in Clients |-> Idle]
  /\ decisions = 0 /\ faults = 0 /\ crashes = 0

\* What get_run returns: the object in memory, else a copy of the file.
Known(r) == IF held[r] = Nobody THEN file[r] ELSE object[r][held[r]]
Status(r) == Known(r).status

\* The status a run has in memory.
Memory(r) == IF held[r] = Nobody THEN "absent" ELSE object[r][held[r]].status

\* An object goes to _RUNS, whichever was there.
Hold(r, o, new) ==
  /\ held' = [held EXCEPT ![r] = o]
  /\ object' = [object EXCEPT ![r][o] = new]

\* And its content to the file.
Put(r, o, new) == Hold(r, o, new) /\ file' = [file EXCEPT ![r] = new]

\* A status is written whatever was decided before.
Update_Always(r, o, new) == Put(r, o, [object[r][o] EXCEPT !.status = new])

\* _update: the status of a cancelled run does not change, and the run is saved.
Update(r, o, new) ==
  Put(r, o, [object[r][o] EXCEPT !.status = IF @ = "cancelled" THEN @ ELSE new])

Go(c, state) == client' = [client EXCEPT ![c] = state]
At(c, here) == client[c].at = here

-----------------------------------------------------------------------------
(* Starting a run.                                                         *)

\* A second list of the states that have a thread, not kept up with the first.
Orphans_Short == Active \ {"reverifying"}

\* ORPHAN_CANDIDATE_STATUSES.
Orphans == Active

\* reap_orphans: a file says that the run is active and no object is in memory.
Reaped ==
  [r \in Runs |-> IF file[r].status \in Orphans /\ held[r] = Nobody
                  THEN [file[r] EXCEPT !.status = "failed"] ELSE file[r]]

\* has_active_run reaps first and does not count the runs that wait for a human.
Quiet ==
  \A r \in Runs : (IF held[r] = Nobody THEN Reaped[r].status ELSE Memory(r)) \notin Active

Room == created + Cardinality({c \in Clients : At(c, "register")}) < MaxRuns

\* The question without the lock.
StartIfIdle_Unlocked(c) ==
  /\ At(c, "idle") /\ Room /\ Quiet
  /\ file' = Reaped
  /\ Go(c, [at |-> "register", locked |-> TRUE, report |-> NoReport])
  /\ UNCHANGED <<created, byHand, held, object, work, asked, repository, github, report, counts>>

\* start_run_if_idle under _START_LOCK, up to the start.
StartIfIdle(c) ==
  /\ At(c, "idle")
  /\ \A b \in Clients : client[b].at \in {"register", "sweep"} => ~client[b].locked
  /\ file' = Reaped
  /\ IF Room /\ Quiet
     THEN Go(c, [at |-> "register", locked |-> TRUE, report |-> NoReport])
     ELSE UNCHANGED client
  /\ UNCHANGED <<created, byHand, held, object, work, asked, repository, github, report, counts>>

\* api_start_run and api_start_run_from_autorun start without asking.
StartByHand(c) ==
  /\ At(c, "idle") /\ Room
  /\ Go(c, [at |-> "register", locked |-> FALSE, report |-> NoReport])
  /\ UNCHANGED <<created, byHand, run, work, asked, repository, github, report, counts>>

\* Old runs go whatever they are doing.
Stale_Active(files) ==
  {r \in Runs :
     /\ files[r].status # "absent"
     /\ Cardinality({n \in Runs : n > r /\ files[n].status # "absent"}) >= Keep}

\* _cleanup_old_run_artifacts reads the files: runs beyond the newest Keep, not active.
Stale(files) ==
  {r \in Runs :
     /\ files[r].status \notin Active \cup {"absent"}
     /\ Cardinality({n \in Runs : n > r /\ files[n].status # "absent"}) >= Keep}

\* start_run: the run is known and saved, then the files are listed for the cleanup.
Register(c) ==
  LET r == created + 1 IN
  /\ At(c, "register")
  /\ created' = r
  /\ byHand' = IF client[c].locked THEN byHand ELSE byHand \cup {r}
  /\ Put(r, Thread, [Blank EXCEPT !.status = "queued"])
  /\ Go(c, [at |-> "sweep", locked |-> client[c].locked, report |-> client[c].report,
            run |-> r, stale |-> Stale(file'), open |-> {o \in Runs : file[o].pr = "open"}])
  /\ UNCHANGED <<work, asked, repository, github, report, counts>>

\* The first save raises: the run stays in _RUNS, queued, and gets no thread.
RegisterFails(c) ==
  LET r == created + 1 IN
  /\ At(c, "register")
  /\ faults < MaxFaults
  /\ faults' = faults + 1
  /\ created' = r
  /\ byHand' = IF client[c].locked THEN byHand ELSE byHand \cup {r}
  /\ Hold(r, Thread, [Blank EXCEPT !.status = "queued"])
  /\ Go(c, Idle)
  /\ UNCHANGED <<file, work, asked, repository, github, report, decisions, crashes>>

\* A cleanup that deletes the branches of pull requests too.
Unwanted_Open(c) == client[c].stale

\* Branches of pull requests that were open when the files were read stay.
Unwanted(c) == client[c].stale \ client[c].open

CleanUp(c) ==
  /\ At(c, "sweep")
  /\ trees' = trees \ client[c].stale
  /\ branch' = [r \in Runs |->
       IF r \in Unwanted(c) /\ branch[r] = "there" THEN "gone" ELSE branch[r]]

\* The cleanup, and the run's thread is started; a return goes on to its report.
Sweep(c) ==
  /\ CleanUp(c)
  /\ loop' = [loop EXCEPT ![client[c].run] = "queued"]
  /\ Go(c, IF client[c].report = NoReport THEN Idle
           ELSE [at |-> "mark", report |-> client[c].report])
  /\ UNCHANGED <<created, byHand, run, round, asked, found, applied, github, report, counts>>

\* The thread cannot be started.
SweepFails(c) ==
  /\ CleanUp(c)
  /\ faults < MaxFaults
  /\ faults' = faults + 1
  /\ Go(c, Idle)
  /\ UNCHANGED <<created, byHand, run, work, asked, github, report, decisions, crashes>>

-----------------------------------------------------------------------------
(* The thread of a run: _run_loop.                                         *)

Step(r, here, next) == loop[r] = here /\ loop' = [loop EXCEPT ![r] = next]
LoopRest == UNCHANGED <<created, byHand, asked, github, report, client, counts>>
Tell(r, new) == Update(r, Thread, new)

\* A status set past _update.
Assign(r, new) == Put(r, Thread, [object[r][Thread] EXCEPT !.status = new])

Prepare(r) ==
  /\ Step(r, "queued", "prepare")
  /\ Tell(r, "preparing")
  /\ UNCHANGED <<round, found, applied, repository>> /\ LoopRest

\* The command is not allowed, the path is no repository, or git fails; a
\* worktree that cannot be made leaves its branch.
PrepareFails(r) ==
  /\ Step(r, "prepare", "end")
  /\ Tell(r, "failed")
  /\ \E made \in IF r \in asked THEN {"none"} ELSE {"none", "there"} :
       branch' = [branch EXCEPT ![r] = made]
  /\ UNCHANGED <<round, found, applied, trees>> /\ LoopRest

Branch(r) ==
  /\ r \notin asked
  /\ Step(r, "prepare", "top")
  /\ branch' = [branch EXCEPT ![r] = "there"]
  /\ trees' = trees \cup {r}
  /\ UNCHANGED <<run, round, found, applied>> /\ LoopRest

\* The loop looks for a cancellation at these places only.
Stop(r) ==
  /\ r \in asked
  /\ loop[r] \in {"prepare", "top", "verify", "located", "final", "check"}
  /\ loop' = [loop EXCEPT ![r] = "end"]
  /\ Tell(r, "cancelled")
  /\ UNCHANGED <<round, found, applied, repository>> /\ LoopRest

Verify(r) ==
  /\ r \notin asked
  /\ Step(r, "top", "verify")
  /\ Tell(r, IF round[r] = 1 THEN "verifying" ELSE "reverifying")
  /\ UNCHANGED <<round, found, applied, repository>> /\ LoopRest

\* The verification passes.
Green(r) ==
  /\ r \notin asked
  /\ Step(r, "verify", IF round[r] = 1 THEN "end" ELSE "handover")
  /\ Assign(r, IF round[r] = 1 THEN "no_defects" ELSE "succeeded")
  /\ UNCHANGED <<round, found, applied, repository>> /\ LoopRest

Red(r) ==
  /\ r \notin asked
  /\ Step(r, "verify", "analyze")
  /\ Tell(r, "analyzing")
  /\ UNCHANGED <<round, found, applied, repository>> /\ LoopRest

\* A verification that fails without a test to blame leaves the status.
Unexplained_Silent(r) ==
  /\ Step(r, "analyze", "end")
  /\ UNCHANGED <<run, round, found, applied, repository>> /\ LoopRest

\* No test can be blamed.
Unexplained(r) ==
  /\ Step(r, "analyze", "end")
  /\ Tell(r, "failed")
  /\ UNCHANGED <<round, found, applied, repository>> /\ LoopRest

Record(r, some) == found' = [found EXCEPT ![r] = @ \cup some]

\* Only the tests are wrong; they are rewritten in place, or cannot be.
TestsOnly(r) ==
  /\ Step(r, "analyze", "end")
  /\ \E some \in SUBSET Defects \ {{}} : Record(r, some)
  /\ \E new \in {"awaiting_human", "failed"} : Tell(r, new)
  /\ UNCHANGED <<round, applied, repository>> /\ LoopRest

Locate(r) ==
  /\ Step(r, "analyze", "located")
  /\ \E some \in SUBSET Defects \ {{}} : Record(r, some)
  /\ UNCHANGED <<run, round, applied, repository>> /\ LoopRest

BeginFix(r) ==
  /\ r \notin asked
  /\ Step(r, "located", "fix")
  /\ Tell(r, "fixing")
  /\ UNCHANGED <<round, found, applied, repository>> /\ LoopRest


\* Some repairs are merged, of the product or (none of them) of the tests.
Fix(r) ==
  /\ Step(r, "fix", IF round[r] = MaxIterations THEN "final" ELSE "top")
  /\ \E some \in SUBSET found[r] : applied' = [applied EXCEPT ![r] = @ \cup some]
  /\ round' = [round EXCEPT ![r] = IF @ = MaxIterations THEN @ ELSE @ + 1]
  /\ UNCHANGED <<run, found, repository>> /\ LoopRest

FixNothing(r) ==
  /\ Step(r, "fix", "end")
  /\ Tell(r, "failed")
  /\ UNCHANGED <<round, found, applied, repository>> /\ LoopRest

\* The last repair is verified once more.
Reverify(r) ==
  /\ r \notin asked
  /\ Step(r, "final", "check")
  /\ Tell(r, "reverifying")
  /\ UNCHANGED <<round, found, applied, repository>> /\ LoopRest

Checked(r) ==
  /\ r \notin asked
  /\ \/ Step(r, "check", "handover") /\ Assign(r, "succeeded")
     \/ Step(r, "check", "end") /\ Tell(r, "awaiting_human")
  /\ UNCHANGED <<round, found, applied, repository>> /\ LoopRest

\* Repairs were applied: a human decides on the pull request.
HandOver(r) ==
  /\ Step(r, "handover", "end")
  /\ Tell(r, "awaiting_human")
  /\ UNCHANGED <<round, found, applied, repository>> /\ LoopRest

\* An exception: the status is failed whatever it was; the save may fail too.
Exception(r) ==
  /\ faults < MaxFaults
  /\ faults' = faults + 1
  /\ loop[r] \notin {"none", "end", "over"}
  /\ loop' = [loop EXCEPT ![r] = "end"]
  /\ LET new == [object[r][Thread] EXCEPT !.status = "failed"] IN
     /\ Hold(r, Thread, new)
     /\ file' \in {file, [file EXCEPT ![r] = new]}
  /\ UNCHANGED <<created, byHand, round, asked, found, applied, repository, github, report,
                 client, decisions, crashes>>

\* The finally clause: a report on each defect, the run saved, the wish forgotten.
End(r) ==
  /\ Step(r, "end", "over")
  /\ report' = [report EXCEPT ![r] = [d \in Defects |->
       IF d \in found[r] /\ @[d] = "none" THEN "awaiting" ELSE @[d]]]
  /\ file' = [file EXCEPT ![r] = object[r][Thread]]
  /\ asked' = asked \ {r}
  /\ UNCHANGED <<created, byHand, held, object, round, found, applied, repository, github,
                 client, counts>>

\* Neither reports nor the run can be written.
EndFails(r) ==
  /\ faults < MaxFaults
  /\ faults' = faults + 1
  /\ Step(r, "end", "over")
  /\ asked' = asked \ {r}
  /\ UNCHANGED <<created, byHand, run, round, found, applied, repository, github, report,
                 client, decisions, crashes>>

RunLoop(r) ==
  \/ Prepare(r) \/ PrepareFails(r) \/ Branch(r) \/ Stop(r) \/ Verify(r) \/ Green(r) \/ Red(r)
  \/ Unexplained(r) \/ TestsOnly(r) \/ Locate(r) \/ BeginFix(r) \/ Fix(r) \/ FixNothing(r)
  \/ Reverify(r) \/ Checked(r) \/ HandOver(r) \/ Exception(r) \/ End(r) \/ EndFails(r)

-----------------------------------------------------------------------------
(* Decisions.  One on a report is taken if the report waits for it, one on *)
(* a run if the run does; the effect comes later.  A request works on the  *)
(* object that get_run gave it and puts that one into _RUNS.               *)

Begin(c, state) ==
  /\ At(c, "idle")
  /\ decisions < MaxDecisions
  /\ decisions' = decisions + 1
  /\ Go(c, state)
  /\ UNCHANGED <<created, byHand, asked, work, repository, github, report, faults, crashes>>

Keeping(c) == UNCHANGED <<created, byHand, work, repository, counts>>

\* get_run: the object in memory, or a copy of the file that nobody else knows.
Own(c, r) == IF held[r] = Nobody THEN c ELSE held[r]
Load(c, r) ==
  /\ object' = IF held[r] = Nobody THEN [object EXCEPT ![r][c] = file[r]] ELSE object
  /\ UNCHANGED <<held, file>>

\* create_pull_request_for_run, up to the push.
BeginPush(c, r, some) ==
  /\ branch[r] # "none" /\ Status(r) # "no_defects"
  /\ Begin(c, [at |-> "push", run |-> r, defect |-> some, own |-> Own(c, r)])
  /\ Load(c, r)

\* A decision that record_decision has yet to take.
Decide(r, some, action) == [at |-> "decide", run |-> r, defect |-> some, action |-> action]

\* decide_report approve: the pull request is made if this defect's repair was applied.
BeginApprove(c, r, d) ==
  /\ report[r][d] = "awaiting"
  /\ IF d \in applied[r] /\ Known(r).pr = "none"
     THEN BeginPush(c, r, {d})
     ELSE Begin(c, Decide(r, {d}, "approve")) /\ UNCHANGED run

BeginReject(c, r, d) ==
  /\ report[r][d] = "awaiting"
  /\ Begin(c, Decide(r, {d}, "reject")) /\ UNCHANGED run

\* A return starts a run of its own and marks the report afterwards.
BeginReturn(c, r, d) ==
  /\ report[r][d] = "awaiting" /\ Room
  /\ Begin(c, [at |-> "register", locked |-> FALSE, report |-> <<r, d>>]) /\ UNCHANGED run

\* api_create_pull_request, for any run with a branch.
BeginPullRequest(c, r) ==
  /\ Status(r) # "absent" /\ Known(r).pr = "none"
  /\ BeginPush(c, r, {})

\* api_record_decision looks at the status and leaves the rest to record_decision.
BeginDecision(c, r) ==
  /\ Status(r) = "awaiting_human"
  /\ \E action \in {"approve", "reject", "rerun", "merge"} : Begin(c, Decide(r, {}, action))
  /\ UNCHANGED run

\* The branch is pushed and the pull request opened; GitHub takes one of a branch.
OpenPullRequest(c) ==
  LET r == client[c].run IN
  /\ At(c, "push")
  /\ branch[r] = "there" /\ github[r] = "none"
  /\ github' = [github EXCEPT ![r] = "open"]
  /\ Go(c, [client[c] EXCEPT !.at = "record"])
  /\ UNCHANGED <<run, asked, report>> /\ Keeping(c)

Concluding(c) ==
  IF client[c].defect = {} THEN Idle ELSE Decide(client[c].run, client[c].defect, "approve")

\* A failed push is not told from a good one.
PushFails_Approves(c) ==
  /\ At(c, "push")
  /\ Go(c, Concluding(c))
  /\ UNCHANGED <<run, asked, github, report>> /\ Keeping(c)

\* No branch, no connection, or GitHub refuses: the decision is not taken.
PushFails(c) ==
  /\ At(c, "push")
  /\ Go(c, Idle)
  /\ UNCHANGED <<run, asked, github, report>> /\ Keeping(c)

RecordPullRequest(c) ==
  LET r == client[c].run
      o == client[c].own
  IN
  /\ At(c, "record")
  /\ Put(r, o, [object[r][o] EXCEPT !.pr = "open"])
  /\ Go(c, Concluding(c))
  /\ UNCHANGED <<asked, github, report>> /\ Keeping(c)

\* record_decision takes the run, without the lock under which it puts it back.
Take(c) ==
  LET r == client[c].run IN
  /\ At(c, "decide")
  /\ Load(c, r)
  /\ Go(c, [at |-> client[c].action, run |-> r, defect |-> client[c].defect, own |-> Own(c, r)])
  /\ UNCHANGED <<asked, github, report>> /\ Keeping(c)

Mark(r, some, verdict) ==
  report' = [report EXCEPT ![r] = [d \in Defects |-> IF d \in some THEN verdict ELSE @[d]]]

\* record_decision approve: the run is put in _RUNS and saved as it is.
Approve(c) ==
  LET r == client[c].run
      o == client[c].own
  IN
  /\ At(c, "approve")
  /\ Put(r, o, object[r][o])
  /\ Mark(r, client[c].defect, "approved")
  /\ Go(c, Idle)
  /\ UNCHANGED <<asked, github>> /\ Keeping(c)

\* record_decision reject: an active run is asked to stop, and the run is cancelled.
Reject(c) ==
  LET r == client[c].run
      o == client[c].own
  IN
  /\ At(c, "reject")
  /\ asked' = IF object[r][o].status \in Active THEN asked \cup {r} ELSE asked
  /\ Update(r, o, "cancelled")
  /\ Mark(r, client[c].defect, "rejected")
  /\ Go(c, Idle)
  /\ UNCHANGED github /\ Keeping(c)

Returned(c) ==
  /\ At(c, "mark")
  /\ Mark(client[c].report[1], {client[c].report[2]}, "returned")
  /\ Go(c, Idle)
  /\ UNCHANGED <<run, asked, github>> /\ Keeping(c)

\* record_decision puts the run in _RUNS before rerun_verification or the merge
\* looks whether it may be done.
Rerun(c) ==
  LET r == client[c].run
      o == client[c].own
  IN
  /\ At(c, "rerun")
  /\ IF branch[r] # "none" /\ object[r][o].status \notin Active /\ r \in trees
     THEN Update(r, o, "verifying") /\ Go(c, [client[c] EXCEPT !.at = "verifying"])
     ELSE Hold(r, o, object[r][o]) /\ Go(c, Idle) /\ UNCHANGED file
  /\ UNCHANGED <<asked, github, report>> /\ Keeping(c)

RerunEnds(c) ==
  /\ At(c, "verifying")
  /\ \E new \in {"succeeded", "awaiting_human"} : Update(client[c].run, client[c].own, new)
  /\ Go(c, Idle)
  /\ UNCHANGED <<asked, github, report>> /\ Keeping(c)

\* An exception leaves the run as it is.
RerunFails(c) ==
  /\ At(c, "verifying")
  /\ faults < MaxFaults
  /\ faults' = faults + 1
  /\ Go(c, Idle)
  /\ UNCHANGED <<created, byHand, run, work, asked, repository, github, report,
                 decisions, crashes>>

BeginMerge(c) ==
  LET r == client[c].run
      o == client[c].own
  IN
  /\ At(c, "merge")
  /\ Hold(r, o, object[r][o])
  /\ Go(c, IF object[r][o].status \notin Active /\ object[r][o].pr # "none"
           THEN [client[c] EXCEPT !.at = "merging"] ELSE Idle)
  /\ UNCHANGED <<file, asked, github, report>> /\ Keeping(c)

Merge(c) ==
  LET r == client[c].run
      o == client[c].own
      known == object[r][o]
  IN
  /\ At(c, "merging")
  /\ \/ /\ github' = [github EXCEPT ![r] = "merged"]
        /\ Put(r, o, [status |-> IF known.status = "cancelled" THEN "cancelled" ELSE "succeeded",
                      pr |-> "merged"])
     \/ UNCHANGED <<github, run>>       \* GitHub refuses
  /\ Go(c, Idle)
  /\ UNCHANGED <<asked, report>> /\ Keeping(c)

\* cancel_run knows the runs in memory only; nobody reads the wish without a thread.
Cancel(r) ==
  /\ held[r] # Nobody
  /\ loop[r] \notin {"none", "end", "over"}
  /\ asked' = asked \cup {r}
  /\ UNCHANGED <<created, byHand, run, work, repository, github, report, client, counts>>

Serve(c) ==
  \/ Register(c) \/ RegisterFails(c) \/ Sweep(c) \/ SweepFails(c)
  \/ OpenPullRequest(c) \/ PushFails(c) \/ RecordPullRequest(c)
  \/ Take(c) \/ Approve(c) \/ Reject(c) \/ Returned(c)
  \/ Rerun(c) \/ RerunEnds(c) \/ RerunFails(c) \/ BeginMerge(c) \/ Merge(c)

Ask(c) ==
  \/ StartByHand(c)
  \/ \E r \in Runs : BeginPullRequest(c, r) \/ BeginDecision(c, r)
  \/ \E r \in Runs, d \in Defects :
       BeginApprove(c, r, d) \/ BeginReject(c, r, d) \/ BeginReturn(c, r, d)

\* Threads, objects and requests are gone; files, branches and GitHub are not.  The
\* name of a branch is saved with the status after "preparing": before, nobody knows it.
Restart ==
  /\ crashes < MaxCrashes
  /\ crashes' = crashes + 1
  /\ held' = [r \in Runs |-> Nobody]
  /\ object' = [r \in Runs |-> [o \in Objects |-> Blank]]
  /\ loop' = [r \in Runs |-> "none"]
  /\ asked' = {}
  /\ client' = [c \in Clients |-> Idle]
  /\ branch' = [r \in Runs |-> IF file[r].status = "preparing" THEN "none" ELSE branch[r]]
  /\ UNCHANGED <<created, byHand, file, round, found, applied, trees, github, report, decisions,
                 faults>>

Next ==
  \/ \E c \in Clients : StartIfIdle(c) \/ Ask(c) \/ Serve(c)
  \/ \E r \in Runs : RunLoop(r) \/ Cancel(r)
  \/ Restart

Spec == Init /\ [][Next]_vars

\* Threads are scheduled, requests answered, and the daily watch goes on asking.
FairSpec ==
  /\ Spec
  /\ \A r \in Runs : WF_vars(RunLoop(r))
  /\ \A c \in Clients : WF_vars(Serve(c)) /\ WF_vars(StartIfIdle(c))

-----------------------------------------------------------------------------
Working(r) == loop[r] \notin {"none", "handover", "end", "over"}

\* In memory the run is active, and neither its thread nor a request is at work on it.
Undriven(r) ==
  /\ Memory(r) \in Active
  /\ loop[r] \in {"none", "end", "over"}
  /\ \A c \in Clients : client[c].at \in {"sweep", "verifying"} => client[c].run # r

\* A step puts another copy, read from the run's file, in the place of the run's object.
Adopted(r) == held'[r] # held[r] /\ held'[r] \in Clients

\* A human's cancellation stands against the thread, a verification that was under
\* way and a merge; only a copy read from the file before it can undo it, when the
\* cancelled one is a copy too.
CancelStands ==
  [][\A r \in Runs :
       Memory(r) = "cancelled" /\ Memory(r)' # "cancelled" =>
         (Adopted(r) /\ held[r] # Thread) \/ crashes' # crashes]_vars

\* A run that looks active has a thread or a request at work on it; one without
\* comes from a file whose work a restart ended, or a start or a verification raised.
DrivenUnlessAdopted ==
  [][\A r \in Runs : ~Undriven(r) /\ Undriven(r)' => Adopted(r) \/ faults' # faults]_vars

\* Two threads repair the repository at once only if one of the runs was started by
\* hand or by a return: the watch and the conductor never start beside another.
AloneUnlessByHand ==
  \A r, q \in Runs : r # q /\ Working(r) /\ Working(q) => {r, q} \cap byHand # {}

\* The cleanup takes nothing from a thread at work, from the newest runs, or from a
\* pull request that was open when it looked.
SweepIsCareful ==
  [][\A r \in Runs :
       r \in trees \ trees' \/ (branch'[r] = "gone" /\ branch[r] # "gone")
       => /\ ~Working(r)
          /\ created - r >= Keep
          /\ branch'[r] = "gone" /\ branch[r] # "gone" =>
               \E c \in Clients : At(c, "sweep") /\ r \notin client[c].open]_vars

\* An approved report whose repair was applied has its pull request at GitHub, whatever
\* else was decided, failed or restarted in between; and the run knows it while it is
\* known by its thread's object, which no copy read from the file ever replaces.
ApprovedFixWasSent ==
  \A r \in Runs : \A d \in applied[r] :
    report[r][d] = "approved" =>
      /\ github[r] # "none"
      /\ held[r] = Thread => Known(r).pr # "none"

\* A run does not look active for ever, unless nobody is left to drive it.
RunsEnd ==
  \A r \in Runs : Status(r) \in Active ~> (Status(r) \notin Active \/ Undriven(r))

=============================================================================
