# WebSpec2Doc: TLA+ models, model checking and proofs

WebSpec2Doc crawls a web site, reverse-engineers its screens, forms and transitions into
specifications, and drives an eight-stage test design and test automation pipeline behind a Flask
application. This directory holds the TLA+ development of its concurrent and stateful core.

The crawler runs in a child process of the web application. It walks the site with one or more
threads that share a frontier, a visited set and a page budget, and writes a partial snapshot after
each page so that an interrupted crawl keeps what it found. The web application starts crawls from
requests, from a scheduler thread and from the automatic run pipeline, whose worker thread stops at
approval gates that request handlers release. Other threads repair a connected repository, conduct
the steps of a site's goal, analyse the impact of a change request and watch the child process of a
back-end test. Each part keeps its state in dictionaries guarded by locks, in events, in JSON files
that are read, changed and written back, and in two SQLite files.

## 1. The system and its parts

Paths are relative to the repository: `src/crawler/...` is the Python package of the crawler,
`web/...` the Flask application. Ten parts are modelled; the others are listed in 1.11.

| Part | Processes and threads | Shared state | Guarded by |
|---|---|---|---|
| Parallel crawl | n crawler threads, the calling thread, a signal handler | frontier, visited, results, in_flight, last checkpoint | one `Condition`, one lock for checkpoints |
| AutoRun job | one worker thread per run, request handlers, child processes | the `AutoRunJob` object | one lock for the table of jobs; the object itself has none |
| Stage approval | the AutoRun worker, request handlers | `stages.json` of a site, the job's gate | nothing for the file; the job's lock for the release |
| Scheduled crawls | one scanning thread, request handlers, the server's restarts | `schedule.json` of each site | nothing |
| Crawl job queue | request handlers, one thread and one child process per job, restarts | the table of jobs, the gauge | one lock |
| Healing runs | one thread per run, request handlers, a daily watch, restarts | runs in memory and in files, branches and worktrees, pull requests at GitHub | a lock around the start, one around each status |
| Conductor | one thread per run, callers, the work of the agents, restarts | runs in memory and in files, cancel events | a lock around the start |
| Impact analysis jobs | one thread per analysis, request handlers, restarts | change requests, impacts and jobs in a SQLite file | transactions for writes only |
| Accounts and tenants | request handlers | users, memberships, sessions and tokens in a SQLite file | transactions |
| Back-end tests | request handlers, a watching thread and a child per run, restarts | `job.json` per job, a registry of runs, a marker per tenant, `run.json` per run | a lock around the registry; nothing for the files |

How they interact:

- The crawler is a child process of the web application: started by the job queue, by the scheduler
  and by the AutoRun worker. It leaves a snapshot in the site's directory. That file is why
  `StageGates` sees "a previous snapshot" during a site's first run, and why two crawls of one site
  side by side (`JobQueue`) matter.
- The AutoRun worker presents the design stages (`stages.json`) one by one and waits at a gate after
  each. Handlers change the stages and open gates. `AutoRunJob` has the gate in single reads and
  writes of the job and no stages; `StageGates` has the stages in single reads and writes of the
  file and a gate of one step.
- The queue, the scheduler and the AutoRun worker do not know of each other's crawls.
- The conductor works through agents: a step's work is a test run (a child process) or a healing run
  (a thread, started with `start_run_if_idle` and read through `get_run`). `Conductor` sees the work
  as running or over, with the answers its agent makes of it; that a repair never starts beside
  another one is the guard of `Launch`, and `HealingRuns` shows what it rests on
  (`AloneUnlessByHand`).
- Accounts decide per request who asks; the other parts take requests as coming from anybody
  entitled.

### 1.1 Parallel crawl (`src/crawler/parallel_crawler.py`)

State: the frontier, the set of visited addresses, the results by reservation number, the counters
`in_flight` and `dispatched`, the errors, `internal_stop`, and the checkpoint last written.
Operations: reserve an address, crawl it, finish it (queue its links, copy the results), write a
checkpoint, record an exception and stop the others, a stop request, the final join. Hard: the
budget is shared; an address may be queued many times before it is visited; a worker may die with a
reservation in its hands; checkpoints are copied under one lock and written under another; a worker
without work may not leave while another may still bring some. Correct when: the budget is never
exceeded, no address is requested twice, the checkpoint only grows and is complete at the end, the
crawl follows every admissible link within its limits, and it ends.

### 1.2 AutoRun job (`web/services/auto_run_pipeline.py`, `auto_run_job.py`, `web/routes/auto_run.py`)

State: the job's status, end, cancel flag, notification flag, child process, input, gate event and
the gates passed unseen. Operations: the phases of the worker (discover, login, crawl, QA, gates,
scripts, tests), `register_proc`, `cancel`, `submit-input`, `release_stage_gate`,
`release_all_stage_gates`. Hard: the worker and the handlers share the object without a lock, so a
cancel request and the start of a child can miss each other; an event is set for a gate that may be
over; a wait must end without anybody; two parties end the run at once. Correct when: no child
escapes a cancel, a release opens one gate, the run ends, and a final status is final (but for
overlapping requests; 4.2).

### 1.3 Stage approval (`web/routes/autorun_stages.py`, `src/autorun/stages.py`)

State: of each stage its status, of the items of a stage whether each is approved, the audit, the
rerun flag; the gate the job shows. Operations: the worker's generation of a stage; approve, skip,
generate, items, reset, confirmation of the run conditions, proceed. Hard: all of them read the
whole file, change a copy and write the whole file; `proceed` checks the stages, asks for the gate
and releases it in separate steps. Correct when: the audit explains the file, nothing proceeds past
an unfinished stage (one for each overtaken request may; 4.3), tests start only after an approval
(they may not; 4.3), and only a rerun skips (not always; 4.12).

### 1.4 Scheduled crawls (`web/services/scheduler.py`, `web/routes/schedule.py`)

State: `schedule.json` of each site: settings, last run, next run. Operations: a scan of all sites,
moving a slot that fell outside its window, writing the timestamps and crawling with retries; saving
settings, `run-now`, a restart. Hard: one thread crawls one site after another, for up to an hour
each; the clock is read once per scan; both sides read, compute and rewrite the file; a write may
fail or be torn by a crash; windows may run overnight and weekdays may be excluded. Correct when: no
slot runs twice, the next run always lies in its window, no due site waits for ever, runs start in
their window (not always) and run-now runs (it does not; both 4.12).

### 1.5 Crawl job queue (`web/services/job_queue.py`, and the handlers of `web/routes/api_v1.py`, `web/routes/ta2.py`)

State: jobs with site and status, each with a thread and a child process, and the gauge. Operations:
the handler's check for an unfinished job, `start_crawl_job`, the thread's steps, the callback.
Hard: check and start are two critical sections; the oldest jobs are evicted whatever their status,
and the oldest is the one with the least `started_at`, a second of the wall clock read before the
lock; an exception may arrive before or after the callback; a restart forgets jobs whose processes
go on. Correct when: an unfinished job is evicted only under a crowd of requests or odd clock
readings, the gauge lies between the jobs that can be found and all unfinished ones, each callback
is called at most once and at the end, a site is open again when its crawl is over, and two crawls
of a site run side by side only if one request overtook another or the first job cannot be found any
more.

### 1.6 Healing runs (`web/services/healing/orchestrator.py`, `web/routes/healing.py`)

State: of each run its object in memory and its file, its thread, iteration, defects, merged
repairs, branch, worktree, pull request, and a report per defect. Operations: starting a run (by
hand, by a returned report, or by the watch and the conductor, which first ask whether one is
active), the loop prepare, verify, analyse, fix, reverify, the cancellation, the decisions on a run
(approve, reject, rerun, merge) and on a report (approve, reject, return), pull requests, the
reaping of orphans, the cleanup of branches and worktrees. Hard: a decision takes effect steps after
it was checked, while the loop goes on; a run that is not in memory is read from its file and put
back, also over what another request has written meanwhile; a start may fail after the run is known;
the cleanup works on files read earlier; branches, worktrees, GitHub, files and memory fail apart.
Correct when: a cancelled run stays cancelled, a run that looks active is worked on, unasked starts
are never two at once, an approved repair has its pull request (in the run too, while no copy read
from the file is about), and the cleanup takes nothing in use.

### 1.7 Conductor (`web/services/orchestration/conductor.py`)

State: of each run its status, step, the record of each step, whether a human is asked for, its
thread, cancel event and the handle of its work. Operations: `start_if_idle`, the steps (start the
agent, look every ten seconds, settle), carrying a human's turn over the rounds, the deadline of two
hours, the cancellation, the orderly end of the server. Hard: the work goes on when its step is
given up; it has no handle until `agent.run` returns; a step's result means different things in the
last round and before. Correct when: one run of a site at a time, nothing left running without a
word to it, a success means success, every run that got its thread ends (4.12).

### 1.8 Impact analysis jobs (`web/services/impact`)

State: a change request (CR) with its status, its impacts with what people made of them, jobs and
their cancel flags. Operations: start, run, cancel and fail an analysis; move the CR through review;
decide on an impact; recover jobs a restart left. Hard: reads are outside the transactions of the
writes; an analysis replaces the impacts while people review them; the recovery is done by whichever
request comes first. Correct when: what passed review has nothing undecided, decisions outlive an
analysis that finds the item through the same changes, an ended job stays ended, an unfinished one
has somebody to end it, or an error has kept it from that (4.12).

### 1.9 Accounts and tenants (`web/services/auth_store.py`)

State: users, tenants, roles, sessions with the tenant each has chosen, tokens. Operations: creating
and deleting users and tenants, changing roles, memberships, passwords and activity, logging in and
out. Hard: every operation must see to the sessions and the administrators it affects elsewhere.
Correct when: sessions are members', deactivated users are out, a tenant keeps an administrator.

### 1.10 Back-end tests (`web/services/backendtest`, `web/routes/backend_test*.py`)

State: per job the stages with status and mark "out of date", the list of runs, the runs the report
was made from; the registry of runs, the slot and the marker of each tenant, `run.json`. Operations:
generate, approve, reject, new material; start, watch, poll and cancel a run; judge; recovery. Hard:
each handler reads the whole file, works, and writes its copy back; a run ends in memory, on disk
and in the job's file at three times; ids are unique in a job only. Correct when: what is not marked
rests on approved stages, a report covers the ended runs of its own list, an active run can be
settled, a tenant runs one at a time and gets free again.

### 1.11 Parts that are not modelled

| Part | Why |
|---|---|
| Politeness (`src/crawler/politeness.py`) | planned: token buckets per origin; `ParallelCrawl` takes a fetch as one step |
| Explicit address lists and wave-by-wave discovery (`crawl_urls_parallel`, `discover_pages_parallel`, `page_crawler.py`) | threads that share a work queue and write slots of their own; the second is planned as another implementation of `Traversal` |
| Reading a page, login, recording | the state is the browser's |
| Command line (`src/main.py`) | one thread, a fixed order of steps; its stop request and its checkpoints are in `ParallelCrawl` |
| Document generators, drift, analysis, model-based tests, QA documents, test design (AutoRun, back-end, batch) | pure transformations of one document into another; what matters is their rules for texts |
| Impact engine | scores of texts against texts; to the jobs it is a choice of the items it finds |
| Language models, Jira, Confluence, Notion, notification | single requests to services, nothing kept |
| Login pages and guards, viewpoints | read what `Accounts` keeps; single SQLite transactions per request |
| Test automation, test execution | one file per site, a child process and its report; the handler that starts a recrawl is in `JobQueue`, the AutoRun's test process in `AutoRunJob` |
| Batch tests | like the back-end tests, in a file per job and without runs |
| Run records, retention, audit log, metrics | written once, removed by age, or counted |
| Document verification and assurance | rules over texts, one request at a time |
| Pages and scripts, vendored code, demonstrations, tools | no state the server relies on |

## 2. The modules

| Module | Models | Uses |
|---|---|---|
| `CrawlSite` | a site's links, the limits, the links queued after a page | |
| `Traversal` | the abstract crawl: what any link-following crawl promises | `CrawlSite` |
| `ParallelCrawl` | `crawl_site_parallel`, and its mapping to `Traversal` | `CrawlSite`, `Traversal` |
| `AutoRunJob` | the worker of one run and its handlers | |
| `StageGates` | `stages.json` between the worker and the handlers | |
| `ExecutionWindow` | when a schedule may run, as functions | |
| `Scheduler` | the scanning thread and the schedule's handlers | `ExecutionWindow` |
| `JobQueue` | the crawl jobs | |
| `HealingRuns` | the repair runs of a repository and what people decide on them | |
| `Conductor` | the runs of a site's goal over the work of the agents | |
| `ImpactJobs` | the analyses of a change request and its review | |
| `Accounts` | the account store | |
| `BackendStages` | a back-end job's file and the pure functions on it | |
| `BackendTests` | its handlers, the runner and the registry | `BackendStages` |
| `MC...` | small sites, small schedules, symmetry for TLC | |
| `CrawlStartsProofs` | the theorems of `Scheduler`, `ExecutionWindow` and `JobQueue` | TLAPS and its libraries |
| `TenantsProofs` | the theorems of `Accounts`, `BackendStages` and `BackendTests` | TLAPS |
| other `...Proofs` | the theorems of the module they are named for | TLAPS and its libraries |

`CrawlStartsProofs` and `TenantsProofs` each hold two parts, of which a module can be extended
together with the other one: that is why `JobQueue` and `Accounts` call their behaviour `QueueSpec`
and `AccountsSpec`, their state `queue` and `store`, and their types `QueueTypeOK` and
`AccountsTypeOK`, where the other modules say `Spec`, `vars` and `TypeOK`.

Throughout, an action is a critical section, or a stretch of code between two reads or writes that
another thread can see, and carries the name of the function or of the step it stands for. Operators
whose name has the form `Operation_Slip` are faulty variants of the operation that follows them,
each a plausible programming error. They are in no behaviour of a specification; replacing the
operation by one of them makes a named property fail, which shows that the property has something to
say.

### 2.1 `ParallelCrawl`

`pc` is where each thread is. `Reserve` is the critical section of `reserve_task` when it finds an
admissible address; `DrainAndWait` when it removes the inadmissible ones and goes on waiting (the
code polls every 0.2 s, so waiting is being disabled and no notification can be missed);
`NoMoreWork` when it leaves. `StartPage` is the callback and the rate limiter, which stand *between*
the reservation and the `try`: if one raises, the slot is never given back. `CrawlPage` yields a
page, nothing, or an exception. `FinishTask` and `TakeSnapshot` are the two halves of `finish_task`;
`WriteCheckpoint` the callback under `checkpoint_lock`. `RecordError` and `HaltOthers` are the error
path; `AskStop` is the signal handler of `src/main.py`; `JoinWorkers` decides whether the crawl
raised, was cancelled or was completed. Abstractions: addresses are model values and links a
sequence per page; the code also leaves out of the queue the links already visited, which only
shortens the queue, because they are rejected when they are popped; progress totals and file names
are left out.

`Traversal` promises: pages are taken once, only when a page obtained links to them within the depth
limit, within the budget; and a crawl that ends "completed" with budget left has followed every
admissible link. The mapping takes `visited`, the tasks of busy workers, the results and the
outcome.

### 2.2 `AutoRunJob`

`pc` names the line of the worker, `canceller`, `submitter` and `releaser` those of the requests.
The lines matter because nothing is locked: `register_proc` stores the child and then looks at
`_cancelled`, while `cancel` sets `_cancelled` and then looks at the child; `SetStatus` and
`finished_at` are two writes; the wait at a gate is clear, show, wait, look. Each child is a process
that may end at any time, and one that has been waited for is "none". `cancel` ends the child it
sees (terminate, five seconds, kill); `register_proc` and the crawl's reader only send SIGTERM
(`signalled`), after which the child may go on: the handler of `src/main.py:89` sets a flag that its
discovery and its login never look at. There is one job, one cancel request and one login answer;
`inputData` only says whether there is one; `unverified` holds only the gates passed unseen. The
phase of the mode that starts from documents is one more phase that may fail and is folded into QA.
The analyses after the end change nothing that is modelled. `/api/autorun/approve` waits for a
status that nothing sets.

### 2.3 `StageGates`

`LoadStages`, `SaveStage` and the waiting of the worker; of a handler `Receive` (read), then one
action per kind of request which checks and writes (or refuses), and for `proceed` the three steps
check, release, record. A write of the worker may fail: it logs that and goes on (`SaveStage`,
`SavePublished`); a handler whose write fails answers with an error (`Refuse`). A stage is its
status and the last entry of the audit that set one; `items` are those of the stage that wants each
item approved. The worker's look at `stages_all_released` and its write are one step. Four history
variables only serve the property of the barrier: `since`, the gate shown when a request read the
file, with nobody else having written since; `settled`, whether the stage of the gate shown has been
done while it is shown; `late` and `bare`, which count overtaken releases and gates opened with
their stage never done.

### 2.4 `ExecutionWindow` and `Scheduler`

Time is counted in units of the wall clock of one zone; a day has `DayLength` of them, and there is
no daylight saving. `NextAllowed`, `NextRun` and `Postponed` are `_next_allowed_datetime`,
`_calc_next_run_at` and `_reschedule_missed_window`; `InWindow` says what a window means without the
search and is used by the properties only. `Postponed` is the loop of at most `PostponeLimit` rounds
(370 in the code) as the sequence of its slots and the first of them at which it stops. Of the
thread: `StartScan` (the one reading of the clock), `CheckSite`, `Postpone`, `Persist`, `Crawl`,
`EndScan`. A failed write is a fault; the scheduler's own file replaces the old one whole, the
handler's is written in place (`BeginSave`, `EndSave`), so that a `Restart` between the two leaves a
torn file. Time passes in `Tick`, between scans and while a crawl or its back-off lasts; a request
is handled within a unit of time, and one at a time. `run` remembers each site's last scheduled run,
for the properties.

### 2.5 `JobQueue`

Jobs are numbered as they are registered. `Check` and `Register` are the two critical sections of a
request; `Register` starts a job, publishes the gauge and evicts of its site so that `MaxJobs` are
never exceeded, in the order of the code and under its lock. What is evicted is decided by
`started_at` (`stamp`, `Behind`): a second of the wall clock, read before the lock is taken, so that
any value of `Seconds` is possible whatever earlier jobs have, and of equal ones the order of
registration, which Python's sort keeps. The thread of a job is `RunJob`: `Begin`, `Launch` or
`LaunchFails` (an `OSError`), `Finish` once the process has ended or `Undecodable` (an exception
nobody catches, which leaves the job running), and `Notify`, which calls the callback and keeps what
it raises to itself. `ChildEnds` is the process. `RestartServer` empties the memory and leaves the
processes. Logs, the drift notification, the scope and the requester kept beside a job are left out.
A thread that cannot be created leaves its job queued (`Register`, second alternative).

### 2.6 `HealingRuns`

`loop` names where each run's thread is; it looks for a cancellation only at the places of `Stop`. A
run exists in several objects: the one `start_run` made and its thread works on, and after a restart
a copy for each request that reads its file. `object` holds them, `held` says which of them is in
`_RUNS` (or nobody), `file` is what is saved; `Known` is what `get_run` returns, `Load` and `Own`
what a request gets from it, `Hold` the write to `_RUNS`, `Put` that and the save, and `Update` is
`_update`, which keeps "cancelled". `record_decision` takes its object without the lock (`Take`) and
puts it into `_RUNS` steps later (`Approve`, `Reject`, `Rerun`, `BeginMerge`), so that a copy of one
request can replace one in which another has recorded a pull request meanwhile. A request is a
record in `client`: checked first (`Begin...`), then one action per effect (`OpenPullRequest`,
`RecordPullRequest`, `Approve`, ...). `Register` and `Sweep` are the two halves of `start_run`;
`RegisterFails` and `SweepFails` are a first save and a start of the thread that raise, which leave
the run queued in `_RUNS` and without a thread. `Restart` empties memory and threads and leaves
files, branches and GitHub; a branch whose name was not yet saved is forgotten. A decision on a
bundle (`api_decide_bundle`) is a decision on each of its reports in turn. Abstractions: one
repository; which defects a verification finds and which repairs are merged is any set; the save of
`_update` and of a decision, which is outside the lock, is merged with the write before it (no
property says anything of the pull request in a file); the second `get_run` of `rerun_verification`
is merged with the put before it; a pass of the orphans is one step; lists of 200 runs are never
reached. A pull request is merged or closed by nobody outside, and a cancel request without a thread
to read it is left out, since it has no effect. `dulwich` deletes a branch that is checked out all
the same.

### 2.7 `Conductor`

`loop` is where each run's thread is, `work` what its step's agent is doing, `told` the work that
was asked to stop. `Settle` is `_settle` with every meaning of a result; `Carry` is a separate step,
because the code saves in between and a crash there loses the request for a human. `Launch` and
`Receive` are the two sides of `agent.run`: no handle in between. `Unreadable` is a state of the
work that cannot be read, for instance because its file is being rewritten in place. `StartFails` is
a start whose save raises or whose thread cannot be created: the run is in `_RUNS` by then, and its
place (`Stillborn`) says which of the two; one that was never saved is gone after a restart. `blind`
says which runs lost sight of their work and serves properties. Abstractions: the file of a run and
its object are one, apart from what a restart loses; the deadlines of the agents themselves are part
of `WorkEnds`; a cancellation that comes after the last look is recorded in `event` and has no
effect.

### 2.8 `ImpactJobs`

One change request. A read that decides and a write are separate actions, a transaction is one.
`thread` is where the thread of a job is, `req` what a request is doing. `OpenDb`,
`SelectUnfinished` and `Recover` are the recovery by the first request; `_RECOVERED.add` is merged
with the transaction before it. `StartFails` is what may go wrong between the committed row of a job
and its thread: the status of the change request cannot be written, or the thread cannot be started.
An impact is recognised by its item and the changes it was found through (`Keys`, of `Items` and
`Ways`, a way being a set of changes), and an analysis finds an item through one set of changes
(`Findings`). `Save` replaces all impacts by new rows with the decisions of those found again
through the same changes, so that a decision about to be written finds its row gone (`row`). The
three looks at the cancel flag before the old impacts are read are one step. `decided`, `late` and
`overlap` are history; `decided` says of each analysis which decisions were made, or put back by
another analysis' save, after it had read the old ones (`Missed`). Left out: roles and who may
approve, the editing of texts, the records after the change, the migration of an older store.

### 2.9 `Accounts`

One action per operation of `AuthStore`, each one `BEGIN IMMEDIATE` transaction; a login is two,
`Authenticate` and `CreateSession`. `MayLeave` is `_guard_last_admin_removal`, the guard of
`UpdateUser` the narrower check of `update_user`. A session keeps its row when it is revoked
(`live`); `late` marks one whose user was deactivated between the two steps of the login. Left out:
the first set-up, wrong passwords and locking, expiry, names, audit rows.

### 2.10 `BackendStages` and `BackendTests`

`BackendStages` has the functions of `stages.py` and `run_prep.py` on one job: `Generate`,
`Approve`, `Reject`, `Reread`, `WithRun`, `FinishStage`, `Judge`, and `Outdate`, which marks what
was made later. `BackendTests` has the handlers: each takes a copy of the file (`Begin`) and writes
it back at the end (`Save`, `Record`, `Poll`, `Stopped`). Loading and computing are one step, since
only the write is seen by others. `Reserve`, `Launch` and `Close` are the critical sections of the
runner; `mem`, `disk` and the job's list are the three places where a run's status is kept;
`registry` is `_RUNS`, by id; `used` is the ids of each job's folders, and a new one is any that
comes after all of them (`NewIds`), because a later day begins with a number of its own. `Finish`
and `WriteEnd` are the watching thread, `closing` the time between. Abstractions: of the ends of a
run "done" stands for done, cancelled and timed out; the order of the list is kept as its last
entry; `early` remembers that a run was already over when it was first recorded; the look at a run's
status and the write of the job are one step; requests that would change nothing are left out, with
artifacts, versions, roles, audit, and deleting or purging jobs.

## 3. The plan

| Step | Module | State |
|---|---|---|
| 1 | `CrawlSite`, `Traversal`, `ParallelCrawl`: the crawl; type, budget, uniqueness, checkpoints and the refinement proved | done |
| 2 | `AutoRunJob`: the worker and its handlers; type, cancel, gates and ends proved | done |
| 3 | `StageGates`: the file between worker and handlers; type, audit and barrier proved | done |
| 4 | `ExecutionWindow`, `Scheduler`: type, windows and the distance of runs proved | done |
| 5 | `JobQueue`: type, eviction, gauge, notices and overtaking proved | done |
| 6 | `HealingRuns`: loop, cancelling, decisions, reports, orphans, cleanup, restarts; all safety properties proved | done |
| 7 | `Conductor`: the steps over the work of the agents; all safety properties proved | done |
| 8 | `ImpactJobs`: check and insertion, review, cancelling, recovery; all properties proved | done |
| 9 | `Accounts`: all properties proved | done |
| 10 | `BackendStages`, `BackendTests`: stages, reports, one run of a tenant and settling proved | done |
| 11 | `WaveDiscovery`: `discover_pages_parallel` as an implementation of `Traversal`, compared with the serial discovery | planned |
| 12 | `TokenBucket` (`src/crawler/politeness.py`): requests of one origin in any interval | planned |

## 4. What is checked

Every run is a `.cfg` of the same name. The bounds are constants of the modules and named there; all
are bounds on how often something happens (requests, faults, crashes, starts, time), not on what may
happen in between. `CHECK_DEADLOCK FALSE` stands where the system really stops: the crawl and the
run end, the stages end at the tests, the queue when every job allowed was started, a change request
when it is rejected or verified, a back-end job when every stage is approved. The scheduler, the
conductor's and the repairs' callers and the accounts never stop, and their runs check for deadlock.
A property that names an exception ("unless ...") names a behaviour of the code that TLC finds when
the exception is removed; 4.12 says what it is.

### 4.1 `ParallelCrawl`

Two workers on a site of five pages: two pages with a common child, a repeated link, cycles, and a
page `robots.txt` excludes; depth 2 and a budget of 3 of the 4 pages that may be crawled, so that
the budget, the depth limit and an empty frontier each end some crawl. Any page may fail, any worker
may die at any of its steps, a stop request may come at any time.

| Property | Says |
|---|---|
| `PageBudget` | pages obtained and in flight never exceed `--max-pages`, and every busy worker is counted, also after an exception leaked a slot |
| `NoPageTwice` | no address is requested twice, by one worker or by two, and no result is overwritten |
| `LastCheckpointComplete` | after the join without an error, the last checkpoint holds every page |
| `ImplementsTraversal` | the workers together are a `Traversal` (2.1); "completed" is never claimed with a link left behind |
| `Terminates` | the crawl ends |

Two workers are enough for every race of the code, whose critical sections name no third; with one
reservation leaked, the other worker meets it alone.

### 4.2 `AutoRunJob`

Two design gates and the last one, one release, one confirmation of the run conditions, one login
answer, one cancel request, every interleaving of single reads and writes. One release and several
gates are what a release for the wrong gate needs.

| Property | Says |
|---|---|
| `NoOrphanProcess` | once `cancel` is past its look at the child, a discovery, login or test process that still runs is one whose worker is about to find the flag, or one that was told to end and whose worker waits for it, to kill it at the deadline. The crawl is not registered through `register_proc` and is not claimed |
| `GatesAccountedFor` | when tests start, the gates nobody recorded as unseen are at most as many as the releases, unless all were confirmed at once |
| `TerminalUnlessOverlapped` | a final status is left only in the overlaps of a cancel, a login answer or a release with something else; the worker by itself never leaves an end |
| `RunEnds` | the worker ends although nobody answers, releases or cancels |

### 4.3 `StageGates`

Two design stages, one of which wants each item approved and one of which may be skipped, and the
scripts; two request threads and three requests of any kind; first runs and later ones; any write of
the worker may fail. Two threads of three requests hold every pair of overtaking requests with a
third that profits. The threads are interchangeable and the run uses that symmetry; it checks no
liveness.

| Property | Says |
|---|---|
| `AuditExplains` | whichever write is lost to which, a stage in the file has the status its last audit entry gives it |
| `OvertakenProceedsOpen` | `bare`, the design gates that a `proceed` opened although their stage was at no time approved or skipped while they were shown, are at most `late`, the proceeds that others overtook (a write, or another gate shown) between their read of the stages and their release: one overtaken proceed never opens two gates, and no other opens any |

`StageGates_playwright` (violation of `TestsAfterApproval`). The last gate is called "playwright",
its stage "playwright_automation" (`web/services/auto_run_pipeline.py:343`,
`src/autorun/stages.py:46`). `proceed` compares the two names, finds nothing that is required, and
releases the gate before the tests with the scripts not approved, although its docstring
(`web/routes/autorun_stages.py:528`) calls this the effective gate. `OvertakenProceedsOpen` is
therefore stated for the design gates. For those the same docstring knows no exception either, and
the code has one: a `proceed` reads the stages, another request generates the stage anew or the
worker shows the next gate, and the release then opens a gate whose stage is not approved (`bare`
does reach 1 in the run). The property bounds what such requests can do.

### 4.4 `Scheduler`

Two sites, each with an overnight window or a schedule for one weekday; a day of three units and a
week of two days, six units in all, that is two of these days, and one retry; one request of an
administrator, one failed write, one restart, at any step.

| Property | Says |
|---|---|
| `NextRunAllowed` | the next run lies in the window of the settings beside it in the file, whichever writes are lost |
| `RunsApart` | after a start that was saved, none follows for a slot less than a day later, through requests, restarts and lost updates |
| `DueIsHandled` | a site that is due is run or moved, and not forgotten behind another |

`DueIsHandled` is claimed for files that can be read and sites that have an address.

### 4.5 `JobQueue`

Two request threads, one site (no step relates two), `MaxJobs` = 3, two seconds of the clock, three
starts, one failure and one restart. The eviction leaves `MaxJobs - 1` = 2 jobs, so that the third
start of the site evicts one, and with two threads and a job of an earlier place and a later time it
may be an unfinished one: the run reaches that case. Nothing is assumed of the number of threads;
the server has no bound of them (`app.py:72`).

| Property | Says |
|---|---|
| `UnfinishedCrowdedOut` | the eviction, which looks at no status, takes an unfinished job only when request threads and earlier jobs of the site with later times are together at least `MaxJobs` |
| `NoticeOnceAtTheEnd` | each callback is called at most once, with a final status and an ended process |
| `OverlapIsOvertaking` | a job is started beside an unfinished one of its site only if that one was registered after the request's check or cannot be found any more |
| `SiteOpens` | a site whose threads could be started, whose processes have ended and whose output could be read is open again |

### 4.6 `HealingRuns`

Two runs share the questions. `HealingRuns`: two clients start two runs with one artifact kept, one
iteration, one defect, one decision and one failure, so that starts, cleanups and threads meet.
`HealingDecisions`: one run with two defects and two iterations, two decisions, a failure and a
restart, so that decisions, loop and files meet. Both at once is out of TLC's reach.

| Property | Says | Run |
|---|---|---|
| `AloneUnlessByHand` | two threads repair the repository at once only if one run was started by hand or by a return | `HealingRuns` |
| `SweepIsCareful` | the cleanup takes nothing from a thread at work, from the newest runs, or from a pull request open when it looked | `HealingRuns` |
| `CancelStands` | a cancellation stands against the thread, a verification under way and a merge; only a copy read from the file before can undo it, and only when the cancelled object is such a copy too | `HealingDecisions` |
| `DrivenUnlessAdopted` | a run that looks active is worked on, unless it was read back from a file after a restart, or its start or its verification raised | `HealingDecisions` |
| `ApprovedFixWasSent` | an approved report whose repair was applied has its pull request at GitHub, and in the run too while that is known by its thread's object, which no copy ever replaces | `HealingDecisions` |
| `RunsEnd` | a run does not look active for ever while somebody drives it | `HealingDecisions` |

### 4.7 `Conductor`

The daily goal in two rounds (test run, repair, test run, repair), two callers, two runs, one cancel
request, one failure, one restart. Two rounds are the least in which a human's turn is carried, two
callers and two runs the least in which a start meets a start.

| Property | Says |
|---|---|
| `OneConductor` | one run of the site is unfinished at a time, and no other run's thread takes steps |
| `StopAsked` | a run that is over leaves no work behind that nobody asked to stop, unless it lost sight of the work |
| `SucceededMeansDone` | a success means that every step succeeded or was not needed |
| `RunsEnd` | every run whose thread could be started ends although work need never end |

### 4.8 `ImpactJobs`

Two requests at a time, one item that is found through either of two sets of changes, two analyses,
one error, one restart. The requests are interchangeable, and so are the sets of changes
(`MCImpactJobs`); the run checks no liveness. What a third analysis beside two others adds (4.12) is
in the statement of `DecisionsKept`; the theorem covers it (5.9).

| Property | Says |
|---|---|
| `ReviewedIsSettled` | nothing under or past review is undecided, unless an analysis that was still running saved after the review was checked |
| `DecisionsKept` | a decision on an item found again through the same changes outlives a new analysis, unless the analysis had read the decisions before: before it was made, or before another analysis that knew it put it back |
| `EndedStays` | an ended job stays as it ended, except "cancelled" to "failed" when its change request could not be reset, and the overlap of two first requests |
| `UnfinishedHasWorker` | an unfinished job has its thread, the request about to start it, or the recovery to come, unless an error kept its thread from starting or from recording its end |

### 4.9 `Accounts`

Two users, two tenants, one session: an administrator of one tenant and a user of both are what the
exception of `AdminsRemain` needs, and one session what a stranded choice of a tenant needs.

| Property | Says |
|---|---|
| `SessionsAreMembers` | a session's chosen tenant has its user as a member |
| `DeactivatedIsOut` | a deactivated user has no working session, but for a login the deactivation overtook |
| `AdminsRemain` | a tenant that has an administrator keeps one, except when an account is deactivated from another tenant |

### 4.10 `BackendTests`

One job of four stages (two designed, the runs, the report), two runs, two requests; one request
goes back on a stage, one begins while another is under way, one write or start fails or the server
restarts. With two copies of the file every pair of lost updates appears. One tenant with one job is
what fits; the theorems of 5.7 hold for any number of both.

| Property | Says |
|---|---|
| `FreshIsBuilt` | in the file and every copy that will be written back, what is not marked as out of date rests on approved stages |
| `ReportCoversRuns` | a report that is not marked covers every ended run of the list beside it in the file, except those that were already over when they were first recorded (`early`), whatever was written over it |
| `RunningCanSettle` | a run listed as active can still be settled, unless its end never reached `run.json`, as long as no id was given to runs of two tenants |
| `OneRunPerTenant` | at most one active run of a tenant, as long as no id was given to runs of two tenants |
| `TenantFreed` | a tenant that is refused because a run is active gets free, unless that run's start failed half way |

### 4.11 Fairness

| Module | Assumed | Because |
|---|---|---|
| `ParallelCrawl` | weak fairness of each worker and of the join | threads are scheduled, browser calls time out, and the wait polls. No stop request is assumed |
| `AutoRunJob` | weak fairness of the worker, and the crawl process ends | every wait of the worker has a timeout except reading the crawl's output. No request is assumed |
| `Scheduler` | weak fairness of the thread and of a request once begun | crawls have a timeout of ten minutes. Neither requests nor the clock are assumed |
| `JobQueue` | weak fairness of each job's thread | nothing makes a child end: the queue has no timeout, and `SiteOpens` waits for the processes |
| `HealingRuns` | weak fairness of each run's thread, of a request once begun, and of the question `start_run_if_idle` | the loop's commands have timeouts; the watch asks every day, and its question is what reaps orphans. No decision is assumed |
| `Conductor` | weak fairness of each thread and of the callers | a wait is a look every ten seconds with a deadline of two hours; the watch asks every day. Nothing makes work end |
| `BackendTests` | weak fairness of each request once begun, and of the thread of each run | a run has a deadline, after which its process is killed. No request is assumed |
| `StageGates`, `ImpactJobs`, `Accounts` | none | they state no liveness |

### 4.12 What the code does otherwise than it says, and smaller observations

`StageGates_playwright` shows one disagreement as a counterexample (4.3). The others are named by
the exception of a property, or were found by a property that was weakened to what holds:

- `src/crawler/parallel_crawler.py:150-154` says that depth is treated as in the serial crawl. A
  page two links away by one route and three by another is visited at the larger depth when the
  worker on the short route is slower, and its own links fall to the limit (`:197`): which pages are
  found depends on timing.
- `web/services/auto_run_job.py:18` calls `TERMINAL_STATUSES` final. A cancel request, the login
  answer (looked at the status before it writes) and a release overwrite one in an overlap
  (`TerminalUnlessOverlapped`).
- `register_proc` promises to end the child of a run cancelled meanwhile at once
  (`web/services/auto_run_job.py:216-218`, 「登録時点で中止済みなら即座に終了させる」). It sends a SIGTERM, which
  `src/main.py:74` and `:89` turn into a flag that `_discover` and `_submit_login_simple` never
  read: such a discovery or login runs on for up to two minutes or one, until the worker's own
  deadline (`NoOrphanProcess` says that much and no more).
- `release_all_stage_gates` says that later gates no longer stop the run
  (`web/routes/auto_run.py:543-547`). A confirmation that falls between the worker's look at the
  flag and its `clear` (`auto_run_pipeline.py:258-263`) sets an event that is cleared at once: that
  gate waits its two hours (`EnterGate`, `ClearGate` of `AutoRunJob`), and only `RunEnds` is
  claimed.
- `web/routes/autorun_stages.py:386` refuses a skip on a first run, but `_has_previous_snapshot`
  (`:94`) asks the disk at the time of the request, and the crawl of the run has saved a snapshot by
  then.
- A scan reads the clock once (`scheduler.py:88`): a site behind another one's crawl may start
  outside its window, against `WS2D-BA-001_バッチ設計書.md:52`.
- `run-now` records a run, moves the next one and answers that the crawl was queued
  (`web/routes/schedule.py:270`, `:277`); nothing starts one.
- Check and start of a recrawl are two critical sections (`web/routes/ta2.py:848-850`): an overtaken
  request starts a second crawl (`OverlapIsOvertaking`). The eviction looks at no status and goes by
  `started_at` (`job_queue.py:76`, `:142-146`): with as many requests at once as a site has places,
  or a clock set back, an unfinished job leaves the duplicate check, the listing and the gauge while
  its crawl goes on (`UnfinishedCrowdedOut`).
- A run read back from its file after a restart looks active and has no thread
  (`DrivenUnlessAdopted`); nobody reaps it, because it is in memory.
- `record_decision` works on the object it took before it had the lock
  (`healing/orchestrator.py:373`, `:377-385`). After a restart that is a copy of the file; put into
  `_RUNS` and saved, it replaces one in which another request has recorded the pull request
  meanwhile (`:646-650`), and the run forgets a pull request that is open at GitHub. It can also
  take the place of a cancelled copy (`CancelStands`). `ApprovedFixWasSent` therefore says less of
  the run than of GitHub.
- A start that fails after the run was put into memory leaves a run that is queued and has no
  thread: `healing/orchestrator.py:171-184` (`DrivenUnlessAdopted`) and `conductor.py:166-167` with
  `:88-90` (`RunsEnd`). `reap_orphans` passes over it, since it is in memory; the comment there,
  「このプロセスのスレッドが進めている」 (`conductor.py:379`), is not true of it. No caller that asks first starts
  another run of the site before the server is restarted.
- Likewise for an analysis (`impact/jobs.py:108-119`): its row is committed before the status of the
  change request is written and the thread is started. When either fails the job stays queued, the
  change request may be "analyzing" or not, and no analysis can be started before a restart
  (`UnfinishedHasWorker`).
- An analysis saves open impacts into a change request under review
  (`web/services/impact/engine/run.py:162`, `ReviewedIsSettled`). A cancelled or failed analysis
  pulls an approved change request back to draft; BD-010 says back to the state before the analysis.
  A change request stays "analyzing" after its job is done.
- `update_user` (`auth_store.py:716`) deactivates an account everywhere and checks one tenant. The
  comment at `:876-878`, 「テナントの管理者を0人にしない」, names demotion, deactivation, leaving and deletion alike
  (`AdminsRemain`). `delete_tenant` may leave only tenants without an administrator; a revoked token
  keeps its creator undeletable.
- Run ids (`backendtest/evidence.py:48-54`) are numbered per job and day, and `_RUNS`
  (`runner.py:170`, `:178`) is one dictionary for all: another tenant's run of the same id replaces
  the entry, and once that one has ended a second run of the first tenant starts, against
  `runner.py:7` 「同時実行はテナントあたり 1 本」 (the premise `IdsApart`). For the same reason the first run's
  marker is not removed when it ends but when its namesake does, or is missing while it is active,
  and a restart then leaves it active in the job for ever (`RunningCanSettle` has the same premise).
  Within one tenant the status of one job's run may be answered with another job's.
- A decision is carried over by item and sorted codes of the changes (`impact/engine/run.py:107`,
  `:148-149`; `03-detailed-design.md:86` says so): an item that is found again through more or fewer
  changes is open again. `DecisionsKept` is stated of impacts found through the same changes.
- With three analyses of one change request side by side, which the separate transactions of check
  and insertion allow, one that still knows a decision may put it back after another had read that
  it was gone, and that one's save then reopens it (`DecisionsKept`, `Missed`).
- Back-end stages: an edit of the purpose or of the expected results changes an approved stage;
  reading the material anew marks stage 2 and stops no later stage; a proposal for a stage that was
  approved again cannot be adopted; a run recorded as ended by the request that started it is not
  made part of a new stage 7 (`early`); a start that fails after registration blocks the tenant
  until a restart (`TenantFreed`); `recover_stale` does not kill a child that survived the restart.
  The document BD-008 lists routes to revert and adopt that do not exist.

`PROJECT.json` lists the hazards with the properties that cover them. Smaller observations outside
it:

- `_mark_job_failed` (`auto_run_pipeline.py:1148`) looks at `_cancelled` and writes afterwards; a
  status overwritten between a final status and `finished_at` (`auto_run_job.py:248`) sends no
  notification.
- `submit-input` clears `input_request` before `_do_login` reads the login address from it
  (`auto_run_pipeline.py:459`); choosing authenticated pages without `auth.json` writes
  `awaiting_input` and stops nothing (`auto_run.py:603`).
- The run record is saved before the analysis adds the unobserved areas
  (`auto_run_pipeline.py:351`).
- `proceed` writes back the copy it read (`autorun_stages.py:572`); after a confirmation, a
  regenerated stage's items are approved by the worker (`auto_run_pipeline.py:111`); an approved
  stage may get an unapproved item (`autorun_stages.py:515`); the worker creates the file with
  `is_rerun` false (`auto_run_pipeline.py:82`).
- The next run is counted from the scan and not from the slot (`scheduler.py:445`); a failed write
  of the timestamps lets the next scan run the slot again (`scheduler.py:462`); stopping and
  starting the scheduler within a second leaves two threads (`scheduler.py:63`).
- The gauge is published under the lock and before the eviction (`job_queue.py:85`): after the
  eviction of an unfinished job it counts one too many until a status changes (`DepthIsBetween`,
  proved, 5.5). A failed write of the stages is logged and the worker goes on
  (`auto_run_pipeline.py:119`), which `AuditExplains` covers.
- Starting an analysis is two transactions (`impact/jobs.py:104`): the second writes "analyzing"
  over a status that changed in between.
- A cancel during the conductor's last step is confirmed and has no effect (`conductor.py:188`); of
  two approvals of a healing report at once the second is refused by GitHub and not by the program
  (`orchestrator.py:485`).
- The token bucket computes the wait from the interval before its sleep and the tokens from the one
  after it, which a `robots.txt` read meanwhile may have changed without the lock
  (`politeness.py:176`).

## 5. What is proved

TLC decides the instances above. The theorems below hold for every value of the constants that
satisfies the named assumptions, which the runs evaluate: `SiteAssumption` and `WorkersAssumption`
(finitely many threads and at least one, as `crawl_site_parallel` ensures), `GatesAssumption`,
`StagesAssumption` (of `StageGates` and of `BackendStages`), `WindowAssumption` and
`SchedulerAssumption`, `QueueAssumption`, `HealingAssumption` (finitely many requests at a time, at
least one artifact kept and one iteration, as the settings are read), `ConductorAssumption`,
`ImpactBounds`, `NoneIsNobody` and `BackendAssumption`. Every invariant and every action property of
the passing runs is the conclusion of one of them. Each proof has the shape `Init => IInv`, `IInv /\
[Next]_vars => IInv'`, `IInv => property`, with one step per action, and TLC has checked each
inductive invariant on the instance of its run. A property about steps follows from `IInv /\
[Next]_vars` in the same way.

### 5.1 `ParallelCrawlProofs`: `TypeCorrect`, `BudgetKept`, `EachPageOnce`, `LastCheckpointHoldsAll`, `CrawlIsTraversal`

For every site, number of threads and limit. `IInv` is `TypeOK`, `PageBudget`, `NoPageTwice` and
`Reservations`. The budget alone is not inductive for two reasons. `in_flight` is decremented by a
worker that is finishing, so it must be known that this worker is still counted, which is the second
half of `PageBudget`: busy workers are at most `in_flight`, with a leaked slot making the
difference. And a new reservation can only be new if what busy workers hold and what was obtained is
marked as visited and numbered up to `dispatched`: `Reservations`. Lemmas: the cardinality of the
results after an insertion, and the queue after links are appended.

`LastCheckpointHoldsAll`. A checkpoint is copied under one lock and written under another, so that a
copy may be old when it is written. `CheckpointInv` has four parts: where the end of the crawl and
the errors stand (`EndInv`); `checkpoint_lock` is the writer's (`LockInv`), which orders the copies
as they are written; checkpoints only grow (`GrowInv`); and `SavedInv`: while nobody has raised, a
page that is missing in the last checkpoint has a worker that is about to copy, or one that is
writing everything. At the join all workers are gone, so nothing is missing.

`CrawlIsTraversal` is the refinement of `Traversal`, by one simulation lemma per kind of step. A
reservation takes a task that is known, new and within the limits; the finish of a page obtains it
or gives it up; the join ends the traversal; everything else is a stutter. Two facts carry it.
`FrontierInv`: the frontier holds only known tasks, and every known task that may still be taken,
which holds although links are appended when the page is finished and inadmissible ones are dropped.
`QuitInv`: a worker went home because the crawl was stopped, because it raised, because the budget
was used up, or because nothing was in flight and nothing left, and each of these lasts. From it and
at least one worker, "completed" with budget left means that the last worker found nothing left,
hence that every admissible link was followed.

### 5.2 `AutoRunJobProofs`: `TypeCorrect`, `CancelReachesChildren`, `GatesAreAccountedFor`, `EndsAreFinal`

For every number of gates, releases and confirmations. `ChildInv`: a registered child runs only
while its worker attends to it, the worker stores it before it looks at the flag, and a cancel that
is about to kill holds this child or raised the flag in time for its worker to signal it; from it
`NoOrphanProcess` follows through the two orders of "store, look" and "raise, look". `GateInv`: the
gates passed and not recorded as unseen, with one more if the event is set for the gate that is
shown, are at most the releases made, unless all gates were confirmed or the run was cancelled
before its tests; this is the argument that a release never opens two gates. `EndInv` says where the
worker is when the status is final and nobody has cancelled: past the point that wrote it, on a path
that writes no other status; so only a request can undo an end, and `EndsAreFinal` names the three
that do.

### 5.3 `StageGatesProofs`: `TypeCorrect`, `AuditAlwaysExplains`, `OvertakenOpenOne`

For every number of stages, clients and requests. `SoundInv`: not only the file but every copy
anybody holds is explained by its audit, so that a lost update replaces one sound file by another.
`GateInv` says where the gate shown and the worker are; `ReadInv` that a request nobody overtook
holds the statuses of the file, and that the gate it saw is the one shown or one that is passed.
`CountInv` is the counting argument: a release by such a request finds the stage settled, an
overtaken one is counted before the worker leaves the gate, and the next gate clears the event, so
that each pays for one gate at most.

### 5.4 `CrawlStartsProofs`, schedules: `TypeCorrect`, `Allowed`, `Once`

For every set of sites and settings, every length of day and week, any number of requests, failed
writes and restarts. First the arithmetic of `ExecutionWindow`, each a lemma: `NextAllowedIs`, the
search of at most a week's days finds a time, not before the one it starts from and in a window,
also when a window opened the day before or when no weekday is chosen; `NextRunIs`, the next run is
at least a day after what it is counted from; `PostponedIs`, a slot that was missed is moved by at
least a day and into a window, however many rounds that takes. The last one needs an induction over
the rounds. The library's induction theorems take an operator; `SetInduction` says the same of a set
of numbers, and follows from the least number of its complement, which the library's `WFMin` gives.

`IInv` then says of every config there is, in a file, in the thread's hands and in a request, that
its next run lies in its window (`SaneInv`), because each is as one of the two sides made it: the
scheduler and the handlers overwrite each other's configs, which loses work and never makes a config
nobody computed. `Once` needs more, since a request may write back a config it read before a run.
`ApartInv`: in the file, and in the thread's hands until it writes, the next run is at least a day
after the last run that was written down. For the request this holds because it counts from the
present clock, and no time passes while it is at work (`AdminInv`; 2.4 names this abstraction, and
here is where it matters). `ScanInv`: the scan's clock is not ahead, and a site that is being run or
moved has a slot. A run starts only for the slot the thread holds.

### 5.5 `CrawlStartsProofs`, the queue: `QueueTypeCorrect`, `EvictionBound`, `DepthCounts`, `AsManyAsThreads`, `OneNotice`, `OvertakenOnly`

For every number of threads, sites and jobs and any times of the clock. The heart is `RoomInv`: for
an unfinished job that can be found, the jobs of its site registered after it, and the requests that
have checked the site and not yet started, are together fewer than the request threads. A request
that checks while the job is unfinished is refused, so only those that had checked before can add
one, each once; the thread that started the job is not among them. Whatever the eviction places
after the job was either registered later, and `RoomInv` bounds that, or is one of `Ahead`: hence
`EvictionBound`, without an assumption about the number of threads. If the oldest unfinished job of
a site is taken away from the rest, the rest is among those registered after it: `AsManyAsThreads`.
`DepthCounts` (`DepthIsBetween`) and `AsManyAsThreads` (`SideBySide`) are statements that no run
makes; TLC agrees with both on the run's instance. `FreshInv`, `ThreadInv`, `JobsInv` and `CheckInv`
relate a job's thread, status, process and notices, and what a request has seen.

### 5.6 `TenantsProofs`, accounts: `AccountsTypeCorrect`, `SessionsBelong`, `DeactivationHolds`, `AdministratorsRemain`

For every set of users, tenants and sessions; every property of the runs. `AccountsInv` adds
`References`: memberships, sessions, tokens and logins refer to users and tenants that exist, which
is what a deletion must keep. `AdministratorsRemain` is an action property: `Checked` says it of one
step, with one lemma per kind of operation, and `OthersStay` that a step that changes nobody but one
user leaves the tenant an administrator if there is another one.

### 5.7 `TenantsProofs`, back-end tests: `StagesAreBuilt`, `ReportsCoverRuns`, `OneRunOfATenant`, `RunsCanSettle`

For every number of design stages, clients, tenants, jobs, runs and faults. Each function of
`BackendStages` keeps a job sound: well-formed, `Built` and `Covered` (one lemma each). `Kept`:
every copy is sound, lists only runs that have a folder, and a request about to launch a run has a
copy in which it is not listed. Copies are only made by these functions, so an old copy written over
a newer one loses work and never makes a file that lies. `Booked`: an active run holds its tenant's
slot and its id in the registry, as long as ids are apart, and one request at a time is launching
it; hence a start that looked at the slot found every active run of the tenant.

`RunsCanSettle` relates the three places of a run's status. `Filed`: what a list shows has a
`run.json`, in the file and in every copy. `Tracked`: what is in memory has a folder and an entry.
`Marked`: a slot that is taken is an active run's, an active run has its tenant's marker unless its
start failed half way, and a run that `run.json` shows as active has the marker, or a thread about
to write its end, or lost its end in a failed write. The marker goes only with the slot or in the
recovery, which first writes "error" into the `run.json` the marker names; hence whatever the file
shows as active is known to the process, ended on disk, or marked for the next recovery. All of it
rests on `IdsApart`: `_release` compares ids, and another tenant's equal id removes the wrong
marker.

### 5.8 `ConductorProofs`: `TypeCorrect`, `OneConductorHolds`, `StopAskedHolds`, `SuccessHolds`

For every plan of test runs and repairs, any number of callers, runs, cancellations, failures and
restarts. `SingleInv`: at most one caller has looked and found nothing, and then no run is
unfinished; at most one run is. With `ThreadInv`, which identifies the unfinished runs in memory
with those whose thread takes steps or whose start failed, this is `OneConductor`; the second half
is what makes reaping safe, since an orphan is unfinished and not in memory. `WorkInv`: nothing runs
ahead of the current step, and work left behind was told to stop, or is the current step's while its
thread sees to it, or belongs to a run that lost sight of it (`blind`). `RecordInv`: the steps
behind are fine or a human's turn is carried along (`pending`), those ahead are untouched; it is
what separates a success after several rounds from a run that has to ask. `FreshInv` gives a new run
an empty record.

### 5.9 `ImpactJobsProofs`: `TypeCorrect`, `ReviewHolds`, `WorkerHolds`, `DecisionsHold`, `EndedHolds`

For any number of items, sets of changes, requests, analyses, errors and restarts. `SettledInv`:
unless an analysis saved late, either nothing is open or neither the change request nor a request
past its check is in review; the statement about requests is what makes check and write in two
transactions sound. `KeptInv`: an analysis that is going to save has each decision in what it read,
or is listed as having missed it, which must also hold when another save puts decisions back.
`RecoveryInv`: before the recovery nothing runs, and the rows selected to be interrupted are exactly
the unfinished jobs, so the recovery takes nobody's job unless two first requests meet (`overlap`).
`WorkerInv` is `UnfinishedHasWorker` without its exception, which is one of the places a thread can
be at (`Attended`), and that a thread that only resets the change request has closed its job.
`JobInv`: but for the overlap, a job's status fits the place of its one thread, so an end is written
once.

### 5.10 `HealingProofs`: `TypeCorrect`, `Alone`, `ApprovedSent`, `Cancelled`, `Driven`, `Careful`

For every set of defects, any number of requests at a time, iterations, artifacts kept, runs,
decisions, failures and restarts, although no instance with all of them is within TLC's reach (4.6);
the instances of both runs have checked the invariant. Its parts:

- `FreshInv`: a run that was not started yet is nowhere. The number a start takes is therefore free;
  that there is one left is part of the type: runs started and requests about to start one are
  together at most `MaxRuns`, which needs finitely many requests.
- `LoopInv`: a run with a thread is known by the thread's own object, and a thread at work is seen
  to be, in memory and in the file. This is why asking for an active run finds every thread, and why
  no copy comes between a thread and its run.
- `SweepInv`: between its registration and its thread a run is queued, is known by its thread's
  object, is one request's, and what this request is about to clear away is past and old. It is what
  the gap between the two halves of `start_run` may not lose, and `Careful` is read off it.
- `LockInv`: whoever holds the lock of `start_run_if_idle` found nothing alive that was not started
  by hand since. `AloneUnlessByHand` in its own words is not inductive: two runs that are about to
  get their threads count as alive, and so does the lock.
- `ClientInv`: a request works on the thread's object as long as that is in memory, and on a copy
  only of a run that takes decisions (`Owns`); a decision under way is about a run whose thread has
  done its work, and one that approves a repair is past its pull request. The check is steps
  earlier, so this says that nothing in between takes it back, neither a rerun of the same run nor a
  cancellation.
- `ReportInv`: a report is about a run that takes decisions, a pull request that any object or the
  file knows is at GitHub (`Honest`), and an approved repair that was applied has one there, and in
  the thread's object while the run is known by it (`Sent`, `Kept`).

`Alone` and `ApprovedSent` follow from the state. `Cancelled` and `Driven` are about steps, and rest
on what a step of a request or of a loop does to a run of which no copy takes the place
(`RequestMoves`, `LoopMoves`; `Adopted` names the exception, `Remains` excludes it). A cancelled run
stays cancelled, which `_update` sees to under its lock. Only a registration and a verification by
hand make a run active that was not, and then a request holds that run until it is over or raises.

### 5.11 Only model-checked

- Liveness (`Terminates`, `RunEnds`, `DueIsHandled`, `SiteOpens`, `RunsEnd` of the repairs and of
  the conductor, `TenantFreed`): proofs under fairness need `ENABLED`, which the prover does not
  handle.
- The violation run, which is a counterexample.
