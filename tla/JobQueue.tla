------------------------------ MODULE JobQueue ------------------------------
(***************************************************************************)
(* Crawls asked for through the API (web/services/job_queue.py) and the    *)
(* two handlers that start them: api_crawl of web/routes/api_v1.py and     *)
(* api_ta2_recrawl of web/routes/ta2.py.  Each looks for an unfinished job *)
(* of the site and starts one if it finds none, in two steps with the lock *)
(* taken in each.  A job has a thread and a child process of its own.      *)
(***************************************************************************)
EXTENDS FiniteSets, Integers

CONSTANTS
  Clients,        \* request threads
  Sites,
  MaxJobs,        \* MAX_JOBS_PER_DOMAIN (20)
  Seconds,        \* what the wall clock may show when a request reads it
  MaxStarts,      \* bounds: jobs started,
  MaxFailures,    \* threads and children that cannot be started, unreadable output,
  MaxRestarts     \* restarts of the server

NoSite == "no site"

ASSUME QueueAssumption ==
  /\ IsFiniteSet(Clients)
  /\ NoSite \notin Sites
  /\ MaxJobs \in Nat \ {0}
  /\ Seconds \subseteq Nat
  /\ MaxStarts \in Nat /\ MaxFailures \in Nat /\ MaxRestarts \in Nat

Ids == 1..MaxStarts
Finished == {"completed", "failed"}
NoRequest == [state |-> "idle"]

VARIABLES
  started,      \* jobs started so far; a job's number says how old it is
  site,         \* each job's site
  stamp,        \* each job's started_at
  status,       \* each job's status, "none" without a job
  jobs,         \* _JOBS: the jobs that can be found
  thread,       \* where each job's thread is
  child,        \* each job's process
  notices,      \* how often each job's on_done was called
  depth,        \* the gauge webspec2doc_job_queue_depth
  client,       \* each request thread
  failures, restarts

memory == <<status, jobs, thread, notices, depth>>
counters == <<failures, restarts>>
queue == <<started, site, stamp, memory, child, client, counters>>

InitQueue ==
  /\ started = 0
  /\ site = [j \in Ids |-> NoSite]
  /\ stamp = [j \in Ids |-> 0]
  /\ status = [j \in Ids |-> "none"]
  /\ jobs = {}
  /\ thread = [j \in Ids |-> "none"]
  /\ child = [j \in Ids |-> "none"]
  /\ notices = [j \in Ids |-> 0]
  /\ depth = 0
  /\ client = [c \in Clients |-> NoRequest]
  /\ failures = 0 /\ restarts = 0

-----------------------------------------------------------------------------
(* Requests.                                                               *)

OfSite(known, s) == {j \in known : site[j] = s}

\* A question about the jobs that run, not about those that wait.
Check_RunningOnly(c, s) ==
  /\ client[c] = NoRequest
  /\ \A j \in OfSite(jobs, s) : status[j] # "running"
  /\ client' = [client EXCEPT ![c] = [state |-> "checked", site |-> s, seen |-> started]]
  /\ UNCHANGED <<started, site, stamp, memory, child, counters>>

\* active_job_for_domain, and the same question asked by api_ta2_recrawl: a job
\* that is found ends the request.
Check(c, s) ==
  /\ client[c] = NoRequest
  /\ \A j \in OfSite(jobs, s) : status[j] \in Finished
  /\ client' = [client EXCEPT ![c] = [state |-> "checked", site |-> s, seen |-> started]]
  /\ UNCHANGED <<started, site, stamp, memory, child, counters>>

Unfinished(known, state) == Cardinality({j \in known : state[j] \notin Finished})

\* Sorted by started_at, and as they were registered within a second.
Behind(stamps, j, k) == stamps[k] > stamps[j] \/ (stamps[k] = stamps[j] /\ k > j)

\* Eviction that takes the newest for the oldest.
Kept_Newest(known, s, sites, stamps) ==
  {j \in known : sites[j] = s =>
     Cardinality({k \in known : sites[k] = s /\ Behind(stamps, k, j)}) < MaxJobs - 1}

\* _evict_old_jobs keeps room for one more: of a site the MaxJobs - 1 that are
\* last by started_at stay, be they finished or not.
Kept(known, s, sites, stamps) ==
  {j \in known : sites[j] = s =>
     Cardinality({k \in known : sites[k] = s /\ Behind(stamps, j, k)}) < MaxJobs - 1}

\* A start that does not ask again.  Its started_at was read from the wall clock
\* before it waited for the lock, so that it may be any second, also one before
\* those of jobs registered earlier.  Its depth is taken before the eviction; its
\* thread may not start, and the job is then left as it is.
Register(c) == \E at \in Seconds :
  LET j == started + 1
      s == client[c].site
      sites == [site EXCEPT ![j] = s]
      stamps == [stamp EXCEPT ![j] = at]
      states == [status EXCEPT ![j] = "queued"]
  IN
  /\ client[c].state = "checked"
  /\ started < MaxStarts
  /\ started' = j
  /\ site' = sites
  /\ stamp' = stamps
  /\ status' = states
  /\ depth' = Unfinished(jobs \cup {j}, states)
  /\ jobs' = Kept(jobs \cup {j}, s, sites, stamps)
  /\ \/ thread' = [thread EXCEPT ![j] = "started"] /\ UNCHANGED failures
     \/ /\ failures < MaxFailures /\ failures' = failures + 1
        /\ thread' = [thread EXCEPT ![j] = "dead"]
  /\ client' = [client EXCEPT ![c] = NoRequest]
  /\ UNCHANGED <<child, notices, restarts>>

-----------------------------------------------------------------------------
(* The thread of a job: _run_job.                                          *)

\* _update: the status, and the gauge from the jobs that can be found.
Update(j, new) ==
  /\ status' = [status EXCEPT ![j] = new]
  /\ depth' = Unfinished(jobs, status')
  /\ UNCHANGED jobs

At(j, here, next) == thread[j] = here /\ thread' = [thread EXCEPT ![j] = next]

Begin(j) ==
  /\ At(j, "started", "launch")
  /\ Update(j, "running")
  /\ UNCHANGED <<started, site, stamp, child, notices, client, counters>>

Launch(j) ==
  /\ At(j, "launch", "read")
  /\ child' = [child EXCEPT ![j] = "running"]
  /\ UNCHANGED <<started, site, stamp, status, jobs, notices, depth, client, counters>>

\* Popen raises OSError.
LaunchFails(j) ==
  /\ failures < MaxFailures
  /\ failures' = failures + 1
  /\ At(j, "launch", "notify")
  /\ Update(j, "failed")
  /\ UNCHANGED <<started, site, stamp, child, notices, client, restarts>>

\* The output is no text of the locale: the exception is not an OSError and ends
\* the thread, the job is left as it is.
Undecodable(j) ==
  /\ failures < MaxFailures
  /\ failures' = failures + 1
  /\ At(j, "read", "dead")
  /\ UNCHANGED <<started, site, stamp, status, jobs, notices, depth, child, client, restarts>>

\* An end that leaves the status for the callback.
Finish_Unrecorded(j) ==
  /\ child[j] \in {"ok", "bad"}
  /\ At(j, "read", "notify")
  /\ UNCHANGED <<started, site, stamp, status, jobs, depth, child, notices, client, counters>>

\* The output is read to its end and the exit code is there.
Finish(j) ==
  /\ child[j] \in {"ok", "bad"}
  /\ At(j, "read", "notify")
  /\ Update(j, IF child[j] = "ok" THEN "completed" ELSE "failed")
  /\ UNCHANGED <<started, site, stamp, child, notices, client, counters>>

\* A callback that raises OSError into _run_job, which calls it once more.
Notify_Again(j) ==
  /\ thread[j] = "notify"
  /\ thread' = [thread EXCEPT ![j] = IF notices[j] = 0 THEN "notify" ELSE "ended"]
  /\ notices' = [notices EXCEPT ![j] = @ + 1]
  /\ UNCHANGED <<started, site, stamp, status, jobs, depth, child, client, counters>>

\* _notify_done and the drift notification keep what they raise to themselves.
Notify(j) ==
  /\ At(j, "notify", "ended")
  /\ notices' = [notices EXCEPT ![j] = @ + 1]
  /\ UNCHANGED <<started, site, stamp, status, jobs, depth, child, client, counters>>

RunJob(j) == Begin(j) \/ Launch(j) \/ LaunchFails(j) \/ Undecodable(j) \/ Finish(j) \/ Notify(j)

\* The process ends by itself; nothing in the queue ends it.
ChildEnds(j) ==
  /\ child[j] = "running"
  /\ \E code \in {"ok", "bad"} : child' = [child EXCEPT ![j] = code]
  /\ UNCHANGED <<started, site, stamp, memory, client, counters>>

\* The jobs are kept in memory only; processes survive the server.
RestartServer ==
  /\ restarts < MaxRestarts
  /\ restarts' = restarts + 1
  /\ jobs' = {}
  /\ status' = [j \in Ids |-> "none"]
  /\ thread' = [j \in Ids |-> "none"]
  /\ notices' = [j \in Ids |-> 0]
  /\ stamp' = [j \in Ids |-> 0]
  /\ depth' = 0
  /\ client' = [c \in Clients |-> NoRequest]
  /\ UNCHANGED <<started, site, child, failures>>

NextQueue ==
  \/ \E c \in Clients : Register(c) \/ \E s \in Sites : Check(c, s)
  \/ \E j \in Ids : RunJob(j) \/ ChildEnds(j)
  \/ RestartServer

QueueSpec == InitQueue /\ [][NextQueue]_queue

\* Threads are scheduled.  Nothing makes a child end: the queue has no timeout.
FairQueueSpec == QueueSpec /\ \A j \in Ids : WF_queue(RunJob(j))

-----------------------------------------------------------------------------
QueueTypeOK ==
  /\ started \in 0..MaxStarts
  /\ site \in [Ids -> Sites \cup {NoSite}]
  /\ stamp \in [Ids -> Seconds \cup {0}]
  /\ status \in [Ids -> {"none", "queued", "running"} \cup Finished]
  /\ jobs \subseteq Ids
  /\ thread \in [Ids -> {"none", "started", "launch", "read", "notify", "ended", "dead"}]
  /\ child \in [Ids -> {"none", "running", "ok", "bad"}]
  /\ notices \in [Ids -> Nat]
  /\ depth \in Nat
  /\ client \in [Clients -> {NoRequest} \cup
                   [state : {"checked"}, site : Sites, seen : 0..MaxStarts]]
  /\ failures \in 0..MaxFailures
  /\ restarts \in 0..MaxRestarts

Active == {"queued", "running"}

\* The jobs of the same site that were there before and say they started later.
Ahead(j) == {k \in OfSite(Ids, site[j]) : k < j /\ status[k] # "none" /\ stamp[k] > stamp[j]}

\* _evict_old_jobs looks at no status.  An unfinished job can only disappear (from
\* the duplicate check, the listing and the gauge) when the request threads and
\* the earlier jobs with later times together fill the places of the site: each
\* thread overtakes it once at most while it can be found.
UnfinishedCrowdedOut ==
  \A j \in Ids : status[j] \in Active /\ j \notin jobs =>
    Cardinality(Clients) + Cardinality(Ahead(j)) >= MaxJobs

\* The gauge, set before the eviction and at each change of a status, lies between
\* the unfinished jobs that can be found and all that are unfinished.
DepthIsBetween ==
  /\ Cardinality({j \in jobs : status[j] \in Active}) <= depth
  /\ depth <= Cardinality({j \in Ids : status[j] \in Active})

\* A job is started beside an unfinished one of its site only by a request that
\* asked before that one was registered, or after it had been crowded out: no
\* other overlap of check and start lets a second crawl through.
OverlapIsOvertaking ==
  [][\A c \in Clients :
       client[c].state = "checked" /\ started' = started + 1 /\ client'[c] = NoRequest
       => \A j \in OfSite(Ids, client[c].site) :
            status[j] \in Active => j > client[c].seen \/ j \notin jobs]_queue

\* Of a site at most as many unfinished jobs can be found as there are request
\* threads, those about to start one included.
SideBySide ==
  \A s \in Sites :
    Cardinality({j \in OfSite(jobs, s) : status[j] \in Active})
      + Cardinality({c \in Clients : client[c].state = "checked" /\ client[c].site = s})
    <= Cardinality(Clients)

\* on_done is called once for a job and not before its process has ended.
NoticeOnceAtTheEnd ==
  \A j \in Ids :
    /\ notices[j] <= 1
    /\ notices[j] = 1 => status[j] \in Finished /\ child[j] # "running"

\* A site whose threads could be started, whose processes have ended and whose
\* output could be read is open for the next request.
SiteOpens ==
  \A s \in Sites :
    LET over == \A j \in OfSite(Ids, s) : child[j] # "running" /\ thread[j] # "dead"
        open == \A j \in OfSite(jobs, s) : status[j] \in Finished
    IN  []<>(open \/ ~over)

=============================================================================
