--------------------------- MODULE ParallelCrawl ---------------------------
(***************************************************************************)
(* crawl_site_parallel (src/crawler/parallel_crawler.py): several threads  *)
(* share one frontier, one visited set and one page budget behind the      *)
(* Condition `state`, and write checkpoints behind `checkpoint_lock`.      *)
(*                                                                         *)
(* One action is one critical section, or one stretch of a worker's code   *)
(* that touches no shared state.  state.wait polls every 0.2 s, so a       *)
(* waiting worker is simply one whose next critical section is not enabled *)
(* yet.  Progress totals and screenshot names are left out.                *)
(***************************************************************************)
EXTENDS CrawlSite

CONSTANTS
  Workers,    \* the threads
  NoTask      \* what a worker without a reservation holds

ASSUME WorkersAssumption ==
  /\ Workers # {} /\ IsFiniteSet(Workers)
  /\ NoTask \notin Workers
  /\ NoTask \notin Tasks

VARIABLES
  frontier,      \* sequence of tasks found and not taken yet
  visited,       \* addresses ever reserved
  results,       \* reservation index |-> task whose page was obtained
  inFlight,      \* the counter in_flight
  dispatched,    \* the counter dispatched
  pc,            \* where each worker is
  index,         \* the reservation index each worker holds
  task,          \* the task each worker holds
  page,          \* what _crawl_page_with_id gave: "page", "none" or "raised"
  checkpointBy,  \* holder of checkpoint_lock, or NoTask
  snapshot,      \* the indices each worker copied for its checkpoint
  saved,         \* the indices of the last checkpoint written
  errors,        \* workers that recorded an exception
  internalStop,  \* the event internal_stop
  stopAsked,     \* the caller's stop_requested
  outcome        \* "crawling", or how crawl_site_parallel ended

shared == <<frontier, visited, results, inFlight, dispatched>>
local == <<index, task, page>>
checkpoints == <<checkpointBy, snapshot, saved>>
control == <<errors, internalStop, stopAsked, outcome>>
vars == <<shared, pc, local, checkpoints, control>>

Init ==
  /\ frontier = <<Start>>
  /\ visited = {}
  /\ results = <<>>
  /\ inFlight = 0
  /\ dispatched = 0
  /\ pc = [w \in Workers |-> "open"]
  /\ index = [w \in Workers |-> 0]
  /\ task = [w \in Workers |-> NoTask]
  /\ page = [w \in Workers |-> "none"]
  /\ checkpointBy = NoTask
  /\ snapshot = [w \in Workers |-> {}]
  /\ saved = {}
  /\ errors = {}
  /\ internalStop = FALSE
  /\ stopAsked = FALSE
  /\ outcome = "crawling"

ShouldStop == internalStop \/ stopAsked
Count == Cardinality(DOMAIN results)

Goto(w, label) == pc' = [pc EXCEPT ![w] = label]

\* _browser_page starts the worker's own browser, which may fail.
OpenBrowser(w) ==
  /\ pc[w] = "open"
  /\ \/ Goto(w, "reserve")
     \/ Goto(w, "except")
  /\ UNCHANGED <<shared, local, checkpoints, control>>

\* Faulty variants, each a plausible slip in the operation that follows it, show
\* that the properties below can fail; no behaviour of Spec uses them.
\* The budget test forgets the pages in flight.
Reserve_CountsResultsOnly(w) ==
  /\ pc[w] = "reserve"
  /\ ~ShouldStop
  /\ Count < MaxPages
  /\ \E i \in DOMAIN frontier :
       /\ Admissible(frontier[i], visited)
       /\ frontier' = SubSeq(frontier, i + 1, Len(frontier))
       /\ visited' = visited \cup {frontier[i].url}
       /\ task' = [task EXCEPT ![w] = frontier[i]]
  /\ inFlight' = inFlight + 1
  /\ dispatched' = dispatched + 1
  /\ index' = [index EXCEPT ![w] = dispatched + 1]
  /\ Goto(w, "start")
  /\ UNCHANGED <<results, page, checkpoints, control>>

\* The address is marked as visited only once its page is there.
Reserve_MarksLater(w) ==
  /\ pc[w] = "reserve"
  /\ ~ShouldStop
  /\ Count + inFlight < MaxPages
  /\ \E i \in DOMAIN frontier :
       /\ Admissible(frontier[i], visited)
       /\ frontier' = SubSeq(frontier, i + 1, Len(frontier))
       /\ task' = [task EXCEPT ![w] = frontier[i]]
  /\ inFlight' = inFlight + 1
  /\ dispatched' = dispatched + 1
  /\ index' = [index EXCEPT ![w] = dispatched + 1]
  /\ Goto(w, "start")
  /\ UNCHANGED <<visited, results, page, checkpoints, control>>

\* reserve_task hands out the first admissible task of the frontier and drops
\* the ones before it.
Reserve(w) ==
  /\ pc[w] = "reserve"
  /\ ~ShouldStop
  /\ Count + inFlight < MaxPages
  /\ \E i \in DOMAIN frontier :
       /\ Admissible(frontier[i], visited)
       /\ \A j \in 1..(i - 1) : ~Admissible(frontier[j], visited)
       /\ frontier' = SubSeq(frontier, i + 1, Len(frontier))
       /\ visited' = visited \cup {frontier[i].url}
       /\ task' = [task EXCEPT ![w] = frontier[i]]
  /\ inFlight' = inFlight + 1
  /\ dispatched' = dispatched + 1
  /\ index' = [index EXCEPT ![w] = dispatched + 1]
  /\ Goto(w, "start")
  /\ UNCHANGED <<results, page, checkpoints, control>>

\* reserve_task pops a frontier in which nothing is admissible, and waits for
\* the tasks in flight.
DrainAndWait(w) ==
  /\ pc[w] = "reserve"
  /\ ~ShouldStop
  /\ Count < MaxPages
  /\ Count + inFlight < MaxPages
  /\ frontier # <<>>
  /\ \A i \in DOMAIN frontier : ~Admissible(frontier[i], visited)
  /\ inFlight # 0
  /\ frontier' = <<>>
  /\ UNCHANGED <<visited, results, inFlight, dispatched, pc, local, checkpoints, control>>

\* reserve_task returns None: stopped, budget used up, or nothing left and
\* nobody who could find more.
NoMoreWork(w) ==
  /\ pc[w] = "reserve"
  /\ \/ /\ ShouldStop \/ Count >= MaxPages
        /\ UNCHANGED frontier
     \/ /\ ~ShouldStop
        /\ Count + inFlight < MaxPages
        /\ \A i \in DOMAIN frontier : ~Admissible(frontier[i], visited)
        /\ inFlight = 0
        /\ frontier' = <<>>
  /\ Goto(w, "close")
  /\ UNCHANGED <<visited, results, inFlight, dispatched, local, checkpoints, control>>

\* The page_started event and limiter.acquire() run before the try block: an
\* exception here leaves in_flight raised for good.
StartPage(w) ==
  /\ pc[w] = "start"
  /\ \/ Goto(w, "crawl")
     \/ Goto(w, "except")
  /\ UNCHANGED <<shared, local, checkpoints, control>>

\* _crawl_page_with_id: a page, None (login wall, retries exhausted,
\* Playwright error), or an exception such as SessionExpiredError.
CrawlPage(w) ==
  /\ pc[w] = "crawl"
  /\ \E what \in {"page", "none", "raised"} : page' = [page EXCEPT ![w] = what]
  /\ Goto(w, "finish")
  /\ UNCHANGED <<shared, index, task, checkpoints, control>>

\* The critical section of finish_task, which also runs (finally) when the
\* page raised.
FinishTask(w) ==
  /\ pc[w] = "finish"
  /\ inFlight' = inFlight - 1
  /\ IF page[w] = "page" /\ Count < MaxPages
     THEN /\ results' = [k \in DOMAIN results \cup {index[w]} |->
                           IF k = index[w] THEN task[w] ELSE results[k]]
          /\ frontier' = frontier \o NextUrls(task[w])
          /\ Goto(w, "checkpoint")
     ELSE /\ UNCHANGED <<results, frontier>>
          /\ Goto(w, IF page[w] = "raised" THEN "except" ELSE "reserve")
  /\ UNCHANGED <<visited, dispatched, local, checkpoints, control>>


\* A worker that finds checkpoint_lock held skips its checkpoint.
TakeSnapshot_SkipsWhenBusy(w) ==
  /\ pc[w] = "checkpoint"
  /\ IF checkpointBy = NoTask
     THEN /\ checkpointBy' = w
          /\ snapshot' = [snapshot EXCEPT ![w] = DOMAIN results]
          /\ Goto(w, "write")
     ELSE Goto(w, "reserve") /\ UNCHANGED <<checkpointBy, snapshot>>
  /\ UNCHANGED <<shared, local, saved, control>>

\* checkpoint_lock is taken, then the results are copied under `state`.
TakeSnapshot(w) ==
  /\ pc[w] = "checkpoint"
  /\ checkpointBy = NoTask
  /\ checkpointBy' = w
  /\ snapshot' = [snapshot EXCEPT ![w] = DOMAIN results]
  /\ Goto(w, "write")
  /\ UNCHANGED <<shared, local, saved, control>>

\* on_checkpoint(snapshot) while holding checkpoint_lock, then the
\* page_completed event; either call may raise.
WriteCheckpoint(w) ==
  /\ pc[w] = "write"
  /\ checkpointBy' = NoTask
  /\ \/ saved' = snapshot[w] /\ Goto(w, "reserve")
     \/ saved' = snapshot[w] /\ Goto(w, "except")
     \/ UNCHANGED saved /\ Goto(w, "except")
  /\ UNCHANGED <<shared, local, snapshot, control>>

\* Leaving the browser context may itself raise.
CloseBrowser(w) ==
  /\ pc[w] = "close"
  /\ \/ Goto(w, "done")
     \/ Goto(w, "except")
  /\ UNCHANGED <<shared, local, checkpoints, control>>

\* except BaseException: errors.append and notify_all under `state` ...
RecordError(w) ==
  /\ pc[w] = "except"
  /\ errors' = errors \cup {w}
  /\ Goto(w, "halt")
  /\ UNCHANGED <<shared, local, checkpoints, internalStop, stopAsked, outcome>>

\* The worker dies without telling the others.
HaltOthers_Silently(w) ==
  /\ pc[w] = "halt"
  /\ Goto(w, "done")
  /\ UNCHANGED <<shared, local, checkpoints, control>>

\* ... and only then internal_stop.set().
HaltOthers(w) ==
  /\ pc[w] = "halt"
  /\ internalStop' = TRUE
  /\ Goto(w, "done")
  /\ UNCHANGED <<shared, local, checkpoints, errors, stopAsked, outcome>>

\* The signal handler of the command sets the caller's stop event.
AskStop ==
  /\ outcome = "crawling"
  /\ ~stopAsked
  /\ stopAsked' = TRUE
  /\ UNCHANGED <<shared, pc, local, checkpoints, errors, internalStop, outcome>>

\* The calling thread has joined every worker.
JoinWorkers ==
  /\ outcome = "crawling"
  /\ \A w \in Workers : pc[w] = "done"
  /\ outcome' = CASE errors # {} -> "raised"
                  [] errors = {} /\ ShouldStop -> "cancelled"
                  [] OTHER -> "completed"
  /\ UNCHANGED <<shared, pc, local, checkpoints, errors, internalStop, stopAsked>>

Step(w) ==
  \/ OpenBrowser(w)
  \/ Reserve(w)
  \/ DrainAndWait(w)
  \/ NoMoreWork(w)
  \/ StartPage(w)
  \/ CrawlPage(w)
  \/ FinishTask(w)
  \/ TakeSnapshot(w)
  \/ WriteCheckpoint(w)
  \/ CloseBrowser(w)
  \/ RecordError(w)
  \/ HaltOthers(w)

Next ==
  \/ \E w \in Workers : Step(w)
  \/ AskStop
  \/ JoinWorkers

Spec == Init /\ [][Next]_vars

\* A thread that can run does run, Playwright calls time out, and the 0.2 s
\* poll re-evaluates the wait, so no worker needs a notification to go on.
Fairness == (\A w \in Workers : WF_vars(Step(w))) /\ WF_vars(JoinWorkers)

FairSpec == Spec /\ Fairness

-----------------------------------------------------------------------------
Labels == {"open", "reserve", "start", "crawl", "finish", "checkpoint", "write",
           "close", "except", "halt", "done"}

\* Workers that hold a reservation.
Busy == {w \in Workers : pc[w] \in {"start", "crawl", "finish"}}

TypeOK ==
  /\ frontier \in Seq(Tasks)
  /\ visited \subseteq Urls
  /\ IsFiniteSet(DOMAIN results)
  /\ results \in [DOMAIN results -> Tasks]
  /\ DOMAIN results \subseteq 1..dispatched
  /\ inFlight \in Nat
  /\ dispatched \in Nat
  /\ pc \in [Workers -> Labels]
  /\ index \in [Workers -> 0..dispatched]
  /\ task \in [Workers -> Tasks \cup {NoTask}]
  /\ page \in [Workers -> {"page", "none", "raised"}]
  /\ checkpointBy \in Workers \cup {NoTask}
  /\ snapshot \in [Workers -> SUBSET (1..dispatched)]
  /\ saved \subseteq 1..dispatched
  /\ errors \subseteq Workers
  /\ internalStop \in BOOLEAN
  /\ stopAsked \in BOOLEAN
  /\ outcome \in {"crawling", "completed", "cancelled", "raised"}

\* reserve_task's promise: pages obtained plus pages being crawled never
\* exceed --max-pages, so no request is ever made over the limit, and the
\* budget counter never forgets a worker that is still crawling.
PageBudget ==
  /\ Count + inFlight <= MaxPages
  /\ Cardinality(Busy) <= inFlight

\* No address is requested twice in one crawl, neither one after the other nor
\* by two workers at once, and no worker's page overwrites another's.
NoPageTwice ==
  /\ \A i, k \in DOMAIN results : results[i].url = results[k].url => i = k
  /\ \A v, w \in Busy : task[v].url = task[w].url \/ index[v] = index[w] => v = w
  /\ \A w \in Busy : /\ index[w] \notin DOMAIN results
                     /\ \A i \in DOMAIN results : results[i].url # task[w].url

\* The partial snapshot kept for a crawl that is later interrupted holds every
\* page obtained once the workers are through without an error.
LastCheckpointComplete ==
  outcome \in {"completed", "cancelled"} => saved = DOMAIN results

\* The crawl ends, whatever pages fail or workers die, once its threads run.
Terminates == <>(outcome # "crawling")

-----------------------------------------------------------------------------
\* The crawl as a traversal of the site.
Abstract == INSTANCE Traversal WITH
  taken <- visited,
  open <- {task[w] : w \in Busy},
  got <- {results[i] : i \in DOMAIN results},
  phase <- outcome

\* The workers together make one traversal: every reservation is a page that
\* was known and not yet taken, within budget.
ImplementsTraversal == Abstract!Spec

=============================================================================
