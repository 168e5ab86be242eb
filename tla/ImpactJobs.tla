---------------------------- MODULE ImpactJobs ----------------------------
(***************************************************************************)
(* Impact analysis of one change request (CR): the jobs that analyse it in *)
(* background threads, the people who move it through review and decide on *)
(* its impacts meanwhile, and the recovery after a restart.                *)
(*                                                                         *)
(* Everything is kept in one SQLite file.  A write (with its audit row) is *)
(* one transaction; the SELECTs before it are not part of it.  So a        *)
(* request is a sequence of steps, each a read that decides or a write, and*)
(* the steps of requests and of analysis threads interleave.               *)
(***************************************************************************)
EXTENDS Naturals, FiniteSets

CONSTANTS Requests,      \* the server's request threads
          Items,         \* document items an analysis may find affected
          Ways,          \* the sets of changes an item can be found through
          MaxJobs,       \* bound: jobs ever created for this CR
          MaxFaults,     \* bound: errors of the database, an analysis or a thread's start
          MaxRestarts    \* bound: restarts of the server

ASSUME ImpactBounds == MaxJobs \in Nat /\ MaxFaults \in Nat /\ MaxRestarts \in Nat

Jobs == 1..MaxJobs

\* What an impact is recognised by in the next analysis (the keys of `old`).
Keys == Items \X Ways

VARIABLES
  status,     \* change_requests.status
  impacts,    \* the rows of impacts: key -> what people made of it
  job,        \* jobs.status, "none" for a row that does not exist yet
  cancel,     \* jobs.cancel
  thread,     \* where the thread of a job is
  old,        \* the impacts a thread has read, to carry the decisions over
  recovered,  \* _RECOVERED: this process has recovered the file
  req,        \* what each request is doing
  decided,    \* history: keys that became decided since a thread read `old`
  late,       \* history: an analysis saved although the review was settled
  overlap,    \* history: two first requests recovered at once
  faults, restarts

db      == <<status, impacts, job, cancel>>
history == <<decided, late, overlap>>
bounds  == <<faults, restarts>>
vars    == <<db, thread, old, recovered, req, history, bounds>>

\* crs.STATUSES without "rejected" are what an accepted CR goes through.
Reviewed == {"review", "approved", "implemented", "verified"}
LOCKED   == Reviewed \cup {"rejected"}

\* crs.NEXT: what a person may ask for.
NEXT(s) ==
  CASE s = "draft"       -> {"analyzing", "rejected"}
    [] s = "analyzing"   -> {"draft", "review"}
    [] s = "review"      -> {"approved", "returned"}
    [] s = "returned"    -> {"analyzing", "review", "rejected"}
    [] s = "approved"    -> {"implemented"}
    [] s = "implemented" -> {"verified"}
    [] OTHER             -> {}

Statuses == LOCKED \cup {"draft", "analyzing", "returned"}

Unfinished == {j \in Jobs : job[j] \in {"queued", "running"}}
Ended(j)   == job[j] \in {"done", "failed", "cancelled", "interrupted"}
Open       == {k \in Keys : impacts[k] = "open"}
Lost       == {"dead", "never"}  \* no thread: it broke off, or never started

Idle    == [at |-> "idle"]
Nothing == [k \in Keys |-> "absent"]

Init ==
  /\ status = "draft"
  /\ impacts = Nothing
  /\ job = [j \in Jobs |-> "none"]
  /\ cancel = [j \in Jobs |-> FALSE]
  /\ thread = [j \in Jobs |-> "off"]
  /\ old = [j \in Jobs |-> Nothing]
  /\ recovered = FALSE
  /\ req = [r \in Requests |-> Idle]
  /\ decided = [j \in Jobs |-> {}]
  /\ late = FALSE
  /\ overlap = FALSE
  /\ faults = 0
  /\ restarts = 0

Goes(r, to) == req' = [req EXCEPT ![r] = to]

-----------------------------------------------------------------------------
(* Every request opens the file; the first one of a process recovers it.   *)
(* (It then goes on with what it was for, which is like asking anew.)      *)

NeedsRecovery_Always == TRUE
NeedsRecovery == ~recovered

OpenDb(r) ==
  /\ req[r].at = "idle"
  /\ NeedsRecovery
  /\ Goes(r, [at |-> "stale", saw |-> recovered])
  /\ UNCHANGED <<db, thread, old, recovered, history, bounds>>

ToInterrupt_Running == {j \in Jobs : job[j] = "running"}
ToInterrupt == Unfinished

SelectUnfinished(r) ==
  /\ req[r].at = "stale"
  /\ Goes(r, [at |-> "recovering", saw |-> req[r].saw, rows |-> ToInterrupt])
  /\ UNCHANGED <<db, thread, old, recovered, history, bounds>>

\* One transaction; then _RECOVERED.add, which nothing can observe apart.
Recover(r) ==
  /\ req[r].at = "recovering"
  /\ LET rows == req[r].rows IN
     /\ job' = [j \in Jobs |-> IF j \in rows THEN "interrupted" ELSE job[j]]
     /\ status' = IF rows # {} /\ status = "analyzing" THEN "draft" ELSE status
  /\ overlap' = (overlap \/ (recovered /\ ~req[r].saw))
  /\ recovered' = TRUE
  /\ Goes(r, Idle)
  /\ UNCHANGED <<impacts, cancel, thread, old, decided, late, bounds>>

\* The file is recovered and r has nothing to finish: it may do something.
Ready(r) == req[r].at = "idle" /\ recovered

-----------------------------------------------------------------------------
(* Starting and cancelling an analysis.                                    *)

\* The route looks at the status on a connection of its own.
AskAnalysis(r) ==
  /\ Ready(r)
  /\ status \in {"draft", "returned", "analyzing"}
  /\ Goes(r, [at |-> "start"])
  /\ UNCHANGED <<db, thread, old, recovered, history, bounds>>

CheckBusy(r) ==
  /\ req[r].at = "start"
  /\ Goes(r, IF Unfinished = {} THEN [at |-> "insert"] ELSE Idle)
  /\ UNCHANGED <<db, thread, old, recovered, history, bounds>>

InsertJob(r) ==
  /\ req[r].at = "insert"
  /\ LET free == {j \in Jobs : job[j] = "none"} IN
     IF free = {}
     THEN Goes(r, Idle) /\ UNCHANGED job           \* the bound MaxJobs
     ELSE \E j \in free :
          /\ \A k \in free : j <= k
          /\ job' = [job EXCEPT ![j] = "queued"]
          /\ Goes(r, [at |-> "mark", job |-> j])
  /\ UNCHANGED <<status, impacts, cancel, thread, old, recovered, history, bounds>>

\* _set_cr writes whatever the status has become meanwhile; the thread starts.
MarkAnalyzing(r) ==
  /\ req[r].at = "mark"
  /\ status' = "analyzing"
  /\ thread' = [thread EXCEPT ![req[r].job] = "begin"]
  /\ Goes(r, Idle)
  /\ UNCHANGED <<impacts, job, cancel, old, recovered, history, bounds>>

\* The job is committed by now: when marking the CR or starting the thread fails, the
\* job is left queued and no thread will ever take it up.
StartFails(r) ==
  /\ req[r].at = "mark"
  /\ faults < MaxFaults
  /\ faults' = faults + 1
  /\ status' \in {status, "analyzing"}
  /\ thread' = [thread EXCEPT ![req[r].job] = "never"]
  /\ Goes(r, Idle)
  /\ UNCHANGED <<impacts, job, cancel, old, recovered, history, restarts>>

CancelJob(r) ==
  /\ Ready(r)
  /\ \E j \in Unfinished : cancel' = [cancel EXCEPT ![j] = TRUE]
  /\ Goes(r, Idle)
  /\ UNCHANGED <<status, impacts, job, thread, old, recovered, history, bounds>>

-----------------------------------------------------------------------------
(* Moving the CR, and deciding on its impacts.                             *)

\* transition reads the row and checks the step; the approver's two steps
\* are decide's, which reads and checks the same way.
AskMove(r) ==
  /\ Ready(r)
  /\ \E to \in NEXT(status) :
       Goes(r, [at |-> IF to = "review" THEN "check" ELSE "write", to |-> to])
  /\ UNCHANGED <<db, thread, old, recovered, history, bounds>>

ReviewReady_DoneOnly == \E j \in Jobs : job[j] = "done"
\* _check_review: some analysis is done and nothing is left open.
ReviewReady == Open = {} /\ \E j \in Jobs : job[j] = "done"

CheckReview(r) ==
  /\ req[r].at = "check"
  /\ Goes(r, IF ReviewReady THEN [at |-> "write", to |-> "review"] ELSE Idle)
  /\ late' = (late /\ ~ReviewReady)
  /\ UNCHANGED <<db, thread, old, recovered, decided, overlap, bounds>>

\* set_status: the new status is written over whatever is there by now.
WriteStatus(r) ==
  /\ req[r].at = "write"
  /\ status' = req[r].to
  /\ Goes(r, Idle)
  /\ UNCHANGED <<impacts, job, cancel, thread, old, recovered, history, bounds>>

\* _context: the impact exists and the CR is not LOCKED.
AskDecision(r) ==
  /\ Ready(r)
  /\ status \notin LOCKED
  /\ \E k \in Keys :
       /\ impacts[k] # "absent"
       /\ Goes(r, [at |-> "decide", key |-> k, row |-> TRUE])
  /\ UNCHANGED <<db, thread, old, recovered, history, bounds>>

\* Every thread that has read the impacts and not saved yet misses these decisions.
Missed(keys) ==
  [j \in Jobs |-> IF thread[j] \in {"scored", "saving"} THEN decided[j] \cup keys
                                                        ELSE decided[j]]

\* resolve updates the row with the id it was asked for: when an analysis
\* has replaced the rows, no row has that id and the answer is a 404.
WriteDecision(r) ==
  /\ req[r].at = "decide"
  /\ LET k == req[r].key IN
     IF req[r].row
     THEN /\ impacts' = [impacts EXCEPT ![k] = "resolved"]
          /\ decided' = Missed({k})
     ELSE UNCHANGED <<impacts, decided>>
  /\ Goes(r, Idle)
  /\ UNCHANGED <<status, job, cancel, thread, old, recovered, late, overlap, bounds>>

\* What a person asks for, and what a request then does by itself.
Ask(r) == AskAnalysis(r) \/ CancelJob(r) \/ AskMove(r) \/ AskDecision(r)

Continue(r) ==
  \/ OpenDb(r) \/ SelectUnfinished(r) \/ Recover(r)
  \/ CheckBusy(r) \/ InsertJob(r) \/ MarkAnalyzing(r) \/ StartFails(r)
  \/ CheckReview(r) \/ WriteStatus(r) \/ WriteDecision(r)

-----------------------------------------------------------------------------
(* The thread of a job.                                                    *)

At(j, from, to) == thread[j] = from /\ thread' = [thread EXCEPT ![j] = to]

Begin(j) ==
  /\ At(j, "begin", "analyze")
  /\ job' = [job EXCEPT ![j] = "running"]
  /\ UNCHANGED <<status, impacts, cancel, old, recovered, req, history, bounds>>

\* The three checks of cancelled() before the old impacts are read.
Analyze(j) ==
  /\ At(j, "analyze", IF cancel[j] THEN "cancelling" ELSE "read")
  /\ UNCHANGED <<db, old, recovered, req, history, bounds>>

ReadOld(j) ==
  /\ At(j, "read", "scored")
  /\ old' = [old EXCEPT ![j] = impacts]
  /\ decided' = [decided EXCEPT ![j] = {}]
  /\ UNCHANGED <<db, recovered, req, late, overlap, bounds>>

\* The last check of cancelled().
LastCheck(j) ==
  /\ At(j, "scored", IF cancel[j] THEN "cancelling" ELSE "saving")
  /\ UNCHANGED <<db, old, recovered, req, history, bounds>>

Row_Forgets(was) == "open"
\* A row of _save: what people decided is carried over, else it is open.
Row(was) == IF was = "absent" THEN "open" ELSE was

\* collect merges what it finds of an item: one row, with every change that led to it.
Findings == {f \in SUBSET Keys : \A k, l \in f : k[1] = l[1] => k = l}

\* _save: one transaction replaces the rows by those of the items found; an item
\* found through other changes than before is a new impact.
\* It looks neither at the CR's status nor at its own job's.  The new rows
\* have new ids: a decision about to be written has lost its row.
Save(j) ==
  /\ At(j, "saving", "saved")
  /\ \E found \in Findings :
       impacts' = [k \in Keys |-> IF k \in found THEN Row(old[j][k]) ELSE "absent"]
  /\ LET back == {k \in Keys : impacts[k] # "resolved" /\ impacts'[k] = "resolved"} IN
       decided' = [Missed(back) EXCEPT ![j] = {}]
  /\ req' = [r \in Requests |-> IF req[r].at = "decide" THEN [req[r] EXCEPT !.row = FALSE]
                                                       ELSE req[r]]
  /\ old' = [old EXCEPT ![j] = Nothing]
  /\ late' = (\/ late
              \/ status \in Reviewed
              \/ \E r \in Requests : req[r].at = "write" /\ req[r].to \in Reviewed)
  /\ UNCHANGED <<status, job, cancel, recovered, overlap, bounds>>

\* The CR stays "analyzing": a person moves it on to review.
Done(j) ==
  /\ At(j, "saved", "off")
  /\ job' = [job EXCEPT ![j] = "done"]
  /\ UNCHANGED <<status, impacts, cancel, old, recovered, req, history, bounds>>

\* Cancelled or failed: the job is closed, then the CR goes back to draft.
CloseJob(j) ==
  /\ \/ At(j, "cancelling", "undo_cancelled") /\ job' = [job EXCEPT ![j] = "cancelled"]
     \/ At(j, "failing", "undo_failed") /\ job' = [job EXCEPT ![j] = "failed"]
  /\ UNCHANGED <<status, impacts, cancel, old, recovered, req, history, bounds>>

BackToDraft(j) ==
  /\ \/ At(j, "undo_cancelled", "off")
     \/ At(j, "undo_failed", "off")
  /\ status' = "draft"
  /\ UNCHANGED <<impacts, job, cancel, old, recovered, req, history, bounds>>

Work(j) ==
  \/ Begin(j) \/ Analyze(j) \/ ReadOld(j) \/ LastCheck(j) \/ Save(j) \/ Done(j)
  \/ CloseJob(j) \/ BackToDraft(j)

-----------------------------------------------------------------------------
(* Errors and restarts.                                                    *)

InTry == {"analyze", "read", "scored", "saving", "saved", "cancelling", "undo_cancelled"}

\* An exception inside the try block goes to the handler; one of the
\* connection, which is opened before it, or of the handler itself ends the
\* thread without another word.
Error(j) ==
  /\ faults < MaxFaults
  /\ faults' = faults + 1
  /\ \/ thread[j] \in InTry \cup {"begin"} /\ thread' = [thread EXCEPT ![j] = "failing"]
     \/ thread[j] \in {"begin", "failing", "undo_failed"} /\ thread' = [thread EXCEPT ![j] = "dead"]
  /\ UNCHANGED <<db, old, recovered, req, history, restarts>>

Restart ==
  /\ restarts < MaxRestarts
  /\ restarts' = restarts + 1
  /\ thread' = [j \in Jobs |-> "off"]
  /\ old' = [j \in Jobs |-> Nothing]
  /\ decided' = [j \in Jobs |-> {}]
  /\ req' = [r \in Requests |-> Idle]
  /\ recovered' = FALSE
  /\ UNCHANGED <<db, late, overlap, faults>>

Next ==
  \/ \E r \in Requests : Ask(r) \/ Continue(r)
  \/ \E j \in Jobs : Work(j) \/ Error(j)
  \/ Restart

Spec == Init /\ [][Next]_vars

-----------------------------------------------------------------------------
(* What the jobs and the review promise each other.                        *)

\* A change request under or past review has no impact nobody decided on,
\* unless an analysis that was still running saved after the review was
\* checked (crs._check_review against engine/run._save).
ReviewedIsSettled == status \in Reviewed /\ Open # {} => late

\* A person's decision on an impact that is found again through the same changes
\* outlives a new analysis, unless that analysis had read the decisions before:
\* before it was made, or before another analysis that still knew it put it back
\* (engine/run.analyze and _save, CARRY).
DecisionsKept ==
  [][\A k \in Keys : impacts[k] = "resolved" /\ impacts'[k] = "open"
       => \E j \in Jobs : thread[j] = "saving" /\ k \in decided[j]]_vars

\* How a job ended stands: only the cancellation whose CR could not be
\* reset becomes a failure, and only two first requests at once make the
\* recovery interrupt a job that is running (jobs._work, impact_api.open_db).
EndedStays ==
  [][\A j \in Jobs : Ended(j) /\ job'[j] # job[j]
       => \/ job[j] = "cancelled" /\ job'[j] = "failed"
          \/ overlap']_vars

\* A job that is not over has somebody to finish it: its thread, the request
\* that is about to start that thread, or the recovery of the process's
\* first request.  Else an error has kept its thread from starting, or from
\* recording how it ended, and the CR cannot be analysed again before a restart
\* (jobs._work, jobs.start, jobs.recover, impact_api.open_db).
UnfinishedHasWorker ==
  \A j \in Unfinished : thread[j] \notin Lost =>
    \/ thread[j] # "off"
    \/ \E r \in Requests : req[r].at = "mark" /\ req[r].job = j
    \/ ~recovered

=============================================================================
