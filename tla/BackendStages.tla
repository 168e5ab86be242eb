--------------------------- MODULE BackendStages ---------------------------
(***************************************************************************)
(* The job file of a back-end test (System 08) and the pure functions on   *)
(* it: web/services/backendtest/stages.py and run_prep.py. Artifacts are   *)
(* left out; of the runs it keeps which ones ended, and of the report the  *)
(* runs it was made from.                                                  *)
(***************************************************************************)
EXTENDS Integers

CONSTANTS
  Design,           \* the stages generated from the one before: 1..6 in the code
  ReadStage         \* the reading of the material: 2 in the code

ASSUME StagesAssumption ==
  /\ Design \in Nat
  /\ ReadStage \in 1..(Design - 1)

Code == Design
Run == Design + 1
Report == Design + 2
Stages == 1..Report
Statuses == {"draft", "generated", "approved", "rejected"}
Active == {"queued", "running"}
Finished == {"done", "error"}     \* done, cancelled and timeout are one

\* The list of runs: each run's status, and whether its first record, by the
\* request that started it, already was the final one; and the end of the list.
NewJob == [status |-> [n \in Stages |-> "draft"],
           stale |-> [n \in Stages |-> FALSE],
           runs |-> [id \in {} |-> [status |-> "none", early |-> FALSE]],
           last |-> 0,
           judged |-> {}]

Listed(job) == DOMAIN job.runs

CanGenerate(job, n) == n = 1 \/ (job.status[n - 1] = "approved" /\ ~job.stale[n - 1])

Outdate_Next(job, n) ==
  [job EXCEPT !.stale = [k \in Stages |-> @[k] \/ (k = n + 1 /\ job.status[k] # "draft")]]

\* _stale_downstream: what was made after stage n is out of date.
Outdate(job, n) ==
  [job EXCEPT !.stale = [k \in Stages |-> @[k] \/ (k > n /\ job.status[k] # "draft")]]

Become(job, n, status) == [job EXCEPT !.status[n] = status]
Mark(job, n, stale) == [job EXCEPT !.stale[n] = stale]

Replace(job, n) == Outdate(Mark(Become(job, n, "generated"), n, FALSE), n)

\* put_generated without reopen. An approved stage keeps what it is: the same
\* result takes the mark of the stage before off, another one is a proposal.
Generate(job, n) ==
  IF job.status[n] = "approved" THEN {job, Mark(job, n, FALSE)}
                                ELSE {Replace(job, n)}

CanApprove(job, n) ==
  /\ job.status[n] = "generated" /\ ~job.stale[n]
  /\ n = Run => job.last \in Listed(job) /\ job.runs[job.last].status = "done"

Approve(job, n) == Become(job, n, "approved")

CanReject(job, n) == job.status[n] \in {"generated", "approved"}
Reject(job, n) == Outdate(Become(job, n, "rejected"), n)

\* New material: an approved reading is only marked, and nothing after it.
Reread(job) ==
  IF job.status[ReadStage] = "approved" THEN Mark(job, ReadStage, TRUE) ELSE job

\* _with_run: the entry of the run goes to the end of the list.
WithRun(job, id, status) ==
  LET early == IF id \in Listed(job) THEN job.runs[id].early ELSE status \in Finished
      listed == [job EXCEPT !.runs = [i \in Listed(job) \cup {id} |->
                                        IF i = id THEN [status |-> status, early |-> early] ELSE @[i]]]
  IN [listed EXCEPT !.last = id]

FinishStage_Keep(job, status) ==
  IF status \in Finished /\ CanGenerate(job, Run) /\ job.status[Run] # "approved"
  THEN Replace(job, Run) ELSE job

\* The end of a run makes the stage of the runs anew, approved or not.
FinishStage(job, status) ==
  IF status \in Finished /\ CanGenerate(job, Run) THEN Replace(job, Run) ELSE job

CanJudge(job) == (\A id \in Listed(job) : job.runs[id].status \notin Active) /\ CanGenerate(job, Report)

\* The report is made anew unless it is approved and up to date.
Judge(job) ==
  IF job.status[Report] = "approved" /\ ~job.stale[Report] THEN job
  ELSE [Replace(job, Report) EXCEPT !.judged = Listed(job)]

(***************************************************************************)
(* The stages hang together: whatever was made and is not marked as out    *)
(* of date rests on an approved stage that is not marked either, except    *)
(* that new material marks an approved reading alone (backend_test.py:196).*)
(***************************************************************************)
Built(job) ==
  \A n \in Stages \ {1} :
     job.status[n] # "draft" /\ ~job.stale[n]
       => job.status[n - 1] = "approved" /\ (job.stale[n - 1] => n - 1 = ReadStage)

(***************************************************************************)
(* A report that is not marked as out of date was made from every run      *)
(* that has ended, except those the request that started them recorded as  *)
(* ended already: nothing makes the stage of the runs anew for them.       *)
(***************************************************************************)
Covered(job) ==
  job.status[Report] # "draft" /\ ~job.stale[Report]
    => \A id \in Listed(job) :
         job.runs[id].status \in Finished => id \in job.judged \/ job.runs[id].early
=============================================================================
