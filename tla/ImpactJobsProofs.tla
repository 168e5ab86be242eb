-------------------------- MODULE ImpactJobsProofs --------------------------
(***************************************************************************)
(* ImpactJobs for every number of requests, items, changes, jobs, errors   *)
(* and restarts: what went through review is settled, decisions outlive a  *)
(* new analysis, ended jobs stay ended, and unfinished ones have somebody  *)
(* to end them.                                                            *)
(***************************************************************************)
EXTENDS ImpactJobs, TLAPS

Outcomes == {"done", "failed", "cancelled", "interrupted"}
Places == InTry \cup {"off", "begin", "failing", "undo_failed", "dead", "never"}

RequestStates ==
  [at : {"idle", "start", "insert"}]
  \cup [at : {"stale"}, saw : BOOLEAN]
  \cup [at : {"recovering"}, saw : BOOLEAN, rows : SUBSET Jobs]
  \cup [at : {"mark"}, job : Jobs]
  \cup [at : {"check", "write"}, to : Statuses]
  \cup [at : {"decide"}, key : Keys, row : BOOLEAN]

TypeOK ==
  /\ status \in Statuses
  /\ impacts \in [Keys -> {"absent", "open", "resolved"}]
  /\ job \in [Jobs -> {"none", "queued", "running"} \cup Outcomes]
  /\ cancel \in [Jobs -> BOOLEAN]
  /\ thread \in [Jobs -> Places]
  /\ old \in [Jobs -> [Keys -> {"absent", "open", "resolved"}]]
  /\ recovered \in BOOLEAN
  /\ req \in [Requests -> RequestStates]
  /\ decided \in [Jobs -> SUBSET Keys]
  /\ late \in BOOLEAN /\ overlap \in BOOLEAN
  /\ faults \in Nat /\ restarts \in Nat

\* What is reviewed, or is about to be, is settled.
SettledInv ==
  \/ late
  \/ Open = {}
  \/ status \notin Reviewed /\ \A r \in Requests : req[r].at = "write" => req[r].to \notin Reviewed

\* A thread that is going to save knows every decision, or has missed it.
KeptInv ==
  \A j \in Jobs : thread[j] \in {"scored", "saving"} =>
    \A i \in Keys : impacts[i] = "resolved" => old[j][i] = "resolved" \/ i \in decided[j]

\* Before the recovery nothing runs, and the jobs to be interrupted are the unfinished ones.
RecoveryInv ==
  /\ \A r \in Requests : req[r].at \in {"stale", "recovering"} => req[r].saw = FALSE
  /\ ~recovered =>
       /\ \A j \in Jobs : thread[j] = "off"
       /\ \A r \in Requests :
            /\ req[r].at \in {"idle", "stale", "recovering"}
            /\ req[r].at = "recovering" => req[r].rows = Unfinished

\* An unfinished job is left alone only by a thread that broke off or never started.
Attended ==
  \A j \in Unfinished :
    \/ thread[j] # "off"
    \/ \E r \in Requests : req[r].at = "mark" /\ req[r].job = j
    \/ ~recovered

\* A thread does not leave before its job has ended.
WorkerInv ==
  /\ Attended
  /\ \A j \in Jobs : thread[j] \in {"undo_cancelled", "undo_failed"} => Ended(j)

\* The status of a job that fits the place of its thread.
Fits(place) ==
  CASE place = "begin" -> {"queued"}
    [] place \in {"analyze", "read", "scored", "saving", "saved", "cancelling"} -> {"running"}
    [] place = "undo_cancelled" -> {"cancelled"}
    [] place = "failing" -> {"queued", "running", "cancelled"}
    [] place = "off" -> {"none", "queued", "running"} \cup Outcomes
    [] OTHER -> {"queued", "running"} \cup Outcomes

\* A job has one thread, which alone sets its status, unless two first requests met.
JobInv ==
  ~overlap =>
    /\ \A j \in Jobs : job[j] \in Fits(thread[j])
    /\ \A r \in Requests : req[r].at = "mark" =>
         /\ job[req[r].job] = "queued" /\ thread[req[r].job] = "off"
         /\ \A q \in Requests : q # r /\ req[q].at = "mark" => req[q].job # req[r].job

IInv == TypeOK /\ SettledInv /\ KeptInv /\ RecoveryInv /\ WorkerInv /\ JobInv

-----------------------------------------------------------------------------
(* What a request is doing.                                                *)

LEMMA RequestKinds ==
  ASSUME TypeOK, NEW r \in Requests
  PROVE  /\ req[r] \in RequestStates
         /\ req[r].at = "recovering" => req[r].rows \subseteq Jobs /\ req[r].saw \in BOOLEAN
         /\ req[r].at = "stale" => req[r].saw \in BOOLEAN
         /\ req[r].at = "mark" => req[r].job \in Jobs
         /\ req[r].at \in {"check", "write"} => req[r].to \in Statuses
         /\ req[r].at = "decide" =>
              /\ req[r].key \in Keys /\ req[r].row \in BOOLEAN
              /\ [req[r] EXCEPT !.row = FALSE] \in RequestStates
              /\ [req[r] EXCEPT !.row = FALSE].at = "decide"
<1>1. req[r] \in RequestStates
  BY DEF TypeOK
<1> QED
  BY <1>1 DEF RequestStates

LEMMA GoesTo ==
  ASSUME TypeOK, NEW r \in Requests, NEW to \in RequestStates, Goes(r, to)
  PROVE  /\ req' \in [Requests -> RequestStates]
         /\ req'[r] = to
         /\ \A q \in Requests : q # r => req'[q] = req[q]
  BY DEF TypeOK, Goes

LEMMA ThreadGoes ==
  ASSUME TypeOK, NEW j \in Jobs, NEW from \in Places, NEW to \in Places, At(j, from, to)
  PROVE  /\ thread' \in [Jobs -> Places]
         /\ thread[j] = from /\ thread'[j] = to
         /\ \A k \in Jobs : k # j => thread'[k] = thread[k]
  BY DEF TypeOK, At

\* The tables and the history keep their types.
LEMMA MissedType ==
  ASSUME TypeOK, NEW keys \in SUBSET Keys
  PROVE  /\ Missed(keys) \in [Jobs -> SUBSET Keys]
         /\ \A j \in Jobs : decided[j] \subseteq Missed(keys)[j]
         /\ \A j \in Jobs : thread[j] \in {"scored", "saving"} => keys \subseteq Missed(keys)[j]
  BY DEF TypeOK, Missed

LEMMA InitIInv == Init => IInv
<1> SUFFICES ASSUME Init PROVE IInv
  OBVIOUS
<1>1. TypeOK
  BY DEF Init, TypeOK, Statuses, Nothing, Idle, RequestStates, Places
<1>2. SettledInv /\ KeptInv
  BY DEF Init, SettledInv, KeptInv, Open, Nothing
<1>3. RecoveryInv /\ WorkerInv
  BY DEF Init, RecoveryInv, WorkerInv, Attended, Idle, Unfinished
<1>4. JobInv
  BY DEF Init, JobInv, Idle, Fits
<1> QED
  BY <1>1, <1>2, <1>3, <1>4 DEF IInv

-----------------------------------------------------------------------------
(* What a step of a request may be.                                        *)

\* A request goes on without touching jobs, impacts or the status.
LEMMA RequestMoves ==
  ASSUME IInv, NEW r \in Requests, NEW to \in RequestStates, Goes(r, to),
         UNCHANGED <<status, impacts, job, thread, old, recovered, decided, overlap, faults, restarts>>,
         cancel' \in [Jobs -> BOOLEAN], late' \in BOOLEAN,
         \/ Open = {}
         \/ /\ late' = late
            /\ to.at = "write" /\ to.to \in Reviewed => status \in Reviewed,
         req[r].at # "mark", to.at # "mark",
         to.at \in {"stale", "recovering"} => to.saw = FALSE,
         to.at = "recovering" => to.rows = Unfinished,
         recovered \/ to.at \in {"idle", "stale", "recovering"}
  PROVE  IInv'
<1> USE DEF IInv
<1>1. /\ req' \in [Requests -> RequestStates] /\ req'[r] = to
      /\ \A q \in Requests : q # r => req'[q] = req[q]
  BY GoesTo
<1>2. Unfinished' = Unfinished /\ Open' = Open
  BY DEF Unfinished, Open
<1>3. TypeOK'
  BY <1>1 DEF TypeOK
<1>4. SettledInv' /\ KeptInv'
  BY <1>1, <1>2 DEF SettledInv, KeptInv
<1>5. RecoveryInv'
  BY <1>1, <1>2 DEF RecoveryInv
<1>6. WorkerInv'
  BY <1>1, <1>2 DEF WorkerInv, Attended, Ended
<1>7. JobInv'
  BY <1>1 DEF JobInv
<1> QED
  BY <1>3, <1>4, <1>5, <1>6, <1>7

\* A thread goes on, or ends together with its job.
LEMMA ThreadMoves ==
  ASSUME IInv, TypeOK', SettledInv', KeptInv',
         NEW j \in Jobs, NEW from \in Places \ {"off"}, NEW to \in Places, At(j, from, to),
         NEW new, job' = [job EXCEPT ![j] = new],
         UNCHANGED <<recovered, overlap>>,
         \A r \in Requests : req'[r] = req[r] \/ (req[r].at = "decide" /\ req'[r].at = "decide"),
         ~overlap => new \in Fits(to),
         to \in {"off", "undo_cancelled", "undo_failed"} => new \in Outcomes
  PROVE  IInv'
<1> USE DEF IInv
<1>1. /\ thread[j] = from /\ thread'[j] = to /\ job'[j] = new
      /\ \A k \in Jobs : k # j => thread'[k] = thread[k] /\ job'[k] = job[k]
  BY ThreadGoes DEF TypeOK
<1>2. recovered /\ recovered'
  BY <1>1 DEF RecoveryInv
<1>3. RecoveryInv'
  BY <1>2 DEF RecoveryInv
<1>4. WorkerInv'
  <2>1. Attended'
    <3> SUFFICES ASSUME NEW k \in Unfinished'
                 PROVE  \/ thread'[k] # "off"
                        \/ \E r \in Requests : req'[r].at = "mark" /\ req'[r].job = k
      BY DEF Attended
    <3>1. CASE k = j
      BY <1>1, <3>1 DEF Unfinished, Outcomes
    <3>2. CASE k # j
      BY <1>1, <1>2, <3>2 DEF WorkerInv, Attended, Unfinished
    <3> QED
      BY <3>1, <3>2
  <2> QED
    BY <1>1, <2>1 DEF WorkerInv, Ended, Outcomes
<1>5. JobInv'
  <2> SUFFICES ASSUME ~overlap'
               PROVE  /\ \A k \in Jobs : job'[k] \in Fits(thread'[k])
                      /\ \A r \in Requests : req'[r].at = "mark" =>
                           /\ job'[req'[r].job] = "queued" /\ thread'[req'[r].job] = "off"
                           /\ \A q \in Requests : q # r /\ req'[q].at = "mark" =>
                                req'[q].job # req'[r].job
    BY DEF JobInv, Fits
  <2>1. ASSUME NEW k \in Jobs PROVE job'[k] \in Fits(thread'[k])
    <3>1. CASE k = j
      BY <1>1, <3>1
    <3>2. CASE k # j
      BY <1>1, <3>2 DEF JobInv
    <3> QED
      BY <3>1, <3>2
  <2>2. \A r \in Requests : req'[r].at = "mark" => req[r].at = "mark" /\ req'[r].job = req[r].job
    OBVIOUS
  <2>3. ASSUME NEW r \in Requests, req'[r].at = "mark"
        PROVE  req[r].job \in Jobs /\ req[r].job # j
    BY <1>1, <2>2, <2>3, RequestKinds DEF JobInv
  <2>4. ASSUME NEW r \in Requests, req'[r].at = "mark"
        PROVE  /\ job'[req'[r].job] = "queued" /\ thread'[req'[r].job] = "off"
               /\ \A q \in Requests : q # r /\ req'[q].at = "mark" => req'[q].job # req'[r].job
    <3>1. /\ req'[r].job = req[r].job /\ req[r].at = "mark"
          /\ req[r].job \in Jobs /\ req[r].job # j
      BY <2>2, <2>3, <2>4
    <3>2. job'[req[r].job] = "queued" /\ thread'[req[r].job] = "off"
      BY <1>1, <3>1 DEF JobInv
    <3>3. \A q \in Requests : q # r /\ req[q].at = "mark" => req[q].job # req[r].job
      BY <3>1 DEF JobInv
    <3> QED
      BY <2>2, <3>1, <3>2, <3>3
  <2> QED
    BY <2>1, <2>4
<1> QED
  BY <1>3, <1>4, <1>5

-----------------------------------------------------------------------------
(* The steps of a request.                                                 *)

LEMMA OpenDbIInv ==
  ASSUME IInv, NEW r \in Requests, OpenDb(r)
  PROVE  IInv'
<1> DEFINE to == [at |-> "stale", saw |-> recovered]
<1>1. /\ to \in RequestStates /\ to.at = "stale" /\ to.saw = FALSE /\ req[r].at = "idle"
      /\ Goes(r, to)
  BY DEF OpenDb, NeedsRecovery, IInv, TypeOK, RequestStates
<1>2. /\ UNCHANGED <<status, impacts, job, thread, old, recovered, decided, overlap, faults,
                      restarts>>
      /\ cancel' \in [Jobs -> BOOLEAN] /\ late' \in BOOLEAN /\ late' = late
  BY DEF OpenDb, db, history, bounds, IInv, TypeOK
<1> HIDE DEF to
<1> QED
  BY <1>1, <1>2, RequestMoves

LEMMA SelectUnfinishedIInv ==
  ASSUME IInv, NEW r \in Requests, SelectUnfinished(r)
  PROVE  IInv'
<1> DEFINE to == [at |-> "recovering", saw |-> req[r].saw, rows |-> ToInterrupt]
<1>1. req[r].at = "stale" /\ req[r].saw = FALSE /\ Goes(r, to)
  BY DEF SelectUnfinished, IInv, RecoveryInv
<1>2. to \in RequestStates /\ to.at = "recovering" /\ to.saw = FALSE /\ to.rows = Unfinished
  BY <1>1 DEF RequestStates, ToInterrupt, Unfinished
<1>3. /\ UNCHANGED <<status, impacts, job, thread, old, recovered, decided, overlap, faults,
                      restarts>>
      /\ cancel' \in [Jobs -> BOOLEAN] /\ late' \in BOOLEAN /\ late' = late
  BY DEF SelectUnfinished, db, history, bounds, IInv, TypeOK
<1> HIDE DEF to
<1> QED
  BY <1>1, <1>2, <1>3, RequestMoves

LEMMA AskAnalysisIInv ==
  ASSUME IInv, NEW r \in Requests, AskAnalysis(r)
  PROVE  IInv'
<1> DEFINE to == [at |-> "start"]
<1>1. to \in RequestStates /\ to.at = "start" /\ req[r].at = "idle" /\ recovered /\ Goes(r, to)
  BY DEF AskAnalysis, Ready, RequestStates
<1>2. /\ UNCHANGED <<status, impacts, job, thread, old, recovered, decided, overlap, faults,
                      restarts>>
      /\ cancel' \in [Jobs -> BOOLEAN] /\ late' \in BOOLEAN /\ late' = late
  BY DEF AskAnalysis, db, history, bounds, IInv, TypeOK
<1> HIDE DEF to
<1> QED
  BY <1>1, <1>2, RequestMoves

LEMMA CheckBusyIInv ==
  ASSUME IInv, NEW r \in Requests, CheckBusy(r)
  PROVE  IInv'
<1> DEFINE to == IF Unfinished = {} THEN [at |-> "insert"] ELSE Idle
<1>1. to \in RequestStates /\ to.at \in {"insert", "idle"} /\ req[r].at = "start" /\ Goes(r, to)
  BY DEF CheckBusy, RequestStates, Idle
<1>2. /\ UNCHANGED <<status, impacts, job, thread, old, recovered, decided, overlap, faults,
                      restarts>>
      /\ cancel' \in [Jobs -> BOOLEAN] /\ late' \in BOOLEAN /\ late' = late
  BY DEF CheckBusy, db, history, bounds, IInv, TypeOK
<1>3. recovered
  BY <1>1 DEF IInv, RecoveryInv
<1> HIDE DEF to
<1> QED
  BY <1>1, <1>2, <1>3, RequestMoves

LEMMA CancelJobIInv ==
  ASSUME IInv, NEW r \in Requests, CancelJob(r)
  PROVE  IInv'
<1>1. Idle \in RequestStates /\ Idle.at = "idle" /\ req[r].at = "idle" /\ Goes(r, Idle)
  BY DEF CancelJob, Ready, RequestStates, Idle
<1>2. /\ UNCHANGED <<status, impacts, job, thread, old, recovered, decided, overlap, faults,
                      restarts>>
      /\ cancel' \in [Jobs -> BOOLEAN] /\ late' \in BOOLEAN /\ late' = late
  BY DEF CancelJob, history, bounds, IInv, TypeOK
<1> HIDE DEF Idle
<1> QED
  BY <1>1, <1>2, RequestMoves

\* A step that only the reviewed may take keeps what the review has settled.
LEMMA AskMoveIInv ==
  ASSUME IInv, NEW r \in Requests, AskMove(r)
  PROVE  IInv'
<1>1. PICK new \in NEXT(status) :
        Goes(r, [at |-> IF new = "review" THEN "check" ELSE "write", to |-> new])
  BY DEF AskMove
<1> DEFINE to == [at |-> IF new = "review" THEN "check" ELSE "write", to |-> new]
<1>2. new \in Statuses /\ (new \in Reviewed /\ new # "review" => status \in Reviewed)
  BY DEF IInv, TypeOK, NEXT, Statuses, LOCKED, Reviewed
<1>3. /\ to \in RequestStates /\ to.at \in {"check", "write"} /\ to.to = new
      /\ (to.at = "write" => new # "review") /\ Goes(r, to)
  BY <1>1, <1>2 DEF RequestStates
<1>4. /\ UNCHANGED <<status, impacts, job, thread, old, recovered, decided, overlap, faults,
                      restarts>>
      /\ cancel' \in [Jobs -> BOOLEAN] /\ late' \in BOOLEAN /\ late' = late
      /\ req[r].at = "idle" /\ recovered
  BY DEF AskMove, Ready, db, history, bounds, IInv, TypeOK
<1> HIDE DEF to
<1> QED
  BY <1>2, <1>3, <1>4, RequestMoves

\* What the check lets through has nothing open.
LEMMA CheckReviewIInv ==
  ASSUME IInv, NEW r \in Requests, CheckReview(r)
  PROVE  IInv'
<1> DEFINE to == IF ReviewReady THEN [at |-> "write", to |-> "review"] ELSE Idle
<1>1. to \in RequestStates /\ to.at \in {"write", "idle"}
  BY DEF RequestStates, Idle, Statuses, LOCKED, Reviewed
<1>2. /\ req[r].at = "check" /\ Goes(r, to)
      /\ late' = (late /\ ~ReviewReady)
  BY DEF CheckReview
<1>3. Open = {} \/ (late' = late /\ to.at = "idle")
  BY <1>2 DEF ReviewReady, Idle, IInv, TypeOK
<1>4. /\ UNCHANGED <<status, impacts, job, thread, old, recovered, decided, overlap, faults,
                      restarts>>
      /\ cancel' \in [Jobs -> BOOLEAN] /\ late' \in BOOLEAN
  BY <1>2 DEF CheckReview, db, bounds, IInv, TypeOK
<1>5. recovered
  BY <1>2 DEF IInv, RecoveryInv
<1> HIDE DEF to
<1> QED
  BY <1>1, <1>2, <1>3, <1>4, <1>5, RequestMoves

LEMMA AskDecisionIInv ==
  ASSUME IInv, NEW r \in Requests, AskDecision(r)
  PROVE  IInv'
<1>1. PICK i \in Keys : Goes(r, [at |-> "decide", key |-> i, row |-> TRUE])
  BY DEF AskDecision
<1> DEFINE to == [at |-> "decide", key |-> i, row |-> TRUE]
<1>2. to \in RequestStates /\ to.at = "decide" /\ Goes(r, to)
  BY <1>1 DEF RequestStates
<1>3. /\ UNCHANGED <<status, impacts, job, thread, old, recovered, decided, overlap, faults,
                      restarts>>
      /\ cancel' \in [Jobs -> BOOLEAN] /\ late' \in BOOLEAN /\ late' = late
      /\ req[r].at = "idle" /\ recovered
  BY DEF AskDecision, Ready, db, history, bounds, IInv, TypeOK
<1> HIDE DEF to
<1> QED
  BY <1>2, <1>3, RequestMoves

\* The new job is the request's own: it is queued, has no thread, and nobody else's.
LEMMA InsertJobIInv ==
  ASSUME IInv, NEW r \in Requests, InsertJob(r)
  PROVE  IInv'
<1>1. /\ req[r].at = "insert"
      /\ UNCHANGED <<status, impacts, cancel, thread, old, recovered, decided, late, overlap,
                      faults, restarts>>
  BY DEF InsertJob, history, bounds
<1>2. recovered
  BY <1>1 DEF IInv, RecoveryInv
<1>3. CASE Goes(r, Idle) /\ UNCHANGED job
  <2>1. Idle \in RequestStates /\ Idle.at = "idle"
    BY DEF Idle, RequestStates
  <2>2. cancel' \in [Jobs -> BOOLEAN] /\ late' \in BOOLEAN
    BY <1>1 DEF IInv, TypeOK
  <2> QED
    BY <1>1, <1>2, <1>3, <2>1, <2>2, RequestMoves
<1>4. ASSUME NEW j \in Jobs, job[j] = "none", job' = [job EXCEPT ![j] = "queued"],
             Goes(r, [at |-> "mark", job |-> j])
      PROVE  IInv'
  <2> USE DEF IInv
  <2> DEFINE to == [at |-> "mark", job |-> j]
  <2>1. to \in RequestStates /\ to.at = "mark" /\ to.job = j /\ Goes(r, to)
    BY <1>4 DEF RequestStates
  <2> HIDE DEF to
  <2>2. /\ req' \in [Requests -> RequestStates] /\ req'[r] = to
        /\ \A q \in Requests : q # r => req'[q] = req[q]
    BY <2>1, GoesTo
  <2>3. job'[j] = "queued" /\ \A k \in Jobs : k # j => job'[k] = job[k]
    BY <1>4 DEF TypeOK
  <2>4. TypeOK'
    BY <1>1, <1>4, <2>2 DEF TypeOK
  <2>5. SettledInv' /\ KeptInv'
    BY <1>1, <2>1, <2>2 DEF SettledInv, KeptInv, Open
  <2>6. RecoveryInv'
    BY <1>1, <1>2, <2>1, <2>2 DEF RecoveryInv
  <2>7. WorkerInv'
    <3>1. \A k \in Unfinished' : k = j \/ k \in Unfinished
      BY <2>3 DEF Unfinished
    <3>2. thread[j] \notin {"undo_cancelled", "undo_failed"}
      BY <1>4 DEF WorkerInv, Ended
    <3>3. \A k \in Unfinished : \/ thread[k] # "off"
                                \/ \E q \in Requests : q # r /\ req[q].at = "mark" /\ req[q].job = k
      BY <1>1, <1>2 DEF WorkerInv, Attended
    <3>4. Attended'
      BY <1>1, <2>1, <2>2, <3>1, <3>3 DEF Attended
    <3> QED
      BY <1>1, <2>3, <3>2, <3>4 DEF WorkerInv, Ended
  <2>8. JobInv'
    <3> SUFFICES ASSUME ~overlap
                 PROVE  /\ \A k \in Jobs : job'[k] \in Fits(thread'[k])
                        /\ \A q \in Requests : req'[q].at = "mark" =>
                             /\ job'[req'[q].job] = "queued" /\ thread'[req'[q].job] = "off"
                             /\ \A p \in Requests : p # q /\ req'[p].at = "mark" =>
                                  req'[p].job # req'[q].job
      BY <1>1 DEF JobInv
    <3>1. thread[j] = "off"
      BY <1>4 DEF JobInv, Fits, TypeOK, Places, InTry, Outcomes
    <3>2. \A q \in Requests : q # r /\ req[q].at = "mark" => req[q].job \in Jobs /\ req[q].job # j
      BY <1>4, RequestKinds DEF JobInv
    <3> QED
      BY <1>1, <2>1, <2>2, <2>3, <3>1, <3>2 DEF JobInv, Fits
  <2> QED
    BY <2>4, <2>5, <2>6, <2>7, <2>8
<1>5. \/ Goes(r, Idle) /\ UNCHANGED job
      \/ \E j \in Jobs : /\ job[j] = "none" /\ job' = [job EXCEPT ![j] = "queued"]
                         /\ Goes(r, [at |-> "mark", job |-> j])
  BY DEF InsertJob
<1> QED
  BY <1>3, <1>4, <1>5

\* The thread starts, or never will, and the job is no longer its request's.
LEMMA MarkAnalyzingIInv ==
  ASSUME IInv, NEW r \in Requests, MarkAnalyzing(r) \/ StartFails(r)
  PROVE  IInv'
<1> USE DEF IInv
<1>1. PICK j \in Jobs : j = req[r].job
  BY RequestKinds DEF MarkAnalyzing, StartFails
<1>2. PICK place \in {"begin", "never"} :
      /\ req[r].at = "mark" /\ status' \in {status, "analyzing"} /\ Goes(r, Idle)
      /\ thread' = [thread EXCEPT ![j] = place]
      /\ faults' \in Nat
      /\ UNCHANGED <<impacts, job, cancel, old, recovered, decided, late, overlap, restarts>>
  BY <1>1 DEF MarkAnalyzing, StartFails, history, bounds, TypeOK
<1>3. /\ req' \in [Requests -> RequestStates] /\ req'[r] = Idle
      /\ \A q \in Requests : q # r => req'[q] = req[q]
  <2>1. Idle \in RequestStates
    BY DEF Idle, RequestStates
  <2> QED
    BY <1>2, <2>1, GoesTo
<1>4. /\ thread'[j] = place /\ Idle.at = "idle"
      /\ \A k \in Jobs : k # j => thread'[k] = thread[k]
  BY <1>2 DEF TypeOK, Idle
<1>5. recovered
  BY <1>2 DEF RecoveryInv
<1>6. TypeOK'
  BY <1>2, <1>3 DEF TypeOK, Places, Statuses
<1>7. SettledInv'
  BY <1>2, <1>3, <1>4 DEF SettledInv, Open, Reviewed
<1>8. KeptInv'
  BY <1>2, <1>4 DEF KeptInv
<1>9. RecoveryInv'
  BY <1>2, <1>3, <1>4, <1>5 DEF RecoveryInv
<1>10. WorkerInv'
  <2>1. ASSUME NEW k \in Unfinished, k # j
        PROVE  \/ thread'[k] # "off"
               \/ \E q \in Requests : req'[q].at = "mark" /\ req'[q].job = k
    <3>1. k \in Jobs
      BY DEF Unfinished
    <3>2. \/ thread[k] # "off"
          \/ \E q \in Requests : q # r /\ req[q].at = "mark" /\ req[q].job = k
      BY <1>1, <1>5, <2>1 DEF WorkerInv, Attended
    <3> QED
      BY <1>3, <1>4, <2>1, <3>1, <3>2
  <2>2. Attended'
    BY <1>2, <1>4, <2>1 DEF Attended, Unfinished
  <2> QED
    BY <1>2, <1>4, <2>2 DEF WorkerInv, Ended
<1>11. JobInv'
  BY <1>1, <1>2, <1>3, <1>4, RequestKinds DEF JobInv, Fits
<1> QED
  BY <1>6, <1>7, <1>8, <1>9, <1>10, <1>11

\* The request is over: nothing else of it counts.
LEMMA RequestEnds ==
  ASSUME IInv, TypeOK', SettledInv', KeptInv', NEW r \in Requests, Goes(r, Idle),
         req[r].at # "mark", req[r].at \notin {"idle", "stale", "recovering"},
         UNCHANGED <<job, thread, recovered, overlap>>
  PROVE  IInv'
<1> USE DEF IInv
<1>1. /\ req'[r].at = "idle"
      /\ \A q \in Requests : q # r => req'[q] = req[q]
  BY DEF TypeOK, Goes, Idle
<1>2. recovered
  BY DEF RecoveryInv
<1>3. RecoveryInv'
  BY <1>1, <1>2 DEF RecoveryInv
<1>4. WorkerInv'
  BY <1>1, <1>2 DEF WorkerInv, Attended, Unfinished, Ended
<1>5. JobInv'
  BY <1>1 DEF JobInv
<1> QED
  BY <1>3, <1>4, <1>5

LEMMA WriteStatusIInv ==
  ASSUME IInv, NEW r \in Requests, WriteStatus(r)
  PROVE  IInv'
<1>1. /\ req[r].at = "write" /\ status' = req[r].to /\ Goes(r, Idle)
      /\ UNCHANGED <<impacts, job, cancel, thread, old, recovered, decided, late, overlap, faults,
                      restarts>>
  BY DEF WriteStatus, history, bounds
<1>2. /\ req' \in [Requests -> RequestStates] /\ req'[r].at = "idle"
      /\ \A q \in Requests : q # r => req'[q] = req[q]
  BY <1>1 DEF IInv, TypeOK, Goes, Idle, RequestStates
<1>3. TypeOK'
  BY <1>1, <1>2, RequestKinds DEF IInv, TypeOK
<1>4. SettledInv'
  BY <1>1, <1>2 DEF IInv, SettledInv, Open
<1>5. KeptInv'
  BY <1>1 DEF IInv, KeptInv
<1> QED
  BY <1>1, <1>3, <1>4, <1>5, RequestEnds

\* Every thread that has read the impacts misses the decision.
LEMMA WriteDecisionIInv ==
  ASSUME IInv, NEW r \in Requests, WriteDecision(r)
  PROVE  IInv'
<1>1. /\ req[r].at = "decide" /\ Goes(r, Idle)
      /\ UNCHANGED <<status, job, cancel, thread, old, recovered, late, overlap, faults, restarts>>
  BY DEF WriteDecision, bounds
<1>2. /\ req' \in [Requests -> RequestStates] /\ req'[r].at = "idle"
      /\ \A q \in Requests : q # r => req'[q] = req[q]
  BY <1>1 DEF IInv, TypeOK, Goes, Idle, RequestStates
<1>3. PICK i \in Keys : i = req[r].key
  BY <1>1, RequestKinds DEF IInv
<1>4. \/ impacts' = [impacts EXCEPT ![i] = "resolved"] /\ decided' = Missed({i})
      \/ UNCHANGED <<impacts, decided>>
  BY <1>3 DEF WriteDecision
<1>5. /\ Missed({i}) \in [Jobs -> SUBSET Keys]
      /\ \A j \in Jobs : decided[j] \subseteq Missed({i})[j]
      /\ \A j \in Jobs : thread[j] \in {"scored", "saving"} => i \in Missed({i})[j]
  BY MissedType DEF IInv
<1>6. TypeOK'
  BY <1>1, <1>2, <1>4, <1>5 DEF IInv, TypeOK
<1>7. SettledInv'
  <2>1. Open' \subseteq Open
    BY <1>4 DEF Open, IInv, TypeOK
  <2> QED
    BY <1>1, <1>2, <2>1 DEF IInv, SettledInv
<1>8. KeptInv'
  <2>1. CASE impacts' = [impacts EXCEPT ![i] = "resolved"] /\ decided' = Missed({i})
    BY <1>1, <1>5, <2>1 DEF IInv, KeptInv, TypeOK
  <2>2. CASE UNCHANGED <<impacts, decided>>
    BY <1>1, <2>2 DEF IInv, KeptInv
  <2> QED
    BY <1>4, <2>1, <2>2
<1> QED
  BY <1>1, <1>6, <1>7, <1>8, RequestEnds

\* The recovery ends what nobody works on, unless another first request has been faster.
LEMMA RecoverIInv ==
  ASSUME IInv, NEW r \in Requests, Recover(r)
  PROVE  IInv'
<1> USE DEF IInv
<1>1. PICK rows \in SUBSET Jobs : rows = req[r].rows
  BY RequestKinds DEF Recover
<1>2. /\ req[r].at = "recovering" /\ req[r].saw = FALSE
      /\ job' = [j \in Jobs |-> IF j \in rows THEN "interrupted" ELSE job[j]]
      /\ status' = IF rows # {} /\ status = "analyzing" THEN "draft" ELSE status
      /\ overlap' = (overlap \/ recovered) /\ recovered' = TRUE /\ Goes(r, Idle)
      /\ UNCHANGED <<impacts, cancel, thread, old, decided, late, faults, restarts>>
  BY <1>1 DEF Recover, RecoveryInv, bounds
<1>3. /\ req' \in [Requests -> RequestStates] /\ req'[r].at = "idle"
      /\ \A q \in Requests : q # r => req'[q] = req[q]
  BY <1>2 DEF TypeOK, Goes, Idle, RequestStates
<1>4. TypeOK'
  BY <1>2, <1>3 DEF TypeOK, Outcomes, Statuses, LOCKED
<1>5. SettledInv' /\ KeptInv'
  BY <1>2, <1>3 DEF SettledInv, KeptInv, Open, Reviewed
<1>6. RecoveryInv'
  BY <1>2, <1>3 DEF RecoveryInv
<1>7. WorkerInv'
  <2>1. Unfinished' \subseteq Unfinished
    BY <1>2 DEF Unfinished
  <2>2. ASSUME NEW j \in Unfinished'
        PROVE  \/ thread'[j] # "off"
               \/ \E q \in Requests : req'[q].at = "mark" /\ req'[q].job = j
    <3>1. recovered
      BY <1>1, <1>2, <2>1, <2>2 DEF RecoveryInv, Unfinished
    <3> QED
      BY <1>2, <1>3, <2>1, <2>2, <3>1 DEF WorkerInv, Attended
  <2> QED
    BY <1>2, <2>2 DEF WorkerInv, Attended, Ended
<1>8. JobInv'
  <2> SUFFICES ASSUME ~overlap' PROVE JobInv'
    BY DEF JobInv
  <2>1. /\ \A j \in Jobs : thread'[j] = "off"
        /\ \A q \in Requests : req'[q].at # "mark"
    BY <1>2, <1>3 DEF RecoveryInv
  <2> QED
    BY <1>4, <2>1 DEF JobInv, Fits, TypeOK
<1> QED
  BY <1>4, <1>5, <1>6, <1>7, <1>8

-----------------------------------------------------------------------------
(* The steps of a thread.                                                  *)

\* A thread that only moves: its job, the tables and the requests stay.
LEMMA ThreadMovesOnly ==
  ASSUME IInv, NEW j \in Jobs, NEW from \in Places \ {"off"}, NEW to \in Places, At(j, from, to),
         NEW new \in {"none", "queued", "running"} \cup Outcomes, job' = [job EXCEPT ![j] = new],
         UNCHANGED <<impacts, cancel, old, recovered, req, history, restarts>>,
         status' = status \/ status' = "draft",
         faults' \in Nat,
         to = "scored" => from = "scored",
         to = "saving" => from = "scored",
         ~overlap => new \in Fits(to),
         to \in {"off", "undo_cancelled", "undo_failed"} => new \in Outcomes
  PROVE  IInv'
<1>1. /\ thread' \in [Jobs -> Places] /\ thread[j] = from /\ thread'[j] = to
      /\ \A k \in Jobs : k # j => thread'[k] = thread[k]
  BY ThreadGoes DEF IInv
<1>2. TypeOK'
  BY <1>1 DEF IInv, TypeOK, history, Statuses
<1>3. SettledInv'
  BY DEF IInv, SettledInv, Open, history, Reviewed
<1>4. KeptInv'
  BY <1>1 DEF IInv, KeptInv, history
<1> QED
  BY <1>2, <1>3, <1>4, ThreadMoves DEF history

\* The job of a thread exists and fits its place.
LEMMA JobOf ==
  ASSUME IInv, NEW j \in Jobs, thread[j] # "off", job' = job
  PROVE  /\ job' = [job EXCEPT ![j] = job[j]]
         /\ ~overlap => job[j] \in Fits(thread[j])
  BY DEF IInv, TypeOK, JobInv

LEMMA BeginIInv ==
  ASSUME IInv, NEW j \in Jobs, Begin(j)
  PROVE  IInv'
<1>1. "begin" \in Places \ {"off"} /\ "analyze" \in Places /\ "running" \in Fits("analyze")
  BY DEF Places, InTry, Fits
<1>2. /\ At(j, "begin", "analyze") /\ job' = [job EXCEPT ![j] = "running"]
      /\ UNCHANGED <<impacts, cancel, old, recovered, req, history, restarts>>
      /\ status' = status /\ faults' \in Nat
  BY DEF Begin, bounds, IInv, TypeOK
<1> QED
  BY <1>1, <1>2, ThreadMovesOnly

LEMMA AnalyzeIInv ==
  ASSUME IInv, NEW j \in Jobs, Analyze(j) \/ LastCheck(j)
  PROVE  IInv'
<1>1. /\ job' = job /\ status' = status /\ faults' \in Nat
      /\ UNCHANGED <<impacts, cancel, old, recovered, req, history, restarts>>
  BY DEF Analyze, LastCheck, db, bounds, IInv, TypeOK
<1>2. PICK from \in {"analyze", "scored"}, to \in {"cancelling", "read", "saving"} :
        At(j, from, to) /\ (to = "saving" => from = "scored")
  BY DEF Analyze, LastCheck
<1>3. thread[j] = from /\ from \in Places \ {"off"} /\ to \in Places
  BY <1>2 DEF At, Places, InTry
<1>4. job[j] \in {"none", "queued", "running"} \cup Outcomes
  BY DEF IInv, TypeOK
<1>5. job' = [job EXCEPT ![j] = job[j]] /\ (~overlap => job[j] \in Fits(to))
  BY <1>1, <1>2, <1>3, JobOf DEF Fits
<1> QED
  BY <1>1, <1>2, <1>3, <1>4, <1>5, ThreadMovesOnly

\* What is read is known.
LEMMA ReadOldIInv ==
  ASSUME IInv, NEW j \in Jobs, ReadOld(j)
  PROVE  IInv'
<1>1. "read" \in Places \ {"off"} /\ "scored" \in Places
  BY DEF Places, InTry
<1>2. /\ At(j, "read", "scored")
      /\ old' = [old EXCEPT ![j] = impacts] /\ decided' = [decided EXCEPT ![j] = {}]
      /\ UNCHANGED <<status, impacts, job, cancel, recovered, req, late, overlap, faults, restarts>>
  BY DEF ReadOld, db, bounds
<1>3. /\ thread' \in [Jobs -> Places] /\ thread[j] = "read" /\ thread'[j] = "scored"
      /\ \A k \in Jobs : k # j => thread'[k] = thread[k]
  BY <1>1, <1>2, ThreadGoes DEF IInv
<1>4. TypeOK'
  BY <1>2, <1>3 DEF IInv, TypeOK
<1>5. SettledInv'
  BY <1>2 DEF IInv, SettledInv, Open
<1>6. KeptInv'
  <2>1. old'[j] = impacts /\ \A k \in Jobs : k # j => old'[k] = old[k] /\ decided'[k] = decided[k]
    BY <1>2 DEF IInv, TypeOK
  <2> QED
    BY <1>2, <1>3, <2>1 DEF IInv, KeptInv
<1>7. job' = [job EXCEPT ![j] = job[j]] /\ (~overlap => job[j] \in Fits("scored"))
  BY <1>2, <1>3, JobOf DEF Fits
<1> QED
  BY <1>1, <1>2, <1>4, <1>5, <1>6, <1>7, ThreadMoves

\* A save that opens something after the review is late; what it puts back the other
\* threads have missed.
LEMMA SaveIInv ==
  ASSUME IInv, NEW j \in Jobs, Save(j)
  PROVE  IInv'
<1>1. "saving" \in Places \ {"off"} /\ "saved" \in Places
  BY DEF Places, InTry
<1>2. /\ At(j, "saving", "saved")
      /\ old' = [old EXCEPT ![j] = Nothing]
      /\ UNCHANGED <<status, job, cancel, recovered, overlap, faults, restarts>>
  BY DEF Save, bounds
<1>3. /\ thread' \in [Jobs -> Places] /\ thread[j] = "saving" /\ thread'[j] = "saved"
      /\ \A k \in Jobs : k # j => thread'[k] = thread[k]
  BY <1>1, <1>2, ThreadGoes DEF IInv
<1>4. PICK found \in Findings :
        impacts' = [i \in Keys |-> IF i \in found THEN Row(old[j][i]) ELSE "absent"]
  BY DEF Save
<1>5. impacts' \in [Keys -> {"absent", "open", "resolved"}]
  BY <1>4 DEF IInv, TypeOK, Row
<1>6. PICK back \in SUBSET Keys :
        /\ back = {i \in Keys : impacts[i] # "resolved" /\ impacts'[i] = "resolved"}
        /\ decided' = [Missed(back) EXCEPT ![j] = {}]
  BY DEF Save
<1>7. /\ decided' \in [Jobs -> SUBSET Keys]
      /\ \A k \in Jobs : k # j /\ thread[k] \in {"scored", "saving"} =>
            decided[k] \cup back \subseteq decided'[k]
  BY <1>6, MissedType DEF IInv
<1>8. /\ req' \in [Requests -> RequestStates]
      /\ \A r \in Requests :
           req'[r] = req[r] \/ (req[r].at = "decide" /\ req'[r].at = "decide")
  <2>1. req' = [r \in Requests |-> IF req[r].at = "decide" THEN [req[r] EXCEPT !.row = FALSE]
                                                           ELSE req[r]]
    BY DEF Save
  <2> QED
    BY <2>1, RequestKinds DEF IInv
<1>9. late' = (\/ late
               \/ status \in Reviewed
               \/ \E r \in Requests : req[r].at = "write" /\ req[r].to \in Reviewed)
  BY DEF Save
<1>10. TypeOK'
  <2>1. late' \in BOOLEAN
    BY <1>9
  <2>2. old' \in [Jobs -> [Keys -> {"absent", "open", "resolved"}]]
    BY <1>2 DEF IInv, TypeOK, Nothing
  <2> QED
    BY <1>2, <1>3, <1>5, <1>7, <1>8, <2>1, <2>2 DEF IInv, TypeOK
<1>11. SettledInv'
  <2>1. \A r \in Requests : req'[r].at = "write" => req'[r] = req[r]
    BY <1>8
  <2> QED
    BY <1>2, <1>9, <2>1 DEF IInv, SettledInv
<1>12. KeptInv'
  <2> SUFFICES ASSUME NEW k \in Jobs, thread'[k] \in {"scored", "saving"}, NEW i \in Keys,
                      impacts'[i] = "resolved"
               PROVE  old'[k][i] = "resolved" \/ i \in decided'[k]
    BY DEF KeptInv
  <2>1. k # j /\ thread[k] \in {"scored", "saving"} /\ old'[k] = old[k]
    BY <1>2, <1>3 DEF IInv, TypeOK
  <2>2. CASE impacts[i] = "resolved"
    BY <1>7, <2>1, <2>2 DEF IInv, KeptInv
  <2>3. CASE impacts[i] # "resolved"
    BY <1>6, <1>7, <2>1, <2>3
  <2> QED
    BY <2>2, <2>3
<1>13. job' = [job EXCEPT ![j] = job[j]] /\ (~overlap => job[j] \in Fits("saved"))
  BY <1>2, <1>3, JobOf DEF Fits
<1> QED
  BY <1>1, <1>2, <1>8, <1>10, <1>11, <1>12, <1>13, ThreadMoves

LEMMA DoneIInv ==
  ASSUME IInv, NEW j \in Jobs, Done(j)
  PROVE  IInv'
<1>1. "saved" \in Places \ {"off"} /\ "off" \in Places /\ "done" \in Outcomes /\ "done" \in Fits("off")
  BY DEF Places, InTry, Fits, Outcomes
<1>2. /\ At(j, "saved", "off") /\ job' = [job EXCEPT ![j] = "done"]
      /\ UNCHANGED <<impacts, cancel, old, recovered, req, history, restarts>>
      /\ status' = status /\ faults' \in Nat
  BY DEF Done, bounds, IInv, TypeOK
<1> QED
  BY <1>1, <1>2, ThreadMovesOnly

LEMMA CloseJobIInv ==
  ASSUME IInv, NEW j \in Jobs, CloseJob(j)
  PROVE  IInv'
<1>1. /\ {"cancelling", "failing", "undo_cancelled", "undo_failed"} \subseteq Places \ {"off"}
      /\ {"cancelled", "failed"} \subseteq Outcomes
      /\ "cancelled" \in Fits("undo_cancelled") /\ "failed" \in Fits("undo_failed")
  BY DEF Places, InTry, Fits, Outcomes
<1>2. /\ UNCHANGED <<impacts, cancel, old, recovered, req, history, restarts>>
      /\ status' = status /\ faults' \in Nat
  BY DEF CloseJob, bounds, IInv, TypeOK
<1>3. CASE At(j, "cancelling", "undo_cancelled") /\ job' = [job EXCEPT ![j] = "cancelled"]
  BY <1>1, <1>2, <1>3, ThreadMovesOnly
<1>4. CASE At(j, "failing", "undo_failed") /\ job' = [job EXCEPT ![j] = "failed"]
  BY <1>1, <1>2, <1>4, ThreadMovesOnly
<1> QED
  BY <1>3, <1>4 DEF CloseJob

LEMMA BackToDraftIInv ==
  ASSUME IInv, NEW j \in Jobs, BackToDraft(j)
  PROVE  IInv'
<1>1. /\ UNCHANGED <<impacts, cancel, old, recovered, req, history, restarts>>
      /\ job' = job /\ status' = "draft" /\ faults' \in Nat
  BY DEF BackToDraft, bounds, IInv, TypeOK
<1>2. PICK from \in {"undo_cancelled", "undo_failed"} : At(j, from, "off")
  BY DEF BackToDraft
<1>3. thread[j] = from /\ from \in Places \ {"off"} /\ "off" \in Places
  BY <1>2 DEF At, Places, InTry
<1>4. job[j] \in Outcomes /\ job[j] \in Fits("off")
  BY <1>3 DEF IInv, WorkerInv, Ended, Outcomes, Fits
<1>5. job' = [job EXCEPT ![j] = job[j]]
  BY <1>1, <1>3, JobOf
<1> QED
  BY <1>1, <1>2, <1>3, <1>4, <1>5, ThreadMovesOnly

\* A thread that dies leaves its job as it is; a dead thread is not "off".
LEMMA ErrorIInv ==
  ASSUME IInv, NEW j \in Jobs, Error(j)
  PROVE  IInv'
<1>1. /\ UNCHANGED <<impacts, cancel, old, recovered, req, history, restarts>>
      /\ job' = job /\ status' = status /\ faults' \in Nat
  BY DEF Error, db, IInv, TypeOK
<1>2. PICK from \in InTry \cup {"begin", "failing", "undo_failed"}, to \in {"failing", "dead"} :
        /\ At(j, from, to)
        /\ to = "failing" => from \in InTry \cup {"begin"}
        /\ to = "dead" => from \in {"begin", "failing", "undo_failed"}
  BY DEF Error, At
<1>3. thread[j] = from /\ from \in Places \ {"off"} /\ to \in Places
  BY <1>2 DEF At, Places, InTry
<1>4. job[j] \in {"none", "queued", "running"} \cup Outcomes
  BY DEF IInv, TypeOK
<1>5. job' = [job EXCEPT ![j] = job[j]] /\ (~overlap => job[j] \in Fits(from))
  BY <1>1, <1>3, JobOf
<1>6. ~overlap => job[j] \in Fits(to)
  BY <1>2, <1>5 DEF Fits, InTry, Outcomes
<1> QED
  BY <1>1, <1>2, <1>3, <1>4, <1>5, <1>6, ThreadMovesOnly

\* After a restart nothing runs, and nobody has recovered the file yet.
LEMMA RestartIInv ==
  ASSUME IInv, Restart
  PROVE  IInv'
<1> USE DEF IInv
<1>1. /\ \A j \in Jobs : thread'[j] = "off"
      /\ \A r \in Requests : req'[r].at = "idle"
      /\ recovered' = FALSE
      /\ UNCHANGED <<status, impacts, job, cancel, late, overlap, faults>>
  BY DEF Restart, db, Idle
<1>2. TypeOK'
  <2>1. thread' \in [Jobs -> Places] /\ decided' \in [Jobs -> SUBSET Keys]
    BY DEF Restart, Places
  <2>2. old' \in [Jobs -> [Keys -> {"absent", "open", "resolved"}]]
    BY DEF Restart, Nothing
  <2>3. req' \in [Requests -> RequestStates]
    BY DEF Restart, Idle, RequestStates
  <2>4. restarts' \in Nat
    BY DEF Restart, TypeOK
  <2> QED
    BY <1>1, <2>1, <2>2, <2>3, <2>4 DEF TypeOK
<1>3. SettledInv' /\ KeptInv'
  BY <1>1 DEF SettledInv, KeptInv, Open
<1>4. RecoveryInv' /\ WorkerInv'
  BY <1>1 DEF RecoveryInv, WorkerInv, Attended
<1>5. JobInv'
  BY <1>1, <1>2 DEF JobInv, Fits, TypeOK
<1> QED
  BY <1>2, <1>3, <1>4, <1>5

-----------------------------------------------------------------------------

LEMMA NextIInv == IInv /\ [Next]_vars => IInv'
<1> SUFFICES ASSUME IInv, [Next]_vars PROVE IInv'
  OBVIOUS
<1>1. ASSUME NEW r \in Requests, Ask(r) PROVE IInv'
  BY <1>1, AskAnalysisIInv, CancelJobIInv, AskMoveIInv, AskDecisionIInv DEF Ask
<1>2. ASSUME NEW r \in Requests, Continue(r) PROVE IInv'
  BY <1>2, OpenDbIInv, SelectUnfinishedIInv, RecoverIInv, CheckBusyIInv, InsertJobIInv,
     MarkAnalyzingIInv, CheckReviewIInv, WriteStatusIInv, WriteDecisionIInv DEF Continue
<1>3. ASSUME NEW j \in Jobs, Work(j) PROVE IInv'
  BY <1>3, BeginIInv, AnalyzeIInv, ReadOldIInv, SaveIInv, DoneIInv, CloseJobIInv,
     BackToDraftIInv DEF Work
<1>4. ASSUME NEW j \in Jobs, Error(j) PROVE IInv'
  BY <1>4, ErrorIInv
<1>5. CASE Restart
  BY <1>5, RestartIInv
<1>6. CASE UNCHANGED vars
  BY <1>6 DEF IInv, TypeOK, SettledInv, KeptInv, RecoveryInv, WorkerInv, Attended,
     Unfinished, Ended, JobInv, Open, vars, db, history, bounds
<1> QED
  BY <1>1, <1>2, <1>3, <1>4, <1>5, <1>6 DEF Next

LEMMA Invariance == Spec => []IInv
<1>1. QED
  BY InitIInv, NextIInv, PTL DEF Spec

\* Every variable keeps to its values, however requests, threads, errors and restarts
\* fall together (impact/db.py, the tables; jobs.py; crs.py).
THEOREM TypeCorrect == Spec => []TypeOK
<1>1. IInv => TypeOK
  BY DEF IInv
<1> QED
  BY <1>1, Invariance, PTL

\* What went through review has nothing open, unless an analysis saved after the review
\* was checked: _check_review looks at the impacts, only the reviewed reach the statuses
\* after it (crs.NEXT), and decisions never open anything.
THEOREM ReviewHolds == Spec => []ReviewedIsSettled
<1>1. IInv => ReviewedIsSettled
  BY DEF IInv, SettledInv, ReviewedIsSettled
<1> QED
  BY <1>1, Invariance, PTL

\* A job that is not over has its thread, a request about to start the thread, or the
\* recovery to come, unless an error kept its thread from starting or from recording its
\* end: start queues a job before its thread runs, _work closes the job before it leaves,
\* and recover ends only what nobody works on.
THEOREM WorkerHolds == Spec => []UnfinishedHasWorker
<1>1. IInv => UnfinishedHasWorker
  BY DEF IInv, WorkerInv, Attended, UnfinishedHasWorker
<1> QED
  BY <1>1, Invariance, PTL

\* The impacts are written by a decision or by a save.
LEMMA ImpactsWritten ==
  ASSUME [Next]_vars
  PROVE  \/ UNCHANGED impacts
         \/ \E r \in Requests : WriteDecision(r)
         \/ \E j \in Jobs : Save(j)
<1>1. ASSUME NEW r \in Requests, Ask(r) PROVE UNCHANGED impacts
  BY <1>1 DEF Ask, AskAnalysis, CancelJob, AskMove, AskDecision, db
<1>2. ASSUME NEW r \in Requests, Continue(r) PROVE UNCHANGED impacts \/ WriteDecision(r)
  BY <1>2 DEF Continue, OpenDb, SelectUnfinished, Recover, CheckBusy, InsertJob, MarkAnalyzing,
     StartFails, CheckReview, WriteStatus, db
<1>3. ASSUME NEW j \in Jobs, Work(j) PROVE UNCHANGED impacts \/ Save(j)
  BY <1>3 DEF Work, Begin, Analyze, ReadOld, LastCheck, Done, CloseJob, BackToDraft, db
<1>4. ASSUME NEW j \in Jobs, Error(j) PROVE UNCHANGED impacts
  BY <1>4 DEF Error, db
<1>5. ASSUME Restart PROVE UNCHANGED impacts
  BY <1>5 DEF Restart, db
<1> QED
  BY <1>1, <1>2, <1>3, <1>4, <1>5 DEF Next, vars, db

\* A decision on an impact that is found again through the same changes outlives a new
\* analysis, unless that analysis had read the decisions before it was made or put back:
\* whatever the number of analyses that run side by side (engine/run.analyze and _save).
THEOREM DecisionsHold == Spec => DecisionsKept
<1>1. ASSUME IInv, [Next]_vars
      PROVE  \A k \in Keys : impacts[k] = "resolved" /\ impacts'[k] = "open" =>
               \E j \in Jobs : thread[j] = "saving" /\ k \in decided[j]
  <2> SUFFICES ASSUME NEW k \in Keys, impacts[k] = "resolved", impacts'[k] = "open"
               PROVE  \E j \in Jobs : thread[j] = "saving" /\ k \in decided[j]
    OBVIOUS
  <2>1. ASSUME NEW r \in Requests, WriteDecision(r) PROVE impacts'[k] # "open"
    BY <1>1, <2>1 DEF WriteDecision, IInv, TypeOK
  <2>2. ASSUME NEW j \in Jobs, Save(j) PROVE thread[j] = "saving" /\ k \in decided[j]
    <3>1. thread[j] = "saving"
      BY <2>2 DEF Save, At
    <3>2. old[j][k] # "resolved"
      BY <2>2 DEF Save, Row
    <3> QED
      BY <1>1, <3>1, <3>2 DEF IInv, KeptInv
  <2> QED
    BY <1>1, <2>1, <2>2, ImpactsWritten
<1>2. IInv /\ [Next]_vars =>
        [\A k \in Keys : impacts[k] = "resolved" /\ impacts'[k] = "open" =>
           \E j \in Jobs : thread[j] = "saving" /\ k \in decided[j]]_vars
  BY <1>1
<1> QED
  BY <1>2, Invariance, PTL DEF Spec, DecisionsKept

\* How a job ended stands, except a cancellation whose undoing failed and a recovery by
\* two first requests at once: a job has one thread, which writes its end once, and the
\* recovery takes jobs only before anything runs (jobs._work, recover, impact_api.open_db).
THEOREM EndedHolds == Spec => EndedStays
<1>1. ASSUME IInv, [Next]_vars
      PROVE  \A j \in Jobs : Ended(j) /\ job'[j] # job[j] =>
               (job[j] = "cancelled" /\ job'[j] = "failed") \/ overlap'
  <2> SUFFICES ASSUME NEW j \in Jobs, Ended(j), job'[j] # job[j], ~overlap'
               PROVE  job[j] = "cancelled" /\ job'[j] = "failed"
    OBVIOUS
  <2>1. ASSUME NEW r \in Requests, Ask(r) PROVE FALSE
    BY <2>1 DEF Ask, AskAnalysis, CancelJob, AskMove, AskDecision, db
  <2>2. ASSUME NEW r \in Requests, Continue(r) PROVE FALSE
    <3>1. CASE Recover(r)
      <4>1. req[r].at = "recovering" /\ ~recovered
        BY <1>1, <3>1 DEF Recover, IInv, RecoveryInv, TypeOK
      <4>2. req[r].rows = Unfinished
        BY <1>1, <4>1 DEF IInv, RecoveryInv
      <4> QED
        BY <3>1, <4>2 DEF Recover, Ended, Unfinished
    <3>2. CASE InsertJob(r)
      BY <1>1, <3>2 DEF InsertJob, Ended, IInv, TypeOK
    <3> QED
      BY <2>2, <3>1, <3>2 DEF Continue, OpenDb, SelectUnfinished, CheckBusy, MarkAnalyzing,
         StartFails, CheckReview, WriteStatus, WriteDecision, db
  <2>3. ASSUME NEW k \in Jobs, Work(k)
        PROVE  job[j] = "cancelled" /\ job'[j] = "failed"
    <3>1. CASE Begin(k) \/ Done(k) \/ CloseJob(k)
      <4>1. k = j /\ ~overlap
        BY <1>1, <3>1 DEF Begin, Done, CloseJob, history, IInv, TypeOK
      <4>2. job[j] \in Fits(thread[j])
        BY <1>1, <4>1 DEF IInv, JobInv
      <4>3. thread[j] = "failing" /\ job'[j] = "failed"
        BY <1>1, <3>1, <4>1, <4>2 DEF Begin, Done, CloseJob, At, Fits, Ended, IInv, TypeOK
      <4> QED
        BY <4>2, <4>3 DEF Fits, Ended
    <3> QED
      BY <2>3, <3>1 DEF Work, Analyze, ReadOld, LastCheck, Save, BackToDraft, db
  <2>4. ASSUME NEW k \in Jobs, Error(k) PROVE FALSE
    BY <2>4 DEF Error, db
  <2>5. ASSUME Restart PROVE FALSE
    BY <2>5 DEF Restart, db
  <2> QED
    BY <1>1, <2>1, <2>2, <2>3, <2>4, <2>5 DEF Next, vars, db
<1>2. IInv /\ [Next]_vars =>
        [\A j \in Jobs : Ended(j) /\ job'[j] # job[j] =>
           \/ job[j] = "cancelled" /\ job'[j] = "failed"
           \/ overlap']_vars
  BY <1>1
<1> QED
  BY <1>2, Invariance, PTL DEF Spec, EndedStays
=============================================================================
