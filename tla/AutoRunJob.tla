----------------------------- MODULE AutoRunJob -----------------------------
(***************************************************************************)
(* One automatic run: the worker thread _run_job                           *)
(* (web/services/auto_run_pipeline.py) and the request handlers that       *)
(* cancel it, answer its login question and open its approval gates        *)
(* (web/routes/auto_run.py).  They share an AutoRunJob                     *)
(* (web/services/auto_run_job.py) without a lock, so the unit of           *)
(* interleaving is one read or write of a field.                           *)
(*                                                                         *)
(* What the phases produce is left out: a phase succeeds or fails.  The    *)
(* contents of the stages are the subject of StageGates.                   *)
(***************************************************************************)
EXTENDS Integers, FiniteSets

CONSTANTS
  DesignGates,    \* how many design stages are presented one by one (7)
  MaxReleases,    \* bound: requests that open one gate
  MaxConfirms     \* bound: requests that confirm the run conditions

ASSUME GatesAssumption ==
  /\ DesignGates \in Nat \ {0}
  /\ MaxReleases \in Nat
  /\ MaxConfirms \in Nat

\* The gates in order; the last is the one before the tests.
Gates == 1..(DesignGates + 1)
LastGate == DesignGates + 1

\* The child processes of a run; each is started at most once.
Children == {"discover", "login", "crawl", "tests"}

VARIABLES
  status,          \* job.status
  finishedAt,      \* job.finished_at is set
  cancelled,       \* job._cancelled
  notified,        \* job._notified
  proc,            \* job._proc: the child registered, or "none"
  child,           \* each child process: "none", "running", or "ended" and not waited for
  signalled,       \* the children that were sent SIGTERM and not waited for there
  inputData,       \* job._input_data is set
  stagesEvent,     \* job._stages_event
  allReleased,     \* job.stages_all_released
  unverified,      \* job.unverified: the gates passed without a person
  requireApproval, \* job.require_stage_approval, fixed when the job is made
  pc,              \* where the worker is
  gate,            \* the gate the worker is at
  back,            \* where the worker continues after marking a failure
  canceller,       \* where the cancel request is
  seenProc,        \* the child the cancel request read
  submitter,       \* where the login answer is
  releaser,        \* where the request holding _JOBS_LOCK is
  releases,        \* requests that set the event for one gate
  confirms         \* requests that confirmed the run conditions

outcome == <<status, finishedAt, cancelled, notified>>
process == <<proc, child, signalled>>
gating == <<stagesEvent, allReleased, unverified, requireApproval>>
worker == <<pc, gate, back>>
cancelling == <<canceller, seenProc>>
releasing == <<releaser, releases, confirms>>
requests == <<cancelling, submitter, releasing>>
vars == <<outcome, process, inputData, gating, worker, requests>>

Terminal == {"complete", "failed", "cancelled"}

Init ==
  /\ status = "idle"
  /\ finishedAt = FALSE
  /\ cancelled = FALSE
  /\ notified = FALSE
  /\ proc = "none"
  /\ child = [k \in Children |-> "none"]
  /\ signalled = {}
  /\ inputData = FALSE
  /\ stagesEvent = FALSE
  /\ allReleased = FALSE
  /\ unverified = {}
  /\ requireApproval \in BOOLEAN
  /\ pc = "discover"
  /\ gate = 1
  /\ back = "end"
  /\ canceller = "idle"
  /\ seenProc = "none"
  /\ submitter = "idle"
  /\ releaser = "idle"
  /\ releases = 0
  /\ confirms = 0

Goto(label) == pc' = label /\ UNCHANGED <<gate, back>>
Return == pc' = back /\ back' = "end" /\ UNCHANGED gate
\* _mark_job_failed is called; the worker then continues at `ret`.
FailTo(ret) == pc' = "fail" /\ back' = ret /\ UNCHANGED gate
SetStatus(s) == status' = s /\ UNCHANGED <<finishedAt, cancelled, notified>>

\* _notify_finished_once would send: the test it makes before setting _notified.
Finished(s, f) == ~notified /\ s \in Terminal /\ f

-----------------------------------------------------------------------------
(* Running a child: _run_child_process and run_playwright register the     *)
(* Popen object and look at _cancelled afterwards; the crawl only stores   *)
(* it and looks at _cancelled between lines of output.                     *)

Spawn(k, here, next, onError) ==
  /\ pc = here
  /\ \/ child' = [child EXCEPT ![k] = "running"] /\ Goto(next)
     \/ UNCHANGED child /\ onError
  /\ UNCHANGED <<outcome, proc, signalled, inputData, gating, requests>>

\* register_proc, first line: the child becomes visible to cancel().
Register(k, here, next) ==
  /\ pc = here
  /\ proc' = k
  /\ Goto(next)
  /\ UNCHANGED <<outcome, child, signalled, inputData, gating, requests>>

\* A register_proc that trusts cancel() to see the child.
RegisterCheck_Missing(k, here, next) ==
  /\ pc = here
  /\ Goto(next)
  /\ UNCHANGED <<outcome, process, inputData, gating, requests>>

\* register_proc, second half: the child of a job cancelled meanwhile is told to
\* end.  Nobody waits for it: the program's SIGTERM handler sets a flag that its
\* discovery and its login never look at, so that the child may go on.
RegisterCheck(k, here, next) ==
  /\ pc = here
  /\ signalled' = IF cancelled THEN signalled \cup {k} ELSE signalled
  /\ Goto(next)
  /\ UNCHANGED <<outcome, proc, child, inputData, gating, requests>>

\* communicate() returns because the child ended, or times out and kills it.
Collect(k, here, next, onTimeout) ==
  /\ pc = here
  /\ proc' = "none"
  /\ child' = [child EXCEPT ![k] = "none"]
  /\ \/ child[k] = "ended" /\ Goto(next)
     \/ onTimeout
  /\ UNCHANGED <<outcome, signalled, inputData, gating, requests>>

\* A child ends by itself, or because it was told to.
ChildExits(k) ==
  /\ child[k] = "running"
  /\ child' = [child EXCEPT ![k] = "ended"]
  /\ UNCHANGED <<outcome, proc, signalled, inputData, gating, worker, requests>>

\* A phase looks at _cancelled before it starts; otherwise it sets the status.
Unless(here, cancelledTo, next) ==
  /\ pc = here
  /\ Goto(IF cancelled THEN cancelledTo ELSE next)
  /\ UNCHANGED <<outcome, process, inputData, gating, requests>>

Begin(here, s, next) ==
  /\ pc = here
  /\ SetStatus(s)
  /\ Goto(next)
  /\ UNCHANGED <<process, inputData, gating, requests>>

\* A look that minds only the cancel request.
BetweenPhases_CancelledOnly(here, next) ==
  /\ pc = here
  /\ Goto(IF status = "cancelled" THEN "end" ELSE next)
  /\ UNCHANGED <<outcome, process, inputData, gating, requests>>

\* _run_job leaves between phases when the status says the run is over.
BetweenPhases(here, next) ==
  /\ pc = here
  /\ Goto(IF status \in {"failed", "cancelled"} THEN "end" ELSE next)
  /\ UNCHANGED <<outcome, process, inputData, gating, requests>>

-----------------------------------------------------------------------------
\* _phase_discover.
StartDiscovery == Begin("discover", "discovering", "discover_spawn")
SpawnDiscovery == Spawn("discover", "discover_spawn", "discover_register", Goto("discovered"))
RegisterDiscovery == Register("discover", "discover_register", "discover_check")
CheckDiscovery == RegisterCheck("discover", "discover_check", "discover_wait")
CollectDiscovery == Collect("discover", "discover_wait", "discover_result", Goto("discovered"))

\* Pages, nothing usable, a missing browser, or pages behind a login.
FinishDiscovery ==
  /\ pc = "discover_result"
  /\ \/ Goto("discovered")
     \/ FailTo("discovered")
     \/ ~cancelled /\ Goto("ask_login")
  /\ UNCHANGED <<outcome, process, inputData, gating, requests>>

AskLogin == Begin("ask_login", "awaiting_input", "discovered")

AfterDiscovery == BetweenPhases("discovered", "input_check")

\* The second look at the status decides whether there is an answer to wait for.
CheckInput ==
  /\ pc = "input_check"
  /\ Goto(IF status = "awaiting_input" THEN "input_wait" ELSE "crawl")
  /\ UNCHANGED <<outcome, process, inputData, gating, requests>>

\* The wait ends with _input_event or after half an hour; only the flag and
\* the data tell the worker which.
AwaitInput == Unless("input_wait", "end", "input_use")

\* The answer is a login, or asks to skip it.
UseInput ==
  /\ pc = "input_use"
  /\ \/ inputData /\ Goto("login_spawn")
     \/ Goto("crawl")
  /\ UNCHANGED <<outcome, process, inputData, gating, requests>>

\* _do_login; the crawl follows unless the directory for auth.json cannot be made.
SpawnLogin == Spawn("login", "login_spawn", "login_register", Goto("crawl") \/ FailTo("end"))
RegisterLogin == Register("login", "login_register", "login_check")
CheckLogin == RegisterCheck("login", "login_check", "login_wait")
CollectLogin == Collect("login", "login_wait", "login_result", Goto("login_result"))

AfterLogin ==
  /\ pc = "login_result"
  /\ Goto(IF status = "failed" THEN "end" ELSE "crawl")
  /\ UNCHANGED <<outcome, process, inputData, gating, requests>>

-----------------------------------------------------------------------------
\* _phase_crawl.
StartCrawl == Begin("crawl", "crawling", "crawl_spawn")
SpawnCrawl == Spawn("crawl", "crawl_spawn", "crawl_register", FailTo("crawled"))
RegisterCrawl == Register("crawl", "crawl_register", "crawl_read")

\* A line of output arrives after the run was cancelled: the crawl is told to
\* end and left to itself.
AbandonCrawl ==
  /\ pc = "crawl_read"
  /\ cancelled
  /\ signalled' = signalled \cup {"crawl"}
  /\ Goto("crawled")
  /\ UNCHANGED <<outcome, proc, child, inputData, gating, requests>>

\* A line that cannot be decoded: the crawl is given up, its process is not.
LoseCrawl ==
  /\ pc = "crawl_read"
  /\ FailTo("crawled")
  /\ UNCHANGED <<outcome, process, inputData, gating, requests>>

\* Output ended; the report is there, or the crawl counts as failed.
CollectCrawl ==
  /\ pc = "crawl_read"
  /\ child["crawl"] = "ended"
  /\ child' = [child EXCEPT !["crawl"] = "none"]
  /\ proc' = "none"
  /\ \/ Goto("crawled")
     \/ FailTo("crawled")
  /\ UNCHANGED <<outcome, signalled, inputData, gating, requests>>

AfterCrawl == BetweenPhases("crawled", "qa_check")

-----------------------------------------------------------------------------
\* _phase_generate_qa and _phase_generate_scripts.
CheckQA == Unless("qa_check", "qa_done", "qa_begin")
BeginQA == Begin("qa_begin", "generating_qa", "qa")
CheckScripts == Unless("scripts_check", "scripts_done", "scripts_begin")
BeginScripts == Begin("scripts_begin", "generating_scripts", "scripts")

Generate(here, done) ==
  /\ pc = here
  /\ \/ Goto(done)
     \/ FailTo(done)
  /\ UNCHANGED <<outcome, process, inputData, gating, requests>>

GenerateQA == Generate("qa", "qa_done")
GenerateScripts == Generate("scripts", "scripts_done")
AfterQA == BetweenPhases("qa_done", "gate_enter")
AfterScripts == BetweenPhases("scripts_done", "gate_enter")

-----------------------------------------------------------------------------
(* _await_stage_approval.                                                  *)

\* Runs nobody can approve note the gate and go on; the others first look
\* whether the run conditions were confirmed.
EnterGate ==
  /\ pc = "gate_enter"
  /\ IF requireApproval
     THEN /\ Goto(IF allReleased THEN "gate_done" ELSE "gate_clear")
          /\ UNCHANGED unverified
     ELSE unverified' = unverified \cup {gate} /\ Goto("gate_done")
  /\ UNCHANGED <<outcome, process, inputData, stagesEvent, allReleased, requireApproval, requests>>

\* A gate that keeps whatever an earlier release left in the event.
ClearGate_Skipped ==
  /\ pc = "gate_clear"
  /\ Goto("gate_status")
  /\ UNCHANGED <<outcome, process, inputData, gating, requests>>

ClearGate ==
  /\ pc = "gate_clear"
  /\ stagesEvent' = FALSE
  /\ Goto("gate_status")
  /\ UNCHANGED <<outcome, process, inputData, allReleased, unverified, requireApproval, requests>>

ShowGate == Begin("gate_status", "awaiting_stages", "gate_wait")

\* The event was set: approved, or cancelled, which makes no difference here.
OpenGate ==
  /\ pc = "gate_wait"
  /\ stagesEvent
  /\ Goto("gate_done")
  /\ UNCHANGED <<outcome, process, inputData, gating, requests>>

\* A gate that waits until a person or a cancel opens it.
TimeOutGate_Never ==
  /\ pc = "gate_wait"
  /\ ~stagesEvent
  /\ UNCHANGED vars

\* Two hours passed: go on, and record that nobody approved.
TimeOutGate ==
  /\ pc = "gate_wait"
  /\ ~stagesEvent
  /\ unverified' = IF cancelled THEN unverified ELSE unverified \cup {gate}
  /\ Goto("gate_done")
  /\ UNCHANGED <<outcome, process, inputData, stagesEvent, allReleased, requireApproval, requests>>

\* Design gates follow each other, then the scripts, then the last gate, then
\* the tests.
LeaveGate ==
  /\ pc = "gate_done"
  /\ \/ /\ status \in {"failed", "cancelled"}
        /\ Goto("end")
     \/ /\ status \notin {"failed", "cancelled"}
        /\ gate < DesignGates
        /\ pc' = "gate_enter" /\ gate' = gate + 1 /\ UNCHANGED back
     \/ /\ status \notin {"failed", "cancelled"}
        /\ gate = DesignGates
        /\ pc' = "scripts_check" /\ gate' = LastGate /\ UNCHANGED back
     \/ /\ status \notin {"failed", "cancelled"}
        /\ gate = LastGate
        /\ Goto("tests_check")
  /\ UNCHANGED <<outcome, process, inputData, gating, requests>>

-----------------------------------------------------------------------------
\* _execute_tests.
CheckTests == Unless("tests_check", "end", "tests_begin")
BeginTests == Begin("tests_begin", "running_tests", "tests_spawn")
SpawnTests == Spawn("tests", "tests_spawn", "tests_register", FailTo("end"))
RegisterTests == Register("tests", "tests_register", "tests_regcheck")
CheckTestsChild == RegisterCheck("tests", "tests_regcheck", "tests_wait")
CollectTests == Collect("tests", "tests_wait", "tests_result", FailTo("end"))

JudgeTests ==
  /\ pc = "tests_result"
  /\ \/ cancelled /\ Goto("end")
     \/ ~cancelled /\ Goto("complete")
     \/ ~cancelled /\ FailTo("end")
  /\ UNCHANGED <<outcome, process, inputData, gating, requests>>

\* The setter of a final status looks whether to notify, too.
End(here, s, notifyAt, next) ==
  /\ pc = here
  /\ SetStatus(s)
  /\ Goto(IF Finished(s, finishedAt) THEN notifyAt ELSE next)
  /\ UNCHANGED <<process, inputData, gating, requests>>

Complete == End("complete", "complete", "complete_notify", "complete_finish")

\* finished_at is set after the status, and the setter looks whether to notify.
FinishRun ==
  /\ pc \in {"complete_finish", "fail_finish"}
  /\ finishedAt' = TRUE
  /\ IF Finished(status, TRUE) THEN Goto("notify") ELSE Return
  /\ UNCHANGED <<status, cancelled, notified, process, inputData, gating, requests>>

\* _mark_job_failed does nothing to a run that was cancelled.
CheckFailed ==
  /\ pc = "fail"
  /\ IF cancelled THEN Return ELSE Goto("fail_status")
  /\ UNCHANGED <<outcome, process, inputData, gating, requests>>

MarkFailed == End("fail_status", "failed", "fail_status_notify", "fail_finish")

\* The rest of _notify_finished_once.
Notify ==
  /\ \/ pc = "notify" /\ Return
     \/ pc = "complete_notify" /\ Goto("complete_finish")
     \/ pc = "fail_status_notify" /\ Goto("fail_finish")
  /\ notified' = TRUE
  /\ UNCHANGED <<status, finishedAt, cancelled, process, inputData, gating, requests>>

RunJob ==
  \/ StartDiscovery \/ SpawnDiscovery \/ RegisterDiscovery \/ CheckDiscovery
  \/ CollectDiscovery \/ FinishDiscovery \/ AskLogin \/ AfterDiscovery
  \/ CheckInput \/ AwaitInput \/ UseInput
  \/ SpawnLogin \/ RegisterLogin \/ CheckLogin \/ CollectLogin \/ AfterLogin
  \/ StartCrawl \/ SpawnCrawl \/ RegisterCrawl \/ AbandonCrawl \/ LoseCrawl \/ CollectCrawl \/ AfterCrawl
  \/ CheckQA \/ BeginQA \/ GenerateQA \/ AfterQA
  \/ EnterGate \/ ClearGate \/ ShowGate \/ OpenGate \/ TimeOutGate \/ LeaveGate
  \/ CheckScripts \/ BeginScripts \/ GenerateScripts \/ AfterScripts
  \/ CheckTests \/ BeginTests \/ SpawnTests \/ RegisterTests \/ CheckTestsChild
  \/ CollectTests \/ JudgeTests \/ Complete
  \/ CheckFailed \/ MarkFailed \/ FinishRun \/ Notify

-----------------------------------------------------------------------------
(* Request handlers.                                                       *)

\* AutoRunJob.cancel sets the flag before it looks at the child.
RaiseFlag ==
  /\ canceller = "idle"
  /\ cancelled' = TRUE
  /\ canceller' = "read"
  /\ UNCHANGED <<status, finishedAt, notified, process, inputData, gating, worker,
                 seenProc, submitter, releasing>>

ReadProc ==
  /\ canceller = "read"
  /\ seenProc' = proc
  /\ canceller' = "kill"
  /\ UNCHANGED <<outcome, process, inputData, gating, worker, submitter, releasing>>

\* terminate, wait, and kill if need be; then both events are set.
KillProc ==
  /\ canceller = "kill"
  /\ child' = [k \in Children |-> IF k = seenProc /\ child[k] = "running" THEN "ended" ELSE child[k]]
  /\ stagesEvent' = TRUE
  /\ seenProc' = "none"
  /\ canceller' = "status"
  /\ UNCHANGED <<outcome, proc, signalled, inputData, allReleased, unverified, requireApproval,
                 worker, submitter, releasing>>

\* api_autorun_cancel sets the status whatever it was ...
SetCancelled ==
  /\ canceller = "status"
  /\ SetStatus("cancelled")
  /\ canceller' = IF Finished("cancelled", finishedAt) THEN "notify" ELSE "finish"
  /\ UNCHANGED <<process, inputData, gating, worker, seenProc, submitter, releasing>>

\* ... and then the time.
FinishCancelled ==
  /\ canceller = "finish"
  /\ finishedAt' = TRUE
  /\ canceller' = IF Finished(status, TRUE) THEN "last_notify" ELSE "done"
  /\ UNCHANGED <<status, cancelled, notified, process, inputData, gating, worker,
                 seenProc, submitter, releasing>>

NotifyCancelled ==
  /\ canceller \in {"notify", "last_notify"}
  /\ notified' = TRUE
  /\ canceller' = IF canceller = "notify" THEN "finish" ELSE "done"
  /\ UNCHANGED <<status, finishedAt, cancelled, process, inputData, gating, worker, seenProc,
                 submitter, releasing>>

\* api_autorun_submit_input: the status is looked at once, first.
AnswerInput ==
  /\ submitter = "idle"
  /\ status = "awaiting_input"
  /\ inputData' = TRUE
  /\ submitter' = "status"
  /\ UNCHANGED <<outcome, process, gating, worker, cancelling, releasing>>

ResumeInput ==
  /\ submitter = "status"
  /\ SetStatus("crawling")
  /\ submitter' = "idle"
  /\ UNCHANGED <<process, inputData, gating, worker, cancelling, releasing>>

\* release_stage_gate: the status is looked at, then the event is set.
FindWaiting ==
  /\ releaser = "idle"
  /\ releases < MaxReleases
  /\ status = "awaiting_stages"
  /\ releaser' = "release"
  /\ UNCHANGED <<outcome, process, inputData, gating, worker, cancelling, submitter, releases, confirms>>

ReleaseGate ==
  /\ releaser = "release"
  /\ stagesEvent' = TRUE
  /\ releases' = releases + 1
  /\ releaser' = "idle"
  /\ UNCHANGED <<outcome, process, inputData, allReleased, unverified, requireApproval, worker,
                 cancelling, submitter, confirms>>

\* release_all_stage_gates with a job id looks at no status: the flag, then
\* perhaps a request for credentials, then the event.
ConfirmConditions ==
  /\ releaser = "idle"
  /\ confirms < MaxConfirms
  /\ confirms' = confirms + 1
  /\ allReleased' = TRUE
  /\ releaser' \in {"credentials", "wake"}
  /\ UNCHANGED <<outcome, process, inputData, stagesEvent, unverified, requireApproval, worker,
                 cancelling, submitter, releases>>

\* _apply_decisions_to_policy: pages behind the login were chosen and there is
\* no auth.json.
AskCredentials ==
  /\ releaser = "credentials"
  /\ SetStatus("awaiting_input")
  /\ releaser' = "wake"
  /\ UNCHANGED <<process, inputData, gating, worker, cancelling, submitter, releases, confirms>>

WakeGate ==
  /\ releaser = "wake"
  /\ stagesEvent' = TRUE
  /\ releaser' = "idle"
  /\ UNCHANGED <<outcome, process, inputData, allReleased, unverified, requireApproval, worker,
                 cancelling, submitter, releases, confirms>>

CancelRequest == RaiseFlag \/ ReadProc \/ KillProc \/ SetCancelled \/ FinishCancelled \/ NotifyCancelled
SubmitRequest == AnswerInput \/ ResumeInput
ReleaseRequest == FindWaiting \/ ReleaseGate \/ ConfirmConditions \/ AskCredentials \/ WakeGate

Next ==
  \/ RunJob
  \/ \E k \in Children : ChildExits(k)
  \/ CancelRequest
  \/ SubmitRequest
  \/ ReleaseRequest

Spec == Init /\ [][Next]_vars

\* The worker thread runs and its waits have timeouts, so that no request need
\* ever come.  Only reading the output of the crawl has none: the crawl ends by
\* itself, within its page budget.
FairSpec == Spec /\ WF_vars(RunJob) /\ WF_vars(ChildExits("crawl"))

-----------------------------------------------------------------------------
Statuses == {"idle", "discovering", "awaiting_input", "crawling", "generating_qa",
             "awaiting_stages", "generating_scripts", "running_tests"} \cup Terminal

WorkerLabels ==
  {"discover", "discover_spawn", "discover_register", "discover_check", "discover_wait",
   "discover_result", "ask_login", "discovered", "input_check", "input_wait", "input_use", "login_spawn",
   "login_register", "login_check", "login_wait", "login_result", "crawl", "crawl_spawn",
   "crawl_register", "crawl_read", "crawled", "qa_check", "qa_begin", "qa", "qa_done",
   "gate_enter", "gate_clear", "gate_status", "gate_wait", "gate_done", "scripts_check",
   "scripts_begin", "scripts", "scripts_done", "tests_check", "tests_begin", "tests_spawn",
   "tests_register", "tests_regcheck", "tests_wait", "tests_result", "complete",
   "complete_notify", "complete_finish", "fail", "fail_status_notify", "fail_status", "fail_finish", "notify", "end"}

WorkerOK ==
  /\ pc \in WorkerLabels
  /\ gate \in Gates
  /\ back \in {"discovered", "crawled", "qa_done", "scripts_done", "end"}
  /\ signalled \subseteq Children

RequestsOK ==
  /\ canceller \in {"idle", "read", "kill", "status", "notify", "finish", "last_notify", "done"}
  /\ seenProc \in Children \cup {"none"}
  /\ submitter \in {"idle", "status"}
  /\ releaser \in {"idle", "release", "credentials", "wake"}
  /\ releases \in 0..MaxReleases
  /\ releaser = "release" => releases < MaxReleases
  /\ confirms \in 0..MaxConfirms

JobOK ==
  /\ status \in Statuses
  /\ finishedAt \in BOOLEAN
  /\ cancelled \in BOOLEAN
  /\ notified \in BOOLEAN
  /\ proc \in Children \cup {"none"}
  /\ child \in [Children -> {"none", "running", "ended"}]
  /\ inputData \in BOOLEAN
  /\ stagesEvent \in BOOLEAN
  /\ allReleased \in BOOLEAN
  /\ unverified \subseteq Gates
  /\ requireApproval \in BOOLEAN

TypeOK == WorkerOK /\ RequestsOK /\ JobOK

\* The children register_proc looks after, and where their worker is between
\* starting one and looking at _cancelled, and where it waits for it.
Registered == {"discover", "login", "tests"}
RegisterAt(k) ==
  CASE k = "discover" -> "discover_register" [] k = "login" -> "login_register" [] k = "tests" -> "tests_register"
CheckAt(k) ==
  CASE k = "discover" -> "discover_check" [] k = "login" -> "login_check" [] k = "tests" -> "tests_regcheck"
WaitAt(k) ==
  CASE k = "discover" -> "discover_wait" [] k = "login" -> "login_wait" [] k = "tests" -> "tests_wait"

\* No child process escapes a cancel (register_proc, cancel): once cancel() is
\* past its look at the process, a discovery, login or test process that still
\* runs is one whose worker is about to find the flag, or one that was told to
\* end and whose worker waits for it until it does or, at the deadline, kills it.
NoOrphanProcess ==
  canceller \notin {"idle", "read", "kill"} =>
    \A k \in Registered : child[k] = "running" =>
      \/ pc \in {RegisterAt(k), CheckAt(k)}
      \/ k \in signalled /\ pc = WaitAt(k)

TestLabels ==
  {"tests_begin", "tests_spawn", "tests_register", "tests_regcheck", "tests_wait", "tests_result", "complete"}

\* No release opens two gates: when tests start, the gates that nobody recorded
\* as passed without a person are at most as many as the releases, unless the
\* run conditions were confirmed once for all of them.
GatesAccountedFor ==
  pc \in TestLabels => allReleased \/ Cardinality(Gates \ unverified) <= releases

\* The run ends on its own, whether or not anybody ever answers it.
RunEnds == <>(pc = "end")

\* TERMINAL_STATUSES, "terminals after which the state does not advance": only
\* overlapping requests undo an end, namely a cancel request (whose flag stays)
\* and the two handlers that looked at the status before they write it.  The
\* worker by itself never leaves an end, however its phases fail.
TerminalUnlessOverlapped ==
  [][(status \in Terminal) => (cancelled \/ submitter = "status" \/ releaser = "credentials")]_status
=============================================================================
