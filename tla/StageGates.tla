----------------------------- MODULE StageGates -----------------------------
(***************************************************************************)
(* The stages of one site (autorun/stages.py) while a run presents them    *)
(* one by one: the worker (web/services/auto_run_pipeline.py) and the      *)
(* request handlers (web/routes/autorun_stages.py) read stages.json, build *)
(* a new Pipeline from what they read and write the whole file back.       *)
(*                                                                         *)
(* A stage is its status and the last entry of the audit that set one; of  *)
(* items only those of the stage that wants each item approved are kept.   *)
(* The gate itself (event, status, timeouts) is one step here and taken    *)
(* apart in AutoRunJob.                                                    *)
(***************************************************************************)
EXTENDS Integers

CONSTANTS
  Design,         \* how many design stages there are (7)
  ItemStage,      \* the one with requires_item_approval (features)
  SkipStage,      \* the one with skippable_on_rerun (test_plan)
  Clients,        \* request threads
  MaxRequests     \* bound: requests handled

ASSUME StagesAssumption ==
  /\ Design \in Nat \ {0}
  /\ ItemStage \in 1..Design
  /\ SkipStage \in 1..Design
  /\ MaxRequests \in Nat

\* The design stages in order, then "playwright_automation".
Stages == 1..(Design + 1)
Playwright == Design + 1
Done == {"approved", "skipped"}

\* A Pipeline.  items: nothing generated, some item not approved, all approved.
Pipelines ==
  [status : [Stages -> {"pending", "generated"} \cup Done],
   audit : [Stages -> {"none", "generate", "approve", "skip"}],
   items : {"none", "open", "approved"},
   rerun : BOOLEAN]

Initial(rerun) ==
  [status |-> [s \in Stages |-> "pending"], audit |-> [s \in Stages |-> "none"],
   items |-> "none", rerun |-> rerun]

\* What a run before this one leaves behind when all its stages were approved.
Earlier ==
  [status |-> [s \in Stages |-> "approved"], audit |-> [s \in Stages |-> "approve"],
   items |-> "approved", rerun |-> FALSE]

VARIABLES
  exists,         \* stages.json is there
  file,           \* what it holds
  snapshot,       \* the site has a snapshot
  pc,             \* where the worker is
  gate,           \* the gate it is at
  mine,           \* the Pipeline it read
  allReleased,    \* job.stages_all_released
  event,          \* job._stages_event
  waiting,        \* job.status is awaiting_stages
  awaiting,       \* job.awaiting_stage_id, 0 for none
  unverified,     \* gates that timed out
  request,        \* where each request is
  copy,           \* the Pipeline it read
  requests,       \* requests handled so far
  since,          \* history: the gate shown when it read, 0 once others wrote
  settled,        \* history: the stage of the gate shown has been done since it is shown
  late,           \* history: releases by requests others had overtaken
  bare            \* history: design gates released with their stage never done

site == <<snapshot>>
store == <<exists, file>>
job == <<allReleased, event, waiting, awaiting, unverified>>
worker == <<pc, gate, mine>>
handlers == <<request, copy, requests>>
seen == <<since, settled>>
counts == <<late, bare>>
vars == <<site, store, job, worker, handlers, seen, counts>>

Init ==
  /\ snapshot \in BOOLEAN
  /\ exists \in {FALSE, snapshot}
  /\ file = IF exists THEN Earlier ELSE Initial(FALSE)
  /\ pc = "crawl"
  /\ gate = 1
  /\ mine = Initial(FALSE)
  /\ allReleased = FALSE
  /\ event = FALSE
  /\ waiting = FALSE
  /\ awaiting = 0
  /\ unverified = {}
  /\ request = [c \in Clients |-> "idle"]
  /\ copy = [c \in Clients |-> Initial(FALSE)]
  /\ requests = 0
  /\ since = [c \in Clients |-> 0]
  /\ settled = FALSE
  /\ late = 0
  /\ bare = 0

-----------------------------------------------------------------------------
(* Pipeline operations.                                                    *)

\* An approval that is not entered into the audit.
SetStage_Unrecorded(p, s, status, entry) ==
  [p EXCEPT !.status[s] = status, !.audit[s] = IF entry = "approve" THEN @ ELSE entry]

\* Stage.with_status and Pipeline.recorded.
SetStage(p, s, status, entry) ==
  [p EXCEPT !.status[s] = status, !.audit[s] = entry]

\* build_stage: new items, none of them approved.
Generated(p, s) ==
  [SetStage(p, s, "generated", "generate") EXCEPT !.items = IF s = ItemStage THEN "open" ELSE @]

\* What the worker adds once the run conditions are confirmed.
ApprovedByWorker(p, s) ==
  [SetStage(p, s, "approved", "approve") EXCEPT !.items = IF s = ItemStage THEN "approved" ELSE @]

CanApprove(p, s) ==
  p.status[s] # "pending" /\ (s = ItemStage => p.items = "approved")

\* decisions: every stage that is not done yet.
ApproveAll(p) ==
  [p EXCEPT !.status = [s \in Stages |-> IF @[s] \in Done THEN @[s] ELSE "approved"],
            !.audit = [s \in Stages |-> IF p.status[s] \in Done THEN @[s] ELSE "approve"]]

\* The whole file is written; what anybody read before is no longer what it holds.
Written(p) ==
  /\ exists' = TRUE /\ file' = p
  /\ since' = [c \in Clients |-> 0]
  /\ settled' = (settled \/ (awaiting # 0 /\ p.status[awaiting] \in Done))

-----------------------------------------------------------------------------
(* The worker.                                                             *)

\* _phase_crawl: the crawl ends with save_snapshot.
Crawl ==
  /\ pc = "crawl"
  /\ snapshot' = TRUE
  /\ pc' = "load"
  /\ UNCHANGED <<store, job, gate, mine, handlers, seen, counts>>

\* _ensure_stage_content reads the stages; the last gate is called "playwright"
\* and no stage is.
LoadStages ==
  /\ pc = "load"
  /\ IF gate = Playwright
     THEN pc' = "enter" /\ UNCHANGED mine
     ELSE pc' = "save" /\ mine' = IF exists THEN file ELSE Initial(FALSE)
  /\ UNCHANGED <<site, store, job, gate, handlers, seen, counts>>

\* It writes them with the stage of this gate generated anew; a failure is noted
\* and the gate entered all the same.
SaveStage ==
  /\ pc = "save"
  /\ \/ /\ Written(IF allReleased THEN ApprovedByWorker(Generated(mine, gate), gate) ELSE Generated(mine, gate))
     \/ UNCHANGED <<store, seen>>
  /\ pc' = "enter" /\ mine' = Initial(FALSE)
  /\ UNCHANGED <<site, job, gate, handlers, counts>>

\* The rest of _await_stage_approval up to the wait.
EnterGate ==
  /\ pc = "enter"
  /\ IF allReleased
     THEN pc' = "passed" /\ UNCHANGED <<job, settled>>
     ELSE /\ pc' = "wait"
          /\ event' = FALSE
          /\ waiting' = TRUE
          /\ awaiting' = gate
          /\ settled' = (file.status[gate] \in Done)
          /\ UNCHANGED <<allReleased, unverified>>
  /\ UNCHANGED <<site, store, gate, mine, handlers, since, counts>>

\* Released, or two hours passed.
LeaveGate ==
  /\ pc = "wait"
  /\ unverified' = IF event THEN unverified ELSE unverified \cup {gate}
  /\ awaiting' = 0
  /\ pc' = "passed"
  /\ bare' = IF event /\ ~allReleased /\ ~settled /\ gate # Playwright THEN bare + 1 ELSE bare
  /\ UNCHANGED <<site, store, allReleased, event, waiting, gate, mine, handlers, seen, late>>

\* The next design gate; or the scripts, and then the last gate; or the tests.
Advance ==
  /\ pc = "passed"
  /\ \/ /\ gate < Design
        /\ pc' = "load" /\ gate' = gate + 1
        /\ UNCHANGED waiting
     \/ /\ gate = Design
        /\ pc' = "publish" /\ gate' = Playwright
        /\ waiting' = FALSE
     \/ /\ gate = Playwright
        /\ pc' = "tests" /\ waiting' = FALSE
        /\ UNCHANGED gate
  /\ UNCHANGED <<site, store, allReleased, event, awaiting, unverified, mine, handlers, seen, counts>>

\* _publish_playwright_stage; without a file there is nothing to publish.
LoadForPublish ==
  /\ pc = "publish"
  /\ IF exists
     THEN pc' = "publish_save" /\ mine' = file
     ELSE pc' = "load" /\ UNCHANGED mine
  /\ UNCHANGED <<site, store, job, gate, handlers, seen, counts>>

SavePublished ==
  /\ pc = "publish_save"
  /\ \/ /\ Written(IF allReleased
                   THEN SetStage(Generated(mine, gate), gate, "approved", "approve")
                   ELSE Generated(mine, gate))
     \/ UNCHANGED <<store, seen>>
  /\ pc' = "load" /\ mine' = Initial(FALSE)
  /\ UNCHANGED <<site, job, gate, handlers, counts>>

Worker ==
  \/ Crawl \/ LoadStages \/ SaveStage \/ EnterGate \/ LeaveGate \/ Advance
  \/ LoadForPublish \/ SavePublished

-----------------------------------------------------------------------------
(* The handlers.                                                           *)

\* _load_pipeline.
Receive(c) ==
  /\ request[c] = "idle"
  /\ requests < MaxRequests
  /\ requests' = requests + 1
  /\ copy' = [copy EXCEPT ![c] = IF exists THEN file ELSE Initial(snapshot)]
  /\ request' = [request EXCEPT ![c] = "loaded"]
  /\ since' = [since EXCEPT ![c] = awaiting]
  /\ UNCHANGED <<site, store, job, worker, settled, counts>>

\* The request goes on, or is answered and its copy dropped.
Continue(c, next) ==
  /\ request' = [request EXCEPT ![c] = next]
  /\ copy' = [copy EXCEPT ![c] = IF next = "idle" THEN Initial(FALSE) ELSE @]
  /\ UNCHANGED requests

\* A handler that saves what it made of its copy.
Save(c, p, next) ==
  /\ request[c] = "loaded"
  /\ Written(p)
  /\ Continue(c, next)
  /\ UNCHANGED <<site, job, worker, counts>>

ApproveStage(c) == \E s \in Stages :
  CanApprove(copy[c], s) /\ Save(c, SetStage(copy[c], s, "approved", "approve"), "idle")

SkipStageOnRerun(c) ==
  copy[c].rerun /\ Save(c, SetStage(copy[c], SkipStage, "skipped", "skip"), "idle")

GenerateStage(c) == \E s \in Stages : Save(c, Generated(copy[c], s), "idle")

\* api_update_item, api_auto_approve and api_adopt_suggestion: an item of another
\* stage, the last open one of this, or one more that is open.
UpdateItems(c) == \E items \in {copy[c].items, "open", "approved"} :
  /\ copy[c].items = "none" => items # "approved"
  /\ Save(c, [copy[c] EXCEPT !.items = items], "idle")

\* An error, or a request that only reads.
Refuse(c) ==
  /\ request[c] = "loaded"
  /\ Continue(c, "idle")
  /\ UNCHANGED <<site, store, job, worker, seen, counts>>

\* api_reset_stages.
ResetStages(c) == Save(c, Initial(snapshot), "idle")

\* api_submit_decisions, then release_all_stage_gates.
SubmitDecisions(c) == Save(c, ApproveAll(copy[c]), "confirm")

ReleaseAll(c) ==
  /\ request[c] = "confirm"
  /\ allReleased' = TRUE
  /\ event' = TRUE
  /\ Continue(c, "idle")
  /\ UNCHANGED <<site, store, waiting, awaiting, unverified, worker, seen, counts>>

\* The stages api_proceed wants to see done.  It compares names of stages with
\* the name of the gate, which for the last gate is the name of no stage.
Required(p) ==
  IF awaiting # 0 THEN {awaiting} \ {Playwright}
  ELSE IF p.status[Playwright] = "pending" THEN 1..Design
  ELSE Stages

\* A check that takes a generated stage for a finished one.
CheckProceed_Generated(c) ==
  /\ request[c] = "loaded"
  /\ Continue(c, IF \A s \in Required(copy[c]) : copy[c].status[s] # "pending" THEN "release" ELSE "idle")
  /\ UNCHANGED <<site, store, job, worker, seen, counts>>

CheckProceed(c) ==
  /\ request[c] = "loaded"
  /\ Continue(c, IF \A s \in Required(copy[c]) : copy[c].status[s] \in Done THEN "release" ELSE "idle")
  /\ UNCHANGED <<site, store, job, worker, seen, counts>>

\* release_stage_gate.
ReleaseGate(c) ==
  /\ request[c] = "release"
  /\ event' = (event \/ waiting)
  /\ Continue(c, IF waiting THEN "record" ELSE "idle")
  /\ late' = IF waiting /\ since[c] \notin {awaiting} \ {0} THEN late + 1 ELSE late
  /\ UNCHANGED <<site, store, allReleased, waiting, awaiting, unverified, worker, seen, bare>>

\* api_proceed saves the copy it read before, with one more audit entry.
RecordProceed(c) ==
  /\ request[c] = "record"
  /\ Written(copy[c])
  /\ Continue(c, "idle")
  /\ UNCHANGED <<site, job, worker, counts>>

Handle(c) ==
  \/ Receive(c) \/ ApproveStage(c) \/ SkipStageOnRerun(c) \/ GenerateStage(c)
  \/ UpdateItems(c) \/ ResetStages(c) \/ Refuse(c)
  \/ SubmitDecisions(c) \/ ReleaseAll(c)
  \/ CheckProceed(c) \/ ReleaseGate(c) \/ RecordProceed(c)

Next == Worker \/ \E c \in Clients : Handle(c)

Spec == Init /\ [][Next]_vars

-----------------------------------------------------------------------------
TypeOK ==
  /\ exists \in BOOLEAN
  /\ file \in Pipelines
  /\ snapshot \in BOOLEAN
  /\ pc \in {"crawl", "load", "save", "enter", "wait", "passed", "publish", "publish_save", "tests"}
  /\ gate \in Stages
  /\ mine \in Pipelines
  /\ allReleased \in BOOLEAN
  /\ event \in BOOLEAN
  /\ waiting \in BOOLEAN
  /\ awaiting \in Stages \cup {0}
  /\ unverified \subseteq Stages
  /\ request \in [Clients -> {"idle", "loaded", "confirm", "release", "record"}]
  /\ copy \in [Clients -> Pipelines]
  /\ requests \in 0..MaxRequests
  /\ since \in [Clients -> Stages \cup {0}]
  /\ settled \in BOOLEAN
  /\ late \in Nat
  /\ bare \in Nat

\* The audit explains the status: whichever writes are lost to which others, a
\* stage in the file is approved, skipped or generated by its last entry.
Explained(p) ==
  \A s \in Stages : p.audit[s] = CASE p.status[s] = "pending" -> "none"
                                   [] p.status[s] = "generated" -> "generate"
                                   [] p.status[s] = "approved" -> "approve"
                                   [] p.status[s] = "skipped" -> "skip"

AuditExplains == Explained(file)

\* What api_proceed is worth as a barrier when others write and gates pass
\* between its look at the stages and its release: a design gate that nobody
\* confirmed and no deadline opened, and whose stage was at no time done while it
\* was shown, took a proceed of its own that was overtaken after it had read.
\* One overtaken proceed never opens two gates, and no other opens any.
OvertakenProceedsOpen == bare <= late

\* api_proceed's promise for the last gate: tests that started neither after a
\* timeout nor under confirmed conditions found "playwright_automation" done.
TestsAfterApproval ==
  pc = "tests" /\ ~allReleased /\ Playwright \notin unverified => file.status[Playwright] \in Done

=============================================================================
