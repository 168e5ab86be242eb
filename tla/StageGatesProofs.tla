-------------------------- MODULE StageGatesProofs --------------------------
(***************************************************************************)
(* StageGates for every number of stages, clients and requests: the type   *)
(* invariant, that the audit explains the stages whichever writes are      *)
(* lost, and that only proceed requests that were overtaken open design    *)
(* gates whose stages are not done, each of them one.                      *)
(***************************************************************************)
EXTENDS StageGates, TLAPS

\* A Pipeline whose audit explains it.
Sound(p) == p \in Pipelines /\ Explained(p)

\* Every Pipeline somebody holds is sound.
SoundInv ==
  /\ Sound(file)
  /\ Sound(mine)
  /\ \A c \in Clients : Sound(copy[c])

\* Where the gates are: shown while the worker waits, and none before its time.
GateInv ==
  /\ awaiting # 0 => awaiting = gate /\ pc = "wait"
  /\ pc \in {"publish", "publish_save"} => gate = Playwright
  /\ ~exists => file = Initial(FALSE)

\* A request that nobody overtook holds the statuses the file has, the gate it
\* saw is the one still shown or one that is passed, and if it is about to
\* release that gate it found its stage done.
ReadInv ==
  \A c \in Clients :
    /\ since[c] # 0 => since[c] < gate \/ (since[c] = gate /\ pc \in {"wait", "passed", "tests"})
    /\ since[c] # 0 /\ request[c] \in {"loaded", "release"} => copy[c].status = file.status
    /\ request[c] = "release" /\ since[c] \in 1..Design /\ since[c] = awaiting =>
         copy[c].status[awaiting] \in Done

IInv == TypeOK /\ SoundInv /\ GateInv /\ ReadInv

\* The overtaken release that opens a gate is counted before the gate is left,
\* and a stage found done in the file while its gate is shown is settled.
CountInv ==
  /\ bare <= late
  /\ pc = "wait" => awaiting = gate
  /\ awaiting # 0 /\ file.status[awaiting] \in Done => settled
  /\ pc = "wait" /\ event /\ ~settled /\ ~allReleased /\ gate # Playwright => bare + 1 <= late

-----------------------------------------------------------------------------
(* What the Pipeline operations keep.                                      *)

LEMMA StageNumbers ==
  /\ Design \in Nat
  /\ Playwright \in Stages
  /\ SkipStage \in Stages
  /\ 1 \in Stages
  /\ \A s \in Stages : s \in Nat /\ s >= 1 /\ s <= Playwright
  /\ 0 \notin Stages
  /\ 1..Design \subseteq Stages
  /\ Playwright \notin 1..Design
BY StagesAssumption DEF Stages, Playwright

\* A new Pipeline is sound.
LEMMA SoundInitial == ASSUME NEW r \in BOOLEAN PROVE Sound(Initial(r))
BY DEF Sound, Initial, Pipelines, Explained, Done

\* So is the one an earlier run left.
LEMMA SoundEarlier == Sound(Earlier)
BY DEF Sound, Earlier, Pipelines, Explained, Done

\* Setting a status with its entry keeps a Pipeline sound.
LEMMA SoundSetStage ==
  ASSUME NEW p, Sound(p), NEW s \in Stages, NEW status, NEW entry,
         <<status, entry>> \in {<<"generated", "generate">>, <<"approved", "approve">>, <<"skipped", "skip">>}
  PROVE  Sound(SetStage(p, s, status, entry))
BY DEF Sound, SetStage, Pipelines, Explained, Done

\* What becomes of the items does not matter to it.
LEMMA SoundItems ==
  ASSUME NEW p, Sound(p), NEW items \in {"none", "open", "approved"}
  PROVE  Sound([p EXCEPT !.items = items])
BY DEF Sound, Pipelines, Explained

\* Generating a stage.
LEMMA SoundGenerated ==
  ASSUME NEW p, Sound(p), NEW s \in Stages
  PROVE  Sound(Generated(p, s))
<1> DEFINE q == SetStage(p, s, "generated", "generate")
           items == IF s = ItemStage THEN "open" ELSE q.items
<1>1. Sound(q)
  BY SoundSetStage
<1>2. items \in {"none", "open", "approved"}
  BY <1>1 DEF Sound, Pipelines
<1>3. Generated(p, s) = [q EXCEPT !.items = items]
  BY DEF Generated
<1> HIDE DEF q, items
<1> QED
  BY <1>1, <1>2, <1>3, SoundItems

\* Approving it on behalf of confirmed run conditions.
LEMMA SoundApprovedByWorker ==
  ASSUME NEW p, Sound(p), NEW s \in Stages
  PROVE  Sound(ApprovedByWorker(p, s))
<1> DEFINE q == SetStage(p, s, "approved", "approve")
           items == IF s = ItemStage THEN "approved" ELSE q.items
<1>1. Sound(q)
  BY SoundSetStage
<1>2. items \in {"none", "open", "approved"}
  BY <1>1 DEF Sound, Pipelines
<1>3. ApprovedByWorker(p, s) = [q EXCEPT !.items = items]
  BY DEF ApprovedByWorker
<1> HIDE DEF q, items
<1> QED
  BY <1>1, <1>2, <1>3, SoundItems

\* Confirming all that is left.
LEMMA SoundApproveAll == ASSUME NEW p, Sound(p) PROVE Sound(ApproveAll(p))
BY DEF Sound, ApproveAll, Pipelines, Explained, Done

-----------------------------------------------------------------------------
(* The invariant.                                                          *)

LEMMA InitIInv == Init => IInv
<1> SUFFICES ASSUME Init PROVE IInv
  OBVIOUS
<1> USE DEF Init
<1>1. Sound(Initial(FALSE)) /\ Sound(file)
  BY SoundInitial, SoundEarlier
<1>2. TypeOK
  <2>1. exists \in BOOLEAN /\ snapshot \in BOOLEAN
    OBVIOUS
  <2>2. file \in Pipelines /\ mine \in Pipelines /\ copy \in [Clients -> Pipelines]
    BY <1>1 DEF Sound
  <2>3. gate \in Stages /\ requests \in 0..MaxRequests
    BY StageNumbers, StagesAssumption
  <2>4. since \in [Clients -> Stages \cup {0}]
    OBVIOUS
  <2>5. request \in [Clients -> {"idle", "loaded", "confirm", "release", "record"}]
    OBVIOUS
  <2> QED
    BY <2>1, <2>2, <2>3, <2>4, <2>5 DEF TypeOK
<1>3. SoundInv
  BY <1>1 DEF SoundInv
<1>4. GateInv
  BY DEF GateInv
<1>5. ReadInv
  BY DEF ReadInv
<1> QED
  BY <1>2, <1>3, <1>4, <1>5 DEF IInv

\* A step that writes the whole file keeps what has to do with reading it: every
\* request counts as overtaken.
LEMMA WriteKeepsReadInv ==
  ASSUME NEW p, Written(p)
  PROVE  ReadInv' /\ exists' = TRUE /\ file' = p
<1>1. \A c \in Clients : since'[c] = 0
  BY DEF Written
<1>2. ReadInv'
  BY <1>1, StagesAssumption DEF ReadInv
<1> QED
  BY <1>2 DEF Written

\* The worker's steps.
LEMMA WorkerStep == IInv /\ Worker => IInv'
<1> SUFFICES ASSUME IInv, Worker PROVE IInv'
  OBVIOUS
<1> USE StageNumbers, StagesAssumption DEF site, store, job, worker, handlers, seen, counts
<1>t. TypeOK /\ SoundInv /\ GateInv /\ ReadInv
  BY DEF IInv
<1>1. CASE Crawl
  <2>1. TypeOK'
    BY <1>t, <1>1 DEF Crawl, TypeOK
  <2>2. SoundInv'
    BY <1>t, <1>1 DEF Crawl, SoundInv
  <2>3. GateInv'
    BY <1>t, <1>1 DEF Crawl, GateInv
  <2>4. ReadInv'
    BY <1>t, <1>1 DEF Crawl, ReadInv
  <2> QED
    BY <2>1, <2>2, <2>3, <2>4 DEF IInv
<1>2. CASE LoadStages
  <2>1. Sound(mine')
    BY <1>t, <1>2, SoundInitial DEF LoadStages, SoundInv
  <2>2. TypeOK'
    BY <1>t, <1>2, <2>1 DEF LoadStages, TypeOK, Sound
  <2>3. SoundInv'
    BY <1>t, <1>2, <2>1 DEF LoadStages, SoundInv
  <2>4. GateInv'
    BY <1>t, <1>2 DEF LoadStages, GateInv
  <2>5. ReadInv'
    BY <1>t, <1>2 DEF LoadStages, ReadInv
  <2> QED
    BY <2>2, <2>3, <2>4, <2>5 DEF IInv
<1>3. CASE SaveStage
  <2>0. gate \in Stages
    BY <1>t DEF TypeOK
  <2>1. Sound(mine') /\ Sound(file')
    <3>1. Sound(Generated(mine, gate)) /\ Sound(ApprovedByWorker(Generated(mine, gate), gate))
      BY <1>t, <2>0, SoundGenerated, SoundApprovedByWorker DEF SoundInv
    <3> QED
      BY <1>t, <1>3, <3>1, SoundInitial DEF SaveStage, Written, SoundInv
  <2>2. TypeOK'
    BY <1>t, <1>3, <2>1 DEF SaveStage, TypeOK, Sound, Written
  <2>3. SoundInv'
    BY <1>t, <1>3, <2>1 DEF SaveStage, SoundInv
  <2>4. GateInv'
    BY <1>t, <1>3 DEF SaveStage, GateInv, Written
  <2>5. ReadInv'
    <3>1. CASE UNCHANGED <<store, seen>>
      BY <1>t, <1>3, <3>1 DEF SaveStage, ReadInv
    <3>2. CASE ~UNCHANGED <<store, seen>>
      BY <1>3, <3>2, WriteKeepsReadInv DEF SaveStage
    <3> QED
      BY <3>1, <3>2
  <2> QED
    BY <2>2, <2>3, <2>4, <2>5 DEF IInv
<1>4. CASE EnterGate
  <2>1. TypeOK'
    <3>1. CASE allReleased
      BY <1>t, <1>4, <3>1 DEF EnterGate, TypeOK
    <3>2. CASE ~allReleased
      <4>1. settled' \in BOOLEAN
        BY <1>4, <3>2 DEF EnterGate
      <4> QED
        BY <1>t, <1>4, <3>2, <4>1 DEF EnterGate, TypeOK
    <3> QED
      BY <3>1, <3>2
  <2>2. SoundInv'
    BY <1>t, <1>4 DEF EnterGate, SoundInv
  <2>3. GateInv'
    BY <1>t, <1>4 DEF EnterGate, GateInv
  <2>4. ReadInv'
    BY <1>t, <1>4 DEF EnterGate, ReadInv, GateInv, TypeOK
  <2> QED
    BY <2>1, <2>2, <2>3, <2>4 DEF IInv
<1>5. CASE LeaveGate
  <2>1. TypeOK'
    <3>1. bare' \in Nat /\ unverified' \subseteq Stages
      BY <1>t, <1>5 DEF LeaveGate, TypeOK
    <3> QED
      BY <1>t, <1>5, <3>1 DEF LeaveGate, TypeOK
  <2>2. SoundInv'
    BY <1>t, <1>5 DEF LeaveGate, SoundInv
  <2>3. GateInv'
    BY <1>t, <1>5 DEF LeaveGate, GateInv
  <2>4. ReadInv'
    BY <1>t, <1>5 DEF LeaveGate, ReadInv
  <2> QED
    BY <2>1, <2>2, <2>3, <2>4 DEF IInv
<1>6. CASE Advance
  <2>0. gate' \in Stages
    <3>1. gate \in 1..Design + 1
      BY <1>t DEF TypeOK, Stages
    <3>2. gate' \in 1..Design + 1
      BY <1>6, <3>1 DEF Advance, Playwright
    <3> QED
      BY <3>2 DEF Stages
  <2>1. TypeOK'
    BY <1>t, <1>6, <2>0 DEF Advance, TypeOK
  <2>2. SoundInv'
    BY <1>t, <1>6 DEF Advance, SoundInv
  <2>3. GateInv'
    BY <1>t, <1>6 DEF Advance, GateInv
  <2>4. ReadInv'
    BY <1>t, <1>6 DEF Advance, ReadInv, GateInv, TypeOK, Stages, Playwright
  <2> QED
    BY <2>1, <2>2, <2>3, <2>4 DEF IInv
<1>7. CASE LoadForPublish
  <2>1. Sound(mine')
    BY <1>t, <1>7 DEF LoadForPublish, SoundInv
  <2>2. TypeOK'
    BY <1>t, <1>7, <2>1 DEF LoadForPublish, TypeOK, Sound
  <2>3. SoundInv'
    BY <1>t, <1>7, <2>1 DEF LoadForPublish, SoundInv
  <2>4. GateInv'
    BY <1>t, <1>7 DEF LoadForPublish, GateInv
  <2>5. ReadInv'
    BY <1>t, <1>7 DEF LoadForPublish, ReadInv
  <2> QED
    BY <2>2, <2>3, <2>4, <2>5 DEF IInv
<1>8. CASE SavePublished
  <2>0. gate \in Stages
    BY <1>t DEF TypeOK
  <2>1. Sound(mine') /\ Sound(file')
    <3>1. Sound(Generated(mine, gate))
      BY <1>t, <2>0, SoundGenerated DEF SoundInv
    <3>2. Sound(SetStage(Generated(mine, gate), gate, "approved", "approve"))
      BY <2>0, <3>1, SoundSetStage
    <3> QED
      BY <1>t, <1>8, <3>1, <3>2, SoundInitial DEF SavePublished, Written, SoundInv
  <2>2. TypeOK'
    BY <1>t, <1>8, <2>1 DEF SavePublished, TypeOK, Sound, Written
  <2>3. SoundInv'
    BY <1>t, <1>8, <2>1 DEF SavePublished, SoundInv
  <2>4. GateInv'
    BY <1>t, <1>8 DEF SavePublished, GateInv, Written
  <2>5. ReadInv'
    <3>1. CASE UNCHANGED <<store, seen>>
      BY <1>t, <1>8, <3>1 DEF SavePublished, ReadInv
    <3>2. CASE ~UNCHANGED <<store, seen>>
      BY <1>8, <3>2, WriteKeepsReadInv DEF SavePublished
    <3> QED
      BY <3>1, <3>2
  <2> QED
    BY <2>2, <2>3, <2>4, <2>5 DEF IInv
<1> QED
  BY <1>1, <1>2, <1>3, <1>4, <1>5, <1>6, <1>7, <1>8 DEF Worker

\* The steps that answer a request or move it on, and write nothing.
LEMMA ContinueType ==
  ASSUME TypeOK, SoundInv, NEW c \in Clients,
         NEW next \in {"idle", "loaded", "confirm", "release", "record"}, Continue(c, next)
  PROVE  /\ request' \in [Clients -> {"idle", "loaded", "confirm", "release", "record"}]
         /\ copy' \in [Clients -> Pipelines]
         /\ requests' = requests
         /\ request'[c] = next
         /\ next # "idle" => copy' = copy
         /\ \A d \in Clients \ {c} : request'[d] = request[d] /\ copy'[d] = copy[d]
         /\ \A d \in Clients : Sound(copy'[d])
<1>1. Sound(Initial(FALSE))
  BY SoundInitial
<1>2. Initial(FALSE) \in Pipelines
  BY <1>1 DEF Sound
<1>3. copy \in [Clients -> Pipelines] /\ \A d \in Clients : Sound(copy[d])
  BY DEF TypeOK, SoundInv
<1>4. copy' = [copy EXCEPT ![c] = IF next = "idle" THEN Initial(FALSE) ELSE copy[c]]
  BY DEF Continue
<1>5. copy' \in [Clients -> Pipelines]
  BY <1>2, <1>3, <1>4
<1>6. next # "idle" => copy' = copy
  BY <1>3, <1>4
<1>7. \A d \in Clients \ {c} : copy'[d] = copy[d]
  BY <1>3, <1>4
<1>8. Sound(copy'[c])
  BY <1>1, <1>3, <1>4
<1>9. \A d \in Clients : Sound(copy'[d])
  BY <1>3, <1>7, <1>8
<1>10. request' = [request EXCEPT ![c] = next] /\ requests' = requests
  BY DEF Continue
<1>11. request \in [Clients -> {"idle", "loaded", "confirm", "release", "record"}]
  BY DEF TypeOK
<1> QED
  BY <1>5, <1>6, <1>7, <1>9, <1>10, <1>11

\* A handler that saves: all requests are overtaken, the file stays sound.
LEMMA SaveStep ==
  ASSUME IInv, NEW c \in Clients, NEW p, Sound(p), NEW next \in {"idle", "confirm"},
         Written(p), Continue(c, next), UNCHANGED <<site, job, worker, counts>>
  PROVE  IInv'
<1>t. TypeOK /\ SoundInv /\ GateInv /\ ReadInv
  BY DEF IInv
<1>c. /\ request' \in [Clients -> {"idle", "loaded", "confirm", "release", "record"}]
      /\ copy' \in [Clients -> Pipelines]
      /\ requests' = requests
      /\ \A d \in Clients : Sound(copy'[d])
  BY <1>t, ContinueType
<1>1. TypeOK'
  BY <1>t, <1>c, StageNumbers DEF TypeOK, Written, Sound, site, job, worker, counts
<1>2. SoundInv'
  BY <1>t, <1>c DEF SoundInv, Written, worker
<1>3. GateInv'
  BY <1>t DEF GateInv, Written, job, worker
<1>4. ReadInv'
  BY WriteKeepsReadInv
<1> QED
  BY <1>1, <1>2, <1>3, <1>4 DEF IInv

\* A handler that moves on without writing: the statuses it holds are the ones it
\* held, and to reach a release it must have found the shown gate's stage done.
LEMMA MoveStep ==
  ASSUME IInv, NEW c \in Clients, NEW next \in {"idle", "release", "record"}, Continue(c, next),
         UNCHANGED <<site, store, seen, worker, waiting, awaiting, unverified>>,
         allReleased' \in BOOLEAN, event' \in BOOLEAN, late' \in Nat, bare' \in Nat,
         next = "release" =>
           /\ request[c] = "loaded"
           /\ \A s \in Required(copy[c]) : copy[c].status[s] \in Done
  PROVE  IInv'
<1>t. TypeOK /\ SoundInv /\ GateInv /\ ReadInv
  BY DEF IInv
<1>c. /\ request' \in [Clients -> {"idle", "loaded", "confirm", "release", "record"}]
      /\ copy' \in [Clients -> Pipelines]
      /\ requests' = requests
      /\ request'[c] = next
      /\ next # "idle" => copy' = copy
      /\ \A d \in Clients \ {c} : request'[d] = request[d] /\ copy'[d] = copy[d]
      /\ \A d \in Clients : Sound(copy'[d])
  BY <1>t, ContinueType
<1> USE DEF site, store, seen, worker
<1>1. TypeOK'
  BY <1>t, <1>c DEF TypeOK
<1>2. SoundInv'
  BY <1>t, <1>c DEF SoundInv
<1>3. GateInv'
  BY <1>t DEF GateInv
<1>4. ReadInv'
  <2> SUFFICES ASSUME NEW d \in Clients
               PROVE  /\ since[d] # 0 => since[d] < gate \/ (since[d] = gate /\ pc \in {"wait", "passed", "tests"})
                      /\ since[d] # 0 /\ request'[d] \in {"loaded", "release"} => copy'[d].status = file.status
                      /\ request'[d] = "release" /\ since[d] \in 1..Design /\ since[d] = awaiting =>
                           copy'[d].status[awaiting] \in Done
    BY DEF ReadInv
  <2>1. CASE d # c
    BY <1>t, <1>c, <2>1 DEF ReadInv
  <2>2. CASE d = c /\ next # "release"
    BY <1>t, <1>c, <2>2 DEF ReadInv
  <2>3. CASE d = c /\ next = "release"
    <3>1. since[c] \in 1..Design /\ since[c] = awaiting => awaiting \in Required(copy[c])
      BY StageNumbers DEF Required
    <3> QED
      BY <1>t, <1>c, <2>3, <3>1 DEF ReadInv
  <2> QED
    BY <2>1, <2>2, <2>3
<1> QED
  BY <1>1, <1>2, <1>3, <1>4 DEF IInv

\* Every handler.
LEMMA HandleStep == ASSUME IInv, NEW c \in Clients, Handle(c) PROVE IInv'
<1>t. TypeOK /\ SoundInv /\ GateInv /\ ReadInv
  BY DEF IInv
<1>s. Sound(copy[c]) /\ snapshot \in BOOLEAN
  BY <1>t DEF SoundInv, TypeOK
<1>1. CASE Receive(c)
  <2>0. PICK p : p = IF exists THEN file ELSE Initial(snapshot)
    OBVIOUS
  <2>1. Sound(p)
    BY <1>t, <1>s, <2>0, SoundInitial DEF SoundInv
  <2>2. p.status = file.status
    BY <1>t, <1>s, <2>0 DEF GateInv, Initial
  <2>3. copy' = [copy EXCEPT ![c] = p]
    BY <1>1, <2>0 DEF Receive
  <2>4. copy' \in [Clients -> Pipelines] /\ copy'[c] = p /\ \A d \in Clients \ {c} : copy'[d] = copy[d]
    BY <1>t, <2>1, <2>3 DEF TypeOK, Sound
  <2>5. /\ request' \in [Clients -> {"idle", "loaded", "confirm", "release", "record"}]
        /\ request'[c] = "loaded"
        /\ \A d \in Clients \ {c} : request'[d] = request[d]
    BY <1>t, <1>1 DEF TypeOK, Receive
  <2>6. /\ since' \in [Clients -> Stages \cup {0}]
        /\ since'[c] = awaiting
        /\ \A d \in Clients \ {c} : since'[d] = since[d]
    BY <1>t, <1>1 DEF TypeOK, Receive
  <2>7. requests' \in 0..MaxRequests
    BY <1>t, <1>1, StagesAssumption DEF TypeOK, Receive
  <2>u. UNCHANGED <<snapshot, exists, file, allReleased, event, waiting, awaiting, unverified, pc, gate, mine,
                    settled, late, bare>>
    BY <1>1 DEF Receive, site, store, job, worker, counts
  <2>8. TypeOK'
    BY <1>t, <2>4, <2>5, <2>6, <2>7, <2>u DEF TypeOK
  <2>9. SoundInv'
    <3>1. \A d \in Clients : Sound(copy'[d])
      BY <1>t, <2>1, <2>4 DEF SoundInv
    <3> QED
      BY <1>t, <2>u, <3>1 DEF SoundInv
  <2>10. GateInv'
    BY <1>t, <2>u DEF GateInv
  <2>11. ReadInv'
    BY <1>t, <2>2, <2>4, <2>5, <2>6, <2>u DEF ReadInv, GateInv
  <2> QED
    BY <2>8, <2>9, <2>10, <2>11 DEF IInv
<1>2. CASE ApproveStage(c)
  BY <1>2, <1>s, SoundSetStage, SaveStep DEF ApproveStage, Save
<1>3. CASE SkipStageOnRerun(c)
  BY <1>3, <1>s, StageNumbers, SoundSetStage, SaveStep DEF SkipStageOnRerun, Save
<1>4. CASE GenerateStage(c)
  BY <1>4, <1>s, SoundGenerated, SaveStep DEF GenerateStage, Save
<1>5. CASE UpdateItems(c)
  <2>1. PICK items \in {copy[c].items, "open", "approved"} : Save(c, [copy[c] EXCEPT !.items = items], "idle")
    BY <1>5 DEF UpdateItems
  <2>2. items \in {"none", "open", "approved"}
    BY <1>s DEF Sound, Pipelines
  <2> QED
    BY <1>s, <2>1, <2>2, SoundItems, SaveStep DEF Save
<1>6. CASE ResetStages(c)
  BY <1>6, <1>s, SoundInitial, SaveStep DEF ResetStages, Save
<1>7. CASE Refuse(c)
  BY <1>7, <1>t, MoveStep DEF Refuse, job, counts, TypeOK
<1>8. CASE SubmitDecisions(c)
  BY <1>8, <1>s, SoundApproveAll, SaveStep DEF SubmitDecisions, Save
<1>9. CASE ReleaseAll(c)
  BY <1>9, <1>t, MoveStep DEF ReleaseAll, counts, TypeOK
<1>10. CASE CheckProceed(c)
  BY <1>10, <1>t, MoveStep DEF CheckProceed, job, counts, TypeOK
<1>11. CASE ReleaseGate(c)
  BY <1>11, <1>t, MoveStep DEF ReleaseGate, TypeOK
<1>12. CASE RecordProceed(c)
  BY <1>12, <1>s, SaveStep DEF RecordProceed
<1> QED
  BY <1>1, <1>2, <1>3, <1>4, <1>5, <1>6, <1>7, <1>8, <1>9, <1>10, <1>11, <1>12 DEF Handle

LEMMA NextIInv == IInv /\ [Next]_vars => IInv'
<1> SUFFICES ASSUME IInv, [Next]_vars PROVE IInv'
  OBVIOUS
<1>1. CASE Worker
  BY <1>1, WorkerStep
<1>2. CASE \E c \in Clients : Handle(c)
  BY <1>2, HandleStep
<1>3. CASE UNCHANGED vars
  <2> USE <1>3 DEF vars, site, store, job, worker, handlers, seen, counts
  <2>1. TypeOK'
    BY DEF IInv, TypeOK
  <2>2. SoundInv'
    BY DEF IInv, SoundInv
  <2>3. GateInv'
    BY DEF IInv, GateInv
  <2>4. ReadInv'
    BY DEF IInv, ReadInv
  <2> QED
    BY <2>1, <2>2, <2>3, <2>4 DEF IInv
<1> QED
  BY <1>1, <1>2, <1>3 DEF Next

-----------------------------------------------------------------------------
(* Counting the gates that were opened with their stages not done.         *)

\* The worker counts a gate it leaves; it waits at none otherwise.
LEMMA WorkerCounts == ASSUME IInv, CountInv, Worker PROVE CountInv'
<1> USE StageNumbers DEF site, store, job, worker, handlers, seen, counts
<1>t. TypeOK /\ GateInv
  BY DEF IInv
<1>n. late \in Nat /\ bare \in Nat
  BY <1>t DEF TypeOK
<1>1. CASE Crawl \/ LoadStages \/ LoadForPublish
  BY <1>1, <1>t DEF Crawl, LoadStages, LoadForPublish, CountInv, GateInv
<1>2. CASE SaveStage \/ SavePublished
  <2>1. awaiting = 0
    BY <1>2, <1>t DEF SaveStage, SavePublished, GateInv
  <2>2. pc' # "wait" /\ UNCHANGED <<awaiting, counts>>
    BY <1>2 DEF SaveStage, SavePublished
  <2> QED
    BY <2>1, <2>2 DEF CountInv
<1>3. CASE EnterGate
  BY <1>3, <1>t DEF EnterGate, CountInv, GateInv
<1>4. CASE LeaveGate
  BY <1>4, <1>n DEF LeaveGate, CountInv
<1>5. CASE Advance
  BY <1>5, <1>t DEF Advance, CountInv, GateInv
<1> QED
  BY <1>1, <1>2, <1>3, <1>4, <1>5 DEF Worker

\* A write of the stages settles what it finds done.
LEMMA WriteCounts ==
  ASSUME TypeOK, CountInv, NEW p, Written(p), UNCHANGED <<job, worker, counts>>
  PROVE  CountInv'
BY DEF TypeOK, CountInv, Written, job, worker, counts

\* The handlers: only a release that was overtaken may open a gate too early.
LEMMA HandlerCounts == ASSUME IInv, CountInv, NEW c \in Clients, Handle(c) PROVE CountInv'
<1>t. TypeOK /\ GateInv /\ ReadInv
  BY DEF IInv
<1>n. late \in Nat /\ bare \in Nat
  BY <1>t DEF TypeOK
<1>1. CASE Receive(c) \/ Refuse(c) \/ CheckProceed(c)
  BY <1>1 DEF Receive, Refuse, CheckProceed, CountInv, store, job, worker, seen, counts
<1>2. CASE ApproveStage(c) \/ SkipStageOnRerun(c) \/ GenerateStage(c) \/ UpdateItems(c)
           \/ ResetStages(c) \/ SubmitDecisions(c)
  <2>1. \E p, next : Save(c, p, next)
    BY <1>2 DEF ApproveStage, SkipStageOnRerun, GenerateStage, UpdateItems, ResetStages, SubmitDecisions
  <2> QED
    BY <1>t, <2>1, WriteCounts DEF Save
<1>3. CASE RecordProceed(c)
  BY <1>3, <1>t, WriteCounts DEF RecordProceed
<1>4. CASE ReleaseAll(c)
  BY <1>4 DEF ReleaseAll, CountInv, store, worker, seen, counts
<1>5. CASE ReleaseGate(c)
  <2>u. UNCHANGED <<file, allReleased, awaiting, pc, gate, settled, bare>>
    BY <1>5 DEF ReleaseGate, store, worker, seen
  <2>1. late <= late'
    BY <1>5, <1>n DEF ReleaseGate
  <2>2. CASE late' = late + 1
    BY <1>n, <2>2, <2>u DEF CountInv
  <2>3. CASE late' = late /\ ~waiting
    BY <1>5, <1>t, <2>3, <2>u DEF ReleaseGate, CountInv, TypeOK
  <2>4. CASE late' = late /\ waiting
    <3>1. since[c] = awaiting /\ since[c] # 0
      BY <1>5, <1>n, <2>4 DEF ReleaseGate
    <3>2. awaiting = gate /\ gate \in Stages
      BY <1>t, <3>1 DEF GateInv, TypeOK
    <3>3. gate # Playwright => since[c] \in 1..Design
      BY <3>1, <3>2, StageNumbers, StagesAssumption DEF Stages, Playwright
    <3>4. gate # Playwright => settled
      BY <1>5, <1>t, <3>1, <3>3 DEF ReleaseGate, ReadInv, CountInv
    <3> QED
      BY <2>4, <2>u, <3>4 DEF CountInv
  <2> QED
    BY <1>5, <2>2, <2>3, <2>4 DEF ReleaseGate
<1> QED
  BY <1>1, <1>2, <1>3, <1>4, <1>5 DEF Handle

LEMMA NextCounts == IInv /\ CountInv /\ [Next]_vars => CountInv'
<1> SUFFICES ASSUME IInv, CountInv, [Next]_vars PROVE CountInv'
  OBVIOUS
<1>1. CASE UNCHANGED vars
  BY <1>1 DEF CountInv, vars, store, job, worker, seen, counts
<1> QED
  BY <1>1, WorkerCounts, HandlerCounts DEF Next

\* The invariant holds in every reachable state.
THEOREM InductiveInvariant == Spec => []IInv
<1>1. Init => IInv
  BY InitIInv
<1>2. IInv /\ [Next]_vars => IInv'
  BY NextIInv
<1> QED
  BY <1>1, <1>2, PTL DEF Spec

\* Every variable of the stages, of the worker and of the requests stays in range.
THEOREM TypeCorrect == Spec => []TypeOK
<1>1. IInv => TypeOK
  BY DEF IInv
<1> QED
  BY <1>1, InductiveInvariant, PTL

\* Whichever writes of stages.json are lost, its audit explains its stages.
THEOREM AuditAlwaysExplains == Spec => []AuditExplains
<1>1. IInv => AuditExplains
  BY DEF IInv, SoundInv, Sound, AuditExplains
<1> QED
  BY <1>1, InductiveInvariant, PTL

\* For any number of stages, clients and requests: the design gates that a proceed
\* opened with their stages never done while shown are at most as many as the
\* proceeds that were overtaken between reading the stages and releasing.
THEOREM OvertakenOpenOne == Spec => []OvertakenProceedsOpen
<1>1. Init => CountInv
  BY DEF Init, CountInv
<1>2. CountInv => OvertakenProceedsOpen
  BY DEF CountInv, OvertakenProceedsOpen
<1> QED
  BY <1>1, <1>2, InductiveInvariant, NextCounts, PTL DEF Spec

=============================================================================
