-------------------------- MODULE AutoRunJobProofs --------------------------
(***************************************************************************)
(* AutoRunJob for every number of design stages and of requests: the type  *)
(* invariant, that no registered child process escapes a cancellation,     *)
(* that no release opens two gates, and that an end is undone in named     *)
(* overlaps only.                                                          *)
(***************************************************************************)
EXTENDS AutoRunJob, FiniteSetTheorems, TLAPS

\* A registered child runs only while its worker attends to it, the worker has
\* stored it before it looks at the flag, and a cancel request that is about to
\* end a child holds this one, or has raised the flag in time for its worker.
ChildInv ==
  /\ canceller # "idle" => cancelled
  /\ \A k \in Registered :
       /\ child[k] = "running" => pc \in {RegisterAt(k), CheckAt(k), WaitAt(k)}
       /\ pc \in {CheckAt(k), WaitAt(k)} => proc = k
       /\ canceller = "kill" /\ child[k] = "running" =>
            \/ pc \in {RegisterAt(k), CheckAt(k)}
            \/ seenProc = k
            \/ k \in signalled /\ pc = WaitAt(k)

\* The gates behind the worker, and the release that is waiting for it.
Passed == {g \in Gates : g < gate \/ (g = gate /\ pc \in {"gate_done", "tests_check"} \cup TestLabels)}
Credit == IF stagesEvent /\ pc \in {"gate_status", "gate_wait"} THEN 1 ELSE 0

\* Each gate passed took a release, except for runs that are confirmed or cancelled.
GateInv ==
  /\ releaser \in {"credentials", "wake"} => allReleased
  /\ canceller # "idle" => cancelled
  /\ pc \in {"tests_check"} \cup TestLabels => gate = LastGate
  /\ \/ allReleased
     \/ cancelled /\ pc \notin TestLabels
     \/ Cardinality(Passed \ unverified) + Credit <= releases

\* A step that opens no gate and gives no credit without a release.
Quiet ==
  /\ releaser' \in {"credentials", "wake"} => allReleased'
  /\ canceller' # "idle" => cancelled'
  /\ pc' \in {"tests_check"} \cup TestLabels => gate' = LastGate
  /\ allReleased => allReleased'
  /\ cancelled => cancelled'
  /\ pc' \in TestLabels => pc \in TestLabels \/ ~cancelled
  /\ \/ allReleased'
     \/ cancelled' /\ pc' \notin TestLabels
     \/ /\ Passed' \ unverified' \subseteq Passed \ unverified
        /\ Credit' + releases <= Credit + releases'

\* Every step keeps the fields of the job in their ranges.
LEMMA JobStep ==
  TypeOK /\ [Next]_vars => JobOK'
<1> SUFFICES ASSUME TypeOK, [Next]_vars PROVE JobOK'
  OBVIOUS
<1> USE GatesAssumption
  DEF outcome, process, gating, worker, cancelling, releasing, requests, Goto, SetStatus,
  TypeOK, WorkerOK, JobOK, Statuses, Terminal, Children
<1>1. CASE StartDiscovery \/ AskLogin \/ StartCrawl \/ BeginQA \/ BeginScripts \/ BeginTests \/ ShowGate
  BY <1>1 DEF StartDiscovery, AskLogin, StartCrawl, BeginQA, BeginScripts, BeginTests, ShowGate, Begin
<1>2. CASE SpawnDiscovery
  BY <1>2 DEF SpawnDiscovery, Spawn
<1>3. CASE SpawnLogin
  BY <1>3 DEF SpawnLogin, Spawn, FailTo
<1>4. CASE SpawnCrawl
  BY <1>4 DEF SpawnCrawl, Spawn, FailTo
<1>5. CASE SpawnTests
  BY <1>5 DEF SpawnTests, Spawn, FailTo
<1>6. CASE RegisterDiscovery \/ RegisterLogin \/ RegisterCrawl \/ RegisterTests
  BY <1>6 DEF RegisterDiscovery, RegisterLogin, RegisterCrawl, RegisterTests, Register
<1>7. CASE CheckDiscovery \/ CheckLogin \/ CheckTestsChild
  BY <1>7 DEF CheckDiscovery, CheckLogin, CheckTestsChild, RegisterCheck
<1>8. CASE CollectDiscovery \/ CollectLogin \/ CollectTests
  BY <1>8 DEF CollectDiscovery, CollectLogin, CollectTests, Collect, FailTo
<1>9. CASE AbandonCrawl \/ LoseCrawl \/ CollectCrawl
  BY <1>9 DEF AbandonCrawl, LoseCrawl, CollectCrawl, FailTo
<1>10. CASE AfterDiscovery \/ AfterCrawl \/ AfterQA \/ AfterScripts
  BY <1>10 DEF AfterDiscovery, AfterCrawl, AfterQA, AfterScripts, BetweenPhases
<1>11. CASE AwaitInput \/ CheckQA \/ CheckScripts \/ CheckTests
  BY <1>11 DEF AwaitInput, CheckQA, CheckScripts, CheckTests, Unless
<1>12. CASE CheckInput \/ UseInput \/ AfterLogin
  BY <1>12 DEF CheckInput, UseInput, AfterLogin
<1>13. CASE FinishDiscovery \/ GenerateQA \/ GenerateScripts \/ JudgeTests
  BY <1>13 DEF FinishDiscovery, GenerateQA, GenerateScripts, Generate, JudgeTests, FailTo
<1>14. CASE EnterGate
  BY <1>14 DEF EnterGate
<1>15. CASE ClearGate
  BY <1>15 DEF ClearGate
<1>16. CASE OpenGate
  BY <1>16 DEF OpenGate
<1>17. CASE TimeOutGate
  BY <1>17 DEF TimeOutGate
<1>18. CASE LeaveGate
  BY <1>18 DEF LeaveGate
<1>19. CASE Complete \/ MarkFailed
  BY <1>19 DEF Complete, MarkFailed, End
<1>20. CASE FinishRun
  BY <1>20 DEF FinishRun, Return
<1>21. CASE CheckFailed
  BY <1>21 DEF CheckFailed, Return
<1>22. CASE Notify
  BY <1>22 DEF Notify, Return
<1>23. CASE \E k \in Children : ChildExits(k)
  BY <1>23 DEF ChildExits
<1>24. CASE RaiseFlag
  BY <1>24 DEF RaiseFlag
<1>25. CASE ReadProc
  BY <1>25 DEF ReadProc
<1>26. CASE KillProc
  BY <1>26 DEF KillProc
<1>27. CASE SetCancelled
  BY <1>27 DEF SetCancelled
<1>28. CASE FinishCancelled
  BY <1>28 DEF FinishCancelled
<1>29. CASE NotifyCancelled
  BY <1>29 DEF NotifyCancelled
<1>30. CASE SubmitRequest
  BY <1>30 DEF SubmitRequest, AnswerInput, ResumeInput
<1>31. CASE FindWaiting
  BY <1>31 DEF FindWaiting
<1>32. CASE ReleaseGate
  BY <1>32 DEF ReleaseGate
<1>33. CASE ConfirmConditions
  BY <1>33 DEF ConfirmConditions
<1>34. CASE AskCredentials
  BY <1>34 DEF AskCredentials
<1>35. CASE WakeGate
  BY <1>35 DEF WakeGate
<1>36. CASE UNCHANGED vars
  BY <1>36 DEF vars
<1> QED
  BY <1>1, <1>2, <1>3, <1>4, <1>5, <1>6, <1>7, <1>8, <1>9, <1>10, <1>11, <1>12, <1>13, <1>14,
     <1>15, <1>16, <1>17, <1>18, <1>19, <1>20, <1>21, <1>22, <1>23, <1>24, <1>25, <1>26, <1>27, <1>28,
     <1>29, <1>30, <1>31, <1>32, <1>33, <1>34, <1>35, <1>36
     DEF Next, RunJob, CancelRequest, ReleaseRequest

\* Every step keeps the worker at a label and at a gate that exist.
LEMMA WorkerStep ==
  TypeOK /\ [Next]_vars => WorkerOK'
<1> SUFFICES ASSUME TypeOK, [Next]_vars PROVE WorkerOK'
  OBVIOUS
<1> USE GatesAssumption
  DEF outcome, process, gating, worker, cancelling, releasing, requests, Goto, SetStatus,
  TypeOK, WorkerOK, WorkerLabels, Gates, LastGate
<1>1. CASE StartDiscovery \/ AskLogin \/ StartCrawl \/ BeginQA \/ BeginScripts \/ BeginTests \/ ShowGate
  BY <1>1 DEF StartDiscovery, AskLogin, StartCrawl, BeginQA, BeginScripts, BeginTests, ShowGate, Begin
<1>2. CASE SpawnDiscovery
  BY <1>2 DEF SpawnDiscovery, Spawn
<1>3. CASE SpawnLogin
  BY <1>3 DEF SpawnLogin, Spawn, FailTo
<1>4. CASE SpawnCrawl
  BY <1>4 DEF SpawnCrawl, Spawn, FailTo
<1>5. CASE SpawnTests
  BY <1>5 DEF SpawnTests, Spawn, FailTo
<1>6. CASE RegisterDiscovery \/ RegisterLogin \/ RegisterCrawl \/ RegisterTests
  BY <1>6 DEF RegisterDiscovery, RegisterLogin, RegisterCrawl, RegisterTests, Register
<1>7. CASE CheckDiscovery \/ CheckLogin \/ CheckTestsChild
  BY <1>7 DEF CheckDiscovery, CheckLogin, CheckTestsChild, RegisterCheck, Children
<1>8. CASE CollectDiscovery \/ CollectLogin \/ CollectTests
  BY <1>8 DEF CollectDiscovery, CollectLogin, CollectTests, Collect, FailTo
<1>9. CASE AbandonCrawl \/ LoseCrawl \/ CollectCrawl
  BY <1>9 DEF AbandonCrawl, LoseCrawl, CollectCrawl, FailTo, Children
<1>10. CASE AfterDiscovery \/ AfterCrawl \/ AfterQA \/ AfterScripts
  BY <1>10 DEF AfterDiscovery, AfterCrawl, AfterQA, AfterScripts, BetweenPhases
<1>11. CASE AwaitInput \/ CheckQA \/ CheckScripts \/ CheckTests
  BY <1>11 DEF AwaitInput, CheckQA, CheckScripts, CheckTests, Unless
<1>12. CASE CheckInput \/ UseInput \/ AfterLogin
  BY <1>12 DEF CheckInput, UseInput, AfterLogin
<1>13. CASE FinishDiscovery \/ GenerateQA \/ GenerateScripts \/ JudgeTests
  BY <1>13 DEF FinishDiscovery, GenerateQA, GenerateScripts, Generate, JudgeTests, FailTo
<1>14. CASE EnterGate
  BY <1>14 DEF EnterGate
<1>15. CASE ClearGate
  BY <1>15 DEF ClearGate
<1>16. CASE OpenGate
  BY <1>16 DEF OpenGate
<1>17. CASE TimeOutGate
  BY <1>17 DEF TimeOutGate
<1>18. CASE LeaveGate
  BY <1>18 DEF LeaveGate
<1>19. CASE Complete \/ MarkFailed
  BY <1>19 DEF Complete, MarkFailed, End
<1>20. CASE FinishRun
  BY <1>20 DEF FinishRun, Return
<1>21. CASE CheckFailed
  BY <1>21 DEF CheckFailed, Return
<1>22. CASE Notify
  BY <1>22 DEF Notify, Return
<1>23. CASE \E k \in Children : ChildExits(k)
  BY <1>23 DEF ChildExits
<1>24. CASE RaiseFlag
  BY <1>24 DEF RaiseFlag
<1>25. CASE ReadProc
  BY <1>25 DEF ReadProc
<1>26. CASE KillProc
  BY <1>26 DEF KillProc
<1>27. CASE SetCancelled
  BY <1>27 DEF SetCancelled
<1>28. CASE FinishCancelled
  BY <1>28 DEF FinishCancelled
<1>29. CASE NotifyCancelled
  BY <1>29 DEF NotifyCancelled
<1>30. CASE SubmitRequest
  BY <1>30 DEF SubmitRequest, AnswerInput, ResumeInput
<1>31. CASE FindWaiting
  BY <1>31 DEF FindWaiting
<1>32. CASE ReleaseGate
  BY <1>32 DEF ReleaseGate
<1>33. CASE ConfirmConditions
  BY <1>33 DEF ConfirmConditions
<1>34. CASE AskCredentials
  BY <1>34 DEF AskCredentials
<1>35. CASE WakeGate
  BY <1>35 DEF WakeGate
<1>36. CASE UNCHANGED vars
  BY <1>36 DEF vars
<1> QED
  BY <1>1, <1>2, <1>3, <1>4, <1>5, <1>6, <1>7, <1>8, <1>9, <1>10, <1>11, <1>12, <1>13, <1>14,
     <1>15, <1>16, <1>17, <1>18, <1>19, <1>20, <1>21, <1>22, <1>23, <1>24, <1>25, <1>26, <1>27, <1>28,
     <1>29, <1>30, <1>31, <1>32, <1>33, <1>34, <1>35, <1>36
     DEF Next, RunJob, CancelRequest, ReleaseRequest

\* Every step keeps the request handlers in their ranges and within the bounds.
LEMMA RequestsStep ==
  TypeOK /\ [Next]_vars => RequestsOK'
<1> SUFFICES ASSUME TypeOK, [Next]_vars PROVE RequestsOK'
  OBVIOUS
<1> USE GatesAssumption
  DEF outcome, process, gating, worker, cancelling, releasing, requests, Goto, SetStatus,
  TypeOK, RequestsOK, JobOK, Children
<1>1. CASE StartDiscovery \/ AskLogin \/ StartCrawl \/ BeginQA \/ BeginScripts \/ BeginTests \/ ShowGate
  BY <1>1 DEF StartDiscovery, AskLogin, StartCrawl, BeginQA, BeginScripts, BeginTests, ShowGate, Begin
<1>2. CASE SpawnDiscovery
  BY <1>2 DEF SpawnDiscovery, Spawn
<1>3. CASE SpawnLogin
  BY <1>3 DEF SpawnLogin, Spawn, FailTo
<1>4. CASE SpawnCrawl
  BY <1>4 DEF SpawnCrawl, Spawn, FailTo
<1>5. CASE SpawnTests
  BY <1>5 DEF SpawnTests, Spawn, FailTo
<1>6. CASE RegisterDiscovery \/ RegisterLogin \/ RegisterCrawl \/ RegisterTests
  BY <1>6 DEF RegisterDiscovery, RegisterLogin, RegisterCrawl, RegisterTests, Register
<1>7. CASE CheckDiscovery \/ CheckLogin \/ CheckTestsChild
  BY <1>7 DEF CheckDiscovery, CheckLogin, CheckTestsChild, RegisterCheck
<1>8. CASE CollectDiscovery \/ CollectLogin \/ CollectTests
  BY <1>8 DEF CollectDiscovery, CollectLogin, CollectTests, Collect, FailTo
<1>9. CASE AbandonCrawl \/ LoseCrawl \/ CollectCrawl
  BY <1>9 DEF AbandonCrawl, LoseCrawl, CollectCrawl, FailTo
<1>10. CASE AfterDiscovery \/ AfterCrawl \/ AfterQA \/ AfterScripts
  BY <1>10 DEF AfterDiscovery, AfterCrawl, AfterQA, AfterScripts, BetweenPhases
<1>11. CASE AwaitInput \/ CheckQA \/ CheckScripts \/ CheckTests
  BY <1>11 DEF AwaitInput, CheckQA, CheckScripts, CheckTests, Unless
<1>12. CASE CheckInput \/ UseInput \/ AfterLogin
  BY <1>12 DEF CheckInput, UseInput, AfterLogin
<1>13. CASE FinishDiscovery \/ GenerateQA \/ GenerateScripts \/ JudgeTests
  BY <1>13 DEF FinishDiscovery, GenerateQA, GenerateScripts, Generate, JudgeTests, FailTo
<1>14. CASE EnterGate
  BY <1>14 DEF EnterGate
<1>15. CASE ClearGate
  BY <1>15 DEF ClearGate
<1>16. CASE OpenGate
  BY <1>16 DEF OpenGate
<1>17. CASE TimeOutGate
  BY <1>17 DEF TimeOutGate
<1>18. CASE LeaveGate
  BY <1>18 DEF LeaveGate
<1>19. CASE Complete \/ MarkFailed
  BY <1>19 DEF Complete, MarkFailed, End
<1>20. CASE FinishRun
  BY <1>20 DEF FinishRun, Return
<1>21. CASE CheckFailed
  BY <1>21 DEF CheckFailed, Return
<1>22. CASE Notify
  BY <1>22 DEF Notify, Return
<1>23. CASE \E k \in Children : ChildExits(k)
  BY <1>23 DEF ChildExits
<1>24. CASE RaiseFlag
  BY <1>24 DEF RaiseFlag
<1>25. CASE ReadProc
  BY <1>25 DEF ReadProc
<1>26. CASE KillProc
  BY <1>26 DEF KillProc
<1>27. CASE SetCancelled
  BY <1>27 DEF SetCancelled
<1>28. CASE FinishCancelled
  BY <1>28 DEF FinishCancelled
<1>29. CASE NotifyCancelled
  BY <1>29 DEF NotifyCancelled
<1>30. CASE SubmitRequest
  BY <1>30 DEF SubmitRequest, AnswerInput, ResumeInput
<1>31. CASE FindWaiting
  BY <1>31 DEF FindWaiting
<1>32. CASE ReleaseGate
  BY <1>32 DEF ReleaseGate
<1>33. CASE ConfirmConditions
  BY <1>33 DEF ConfirmConditions
<1>34. CASE AskCredentials
  BY <1>34 DEF AskCredentials
<1>35. CASE WakeGate
  BY <1>35 DEF WakeGate
<1>36. CASE UNCHANGED vars
  BY <1>36 DEF vars
<1> QED
  BY <1>1, <1>2, <1>3, <1>4, <1>5, <1>6, <1>7, <1>8, <1>9, <1>10, <1>11, <1>12, <1>13, <1>14,
     <1>15, <1>16, <1>17, <1>18, <1>19, <1>20, <1>21, <1>22, <1>23, <1>24, <1>25, <1>26, <1>27, <1>28,
     <1>29, <1>30, <1>31, <1>32, <1>33, <1>34, <1>35, <1>36
     DEF Next, RunJob, CancelRequest, ReleaseRequest

\* Every step keeps running children attended to, cancelled or not.
LEMMA ChildStep ==
  TypeOK /\ ChildInv /\ NoOrphanProcess /\ [Next]_vars => (ChildInv /\ NoOrphanProcess)'
<1> SUFFICES ASSUME TypeOK, ChildInv, NoOrphanProcess, [Next]_vars PROVE (ChildInv /\ NoOrphanProcess)'
  OBVIOUS
<1> USE GatesAssumption
  DEF outcome, process, gating, worker, cancelling, releasing, requests, Goto, SetStatus,
  TypeOK, JobOK, ChildInv, NoOrphanProcess, Registered, Children, RegisterAt, CheckAt, WaitAt
<1>1. CASE StartDiscovery \/ AskLogin \/ StartCrawl \/ BeginQA \/ BeginScripts \/ BeginTests \/ ShowGate
  BY <1>1 DEF StartDiscovery, AskLogin, StartCrawl, BeginQA, BeginScripts, BeginTests, ShowGate, Begin
<1>2. CASE SpawnDiscovery
  BY <1>2 DEF SpawnDiscovery, Spawn
<1>3. CASE SpawnLogin
  BY <1>3 DEF SpawnLogin, Spawn, FailTo
<1>4. CASE SpawnCrawl
  BY <1>4 DEF SpawnCrawl, Spawn, FailTo
<1>5. CASE SpawnTests
  BY <1>5 DEF SpawnTests, Spawn, FailTo
<1>6. CASE RegisterDiscovery \/ RegisterLogin \/ RegisterCrawl \/ RegisterTests
  BY <1>6 DEF RegisterDiscovery, RegisterLogin, RegisterCrawl, RegisterTests, Register
<1>7. CASE CheckDiscovery \/ CheckLogin \/ CheckTestsChild
  BY <1>7 DEF CheckDiscovery, CheckLogin, CheckTestsChild, RegisterCheck
<1>8. CASE CollectDiscovery \/ CollectLogin \/ CollectTests
  BY <1>8 DEF CollectDiscovery, CollectLogin, CollectTests, Collect, FailTo
<1>9. CASE AbandonCrawl \/ LoseCrawl \/ CollectCrawl
  BY <1>9 DEF AbandonCrawl, LoseCrawl, CollectCrawl, FailTo
<1>10. CASE AfterDiscovery \/ AfterCrawl \/ AfterQA \/ AfterScripts
  BY <1>10 DEF AfterDiscovery, AfterCrawl, AfterQA, AfterScripts, BetweenPhases
<1>11. CASE AwaitInput \/ CheckQA \/ CheckScripts \/ CheckTests
  BY <1>11 DEF AwaitInput, CheckQA, CheckScripts, CheckTests, Unless
<1>12. CASE CheckInput \/ UseInput \/ AfterLogin
  BY <1>12 DEF CheckInput, UseInput, AfterLogin
<1>13. CASE FinishDiscovery \/ GenerateQA \/ GenerateScripts \/ JudgeTests
  BY <1>13 DEF FinishDiscovery, GenerateQA, GenerateScripts, Generate, JudgeTests, FailTo
<1>14. CASE EnterGate
  BY <1>14 DEF EnterGate
<1>15. CASE ClearGate
  BY <1>15 DEF ClearGate
<1>16. CASE OpenGate
  BY <1>16 DEF OpenGate
<1>17. CASE TimeOutGate
  BY <1>17 DEF TimeOutGate
<1>18. CASE LeaveGate
  BY <1>18 DEF LeaveGate
<1>19. CASE Complete \/ MarkFailed
  BY <1>19 DEF Complete, MarkFailed, End
<1>20. CASE FinishRun
  BY <1>20 DEF WorkerOK, FinishRun, Return
<1>21. CASE CheckFailed
  BY <1>21 DEF WorkerOK, CheckFailed, Return
<1>22. CASE Notify
  BY <1>22 DEF WorkerOK, Notify, Return
<1>23. CASE \E k \in Children : ChildExits(k)
  BY <1>23 DEF ChildExits
<1>24. CASE RaiseFlag
  BY <1>24 DEF RaiseFlag
<1>25. CASE ReadProc
  BY <1>25 DEF ReadProc
<1>26. CASE KillProc
  BY <1>26 DEF KillProc
<1>27. CASE SetCancelled
  BY <1>27 DEF SetCancelled
<1>28. CASE FinishCancelled
  BY <1>28 DEF FinishCancelled
<1>29. CASE NotifyCancelled
  BY <1>29 DEF NotifyCancelled
<1>30. CASE SubmitRequest
  BY <1>30 DEF SubmitRequest, AnswerInput, ResumeInput
<1>31. CASE FindWaiting
  BY <1>31 DEF FindWaiting
<1>32. CASE ReleaseGate
  BY <1>32 DEF ReleaseGate
<1>33. CASE ConfirmConditions
  BY <1>33 DEF ConfirmConditions
<1>34. CASE AskCredentials
  BY <1>34 DEF AskCredentials
<1>35. CASE WakeGate
  BY <1>35 DEF WakeGate
<1>36. CASE UNCHANGED vars
  BY <1>36 DEF vars
<1> QED
  BY <1>1, <1>2, <1>3, <1>4, <1>5, <1>6, <1>7, <1>8, <1>9, <1>10, <1>11, <1>12, <1>13, <1>14,
     <1>15, <1>16, <1>17, <1>18, <1>19, <1>20, <1>21, <1>22, <1>23, <1>24, <1>25, <1>26, <1>27, <1>28,
     <1>29, <1>30, <1>31, <1>32, <1>33, <1>34, <1>35, <1>36
     DEF Next, RunJob, CancelRequest, ReleaseRequest

\* Only an opened gate, a cancel and a confirmation are more than quiet.
LEMMA QuietStep ==
  TypeOK /\ GateInv /\ [Next]_vars => (Quiet \/ OpenGate \/ KillProc \/ WakeGate)
<1> SUFFICES ASSUME TypeOK, GateInv, [Next]_vars PROVE (Quiet \/ OpenGate \/ KillProc \/ WakeGate)
  OBVIOUS
<1> USE GatesAssumption
  DEF outcome, process, gating, worker, cancelling, releasing, requests, Goto, SetStatus,
  TypeOK, WorkerOK, RequestsOK, JobOK, GateInv, Quiet, Passed, Credit, Gates, LastGate, TestLabels
<1>1. CASE StartDiscovery \/ AskLogin \/ StartCrawl \/ BeginQA \/ BeginScripts \/ BeginTests \/ ShowGate
  BY <1>1 DEF StartDiscovery, AskLogin, StartCrawl, BeginQA, BeginScripts, BeginTests, ShowGate, Begin
<1>2. CASE SpawnDiscovery
  BY <1>2 DEF SpawnDiscovery, Spawn
<1>3. CASE SpawnLogin
  BY <1>3 DEF SpawnLogin, Spawn, FailTo
<1>4. CASE SpawnCrawl
  BY <1>4 DEF SpawnCrawl, Spawn, FailTo
<1>5. CASE SpawnTests
  BY <1>5 DEF SpawnTests, Spawn, FailTo
<1>6. CASE RegisterDiscovery \/ RegisterLogin \/ RegisterCrawl \/ RegisterTests
  BY <1>6 DEF RegisterDiscovery, RegisterLogin, RegisterCrawl, RegisterTests, Register
<1>7. CASE CheckDiscovery \/ CheckLogin \/ CheckTestsChild
  BY <1>7 DEF CheckDiscovery, CheckLogin, CheckTestsChild, RegisterCheck
<1>8. CASE CollectDiscovery \/ CollectLogin \/ CollectTests
  BY <1>8 DEF CollectDiscovery, CollectLogin, CollectTests, Collect, FailTo
<1>9. CASE AbandonCrawl \/ LoseCrawl \/ CollectCrawl
  BY <1>9 DEF AbandonCrawl, LoseCrawl, CollectCrawl, FailTo
<1>10. CASE AfterDiscovery \/ AfterCrawl \/ AfterQA \/ AfterScripts
  BY <1>10 DEF AfterDiscovery, AfterCrawl, AfterQA, AfterScripts, BetweenPhases
<1>11. CASE AwaitInput \/ CheckQA \/ CheckScripts \/ CheckTests
  BY <1>11 DEF AwaitInput, CheckQA, CheckScripts, CheckTests, Unless
<1>12. CASE CheckInput \/ UseInput \/ AfterLogin
  BY <1>12 DEF CheckInput, UseInput, AfterLogin
<1>13. CASE FinishDiscovery \/ GenerateQA \/ GenerateScripts \/ JudgeTests
  BY <1>13 DEF FinishDiscovery, GenerateQA, GenerateScripts, Generate, JudgeTests, FailTo
<1>14. CASE EnterGate
  <2>1. CASE requireApproval /\ allReleased
    BY <1>14, <2>1 DEF EnterGate
  <2>2. CASE requireApproval /\ ~allReleased
    BY <1>14, <2>2 DEF EnterGate
  <2>3. CASE ~requireApproval
    <3>1. pc' = "gate_done" /\ gate' = gate /\ unverified' = unverified \cup {gate} /\ pc = "gate_enter"
      BY <1>14, <2>3 DEF EnterGate
    <3>2. Passed' \ unverified' \subseteq Passed \ unverified
      BY <3>1
    <3>3. Credit' = Credit /\ releases' = releases
      BY <1>14, <3>1 DEF EnterGate
    <3> QED
      BY <1>14, <2>3, <3>2, <3>3 DEF EnterGate
  <2> QED
    BY <2>1, <2>2, <2>3
<1>15. CASE ClearGate
  BY <1>15 DEF ClearGate
<1>16. CASE OpenGate
  BY <1>16
<1>17. CASE TimeOutGate
  <2>1. CASE cancelled
    BY <1>17, <2>1 DEF TimeOutGate
  <2>2. CASE ~cancelled
    <3>1. pc' = "gate_done" /\ gate' = gate /\ unverified' = unverified \cup {gate} /\ pc = "gate_wait"
      BY <1>17, <2>2 DEF TimeOutGate
    <3>2. Passed' \ unverified' \subseteq Passed \ unverified
      BY <3>1
    <3>3. Credit' <= Credit /\ releases' = releases
      BY <1>17, <3>1 DEF TimeOutGate
    <3> QED
      BY <1>17, <2>2, <3>2, <3>3 DEF TimeOutGate
  <2> QED
    BY <2>1, <2>2
<1>18. CASE LeaveGate
  BY <1>18 DEF LeaveGate
<1>19. CASE Complete \/ MarkFailed
  BY <1>19 DEF Complete, MarkFailed, End
<1>20. CASE FinishRun
  <2>1. /\ pc' \in {"notify", "discovered", "crawled", "qa_done", "scripts_done", "end"}
        /\ pc \in {"complete_finish", "fail_finish"}
        /\ UNCHANGED <<gate, unverified, stagesEvent, allReleased, cancelled, canceller, releaser, releases>>
    BY <1>20 DEF FinishRun, Return
  <2> QED
    BY <2>1
<1>21. CASE CheckFailed
  BY <1>21 DEF CheckFailed, Return
<1>22. CASE Notify
  BY <1>22 DEF Notify, Return
<1>23. CASE \E k \in Children : ChildExits(k)
  BY <1>23 DEF ChildExits
<1>24. CASE RaiseFlag
  BY <1>24 DEF RaiseFlag
<1>25. CASE ReadProc
  BY <1>25 DEF ReadProc
<1>26. CASE KillProc
  BY <1>26
<1>27. CASE SetCancelled
  BY <1>27 DEF SetCancelled
<1>28. CASE FinishCancelled
  BY <1>28 DEF FinishCancelled
<1>29. CASE NotifyCancelled
  BY <1>29 DEF NotifyCancelled
<1>30. CASE SubmitRequest
  BY <1>30 DEF SubmitRequest, AnswerInput, ResumeInput
<1>31. CASE FindWaiting
  BY <1>31 DEF FindWaiting
<1>32. CASE ReleaseGate
  BY <1>32 DEF ReleaseGate
<1>33. CASE ConfirmConditions
  BY <1>33 DEF ConfirmConditions
<1>34. CASE AskCredentials
  BY <1>34 DEF AskCredentials
<1>35. CASE WakeGate
  BY <1>35
<1>36. CASE UNCHANGED vars
  BY <1>36 DEF vars
<1> QED
  BY <1>1, <1>2, <1>3, <1>4, <1>5, <1>6, <1>7, <1>8, <1>9, <1>10, <1>11, <1>12, <1>13, <1>14,
     <1>15, <1>16, <1>17, <1>18, <1>19, <1>20, <1>21, <1>22, <1>23, <1>24, <1>25, <1>26, <1>27, <1>28,
     <1>29, <1>30, <1>31, <1>32, <1>33, <1>34, <1>35, <1>36
     DEF Next, RunJob, CancelRequest, ReleaseRequest

\* Sets of gates are finite.
LEMMA FiniteGates ==
  ASSUME NEW S \in SUBSET Gates
  PROVE  IsFiniteSet(S) /\ Cardinality(S) \in Nat
<1>1. IsFiniteSet(Gates)
  BY GatesAssumption, FS_Interval DEF Gates
<1> QED
  BY <1>1, FS_Subset, FS_CardinalityType

\* What a quiet step does to the sum of gates and credit.
LEMMA Arithmetic ==
  ASSUME NEW a \in Nat, NEW b \in Nat, NEW c \in Nat, NEW d \in Nat, NEW e \in Nat, NEW f \in Nat,
         a <= b, c + e <= d + f, b + d <= e
  PROVE  a + c <= f
OBVIOUS

\* Every step keeps each passed gate paid for.
LEMMA GateStep ==
  TypeOK /\ GateInv /\ [Next]_vars => GateInv'
<1> SUFFICES ASSUME TypeOK, GateInv, [Next]_vars PROVE GateInv'
  OBVIOUS
<1> DEFINE S == Passed \ unverified
           T == Passed' \ unverified'
<1>1. IsFiniteSet(S) /\ Cardinality(S) \in Nat /\ IsFiniteSet(T) /\ Cardinality(T) \in Nat
  <2>1. S \in SUBSET Gates /\ T \in SUBSET Gates
    BY DEF Passed, Gates
  <2> QED
    BY <2>1, FiniteGates
<1>2. Credit \in {0, 1} /\ Credit' \in {0, 1}
  BY DEF Credit
<1>3. releases \in Nat /\ releases' \in Nat
  <2>1. RequestsOK'
    BY RequestsStep
  <2> QED
    BY <2>1, GatesAssumption DEF TypeOK, RequestsOK
<1>4. CASE Quiet
  <2>1. CASE allReleased \/ (cancelled /\ pc \notin TestLabels)
    BY <1>4, <2>1 DEF Quiet, GateInv
  <2>2. CASE Cardinality(S) + Credit <= releases
    <3>1. CASE T \subseteq S /\ Credit' + releases <= Credit + releases'
      <4>1. Cardinality(T) <= Cardinality(S)
        BY <1>1, <3>1, FS_Subset
      <4>2. Cardinality(T) + Credit' <= releases'
        <5>1. Credit \in Nat /\ Credit' \in Nat
          BY <1>2
        <5>2. Cardinality(T) \in Nat /\ Cardinality(S) \in Nat
          BY <1>1
        <5>3. Credit' + releases <= Credit + releases'
          BY <3>1
        <5> QED
          BY <1>3, <2>2, <4>1, <5>1, <5>2, <5>3, Arithmetic
      <4> QED
        BY <1>4, <4>2 DEF Quiet, GateInv
    <3>2. CASE ~(T \subseteq S /\ Credit' + releases <= Credit + releases')
      BY <1>4, <3>2 DEF Quiet, GateInv
    <3> QED
      BY <3>1, <3>2
  <2> QED
    BY <2>1, <2>2 DEF GateInv
<1>5. CASE OpenGate
  <2>1. pc = "gate_wait" /\ stagesEvent /\ pc' = "gate_done"
    BY <1>5 DEF OpenGate, Goto
  <2>2. UNCHANGED <<gate, unverified, allReleased, cancelled, canceller, releaser, releases>>
    BY <1>5 DEF OpenGate, Goto, gating, outcome, requests, cancelling, releasing
  <2>3. Credit = 1 /\ Credit' = 0
    BY <2>1 DEF Credit
  <2>4. T \subseteq S \cup {gate}
    BY <2>1, <2>2 DEF Passed
  <2>5. Cardinality(T) <= Cardinality(S) + 1
    <3>1. IsFiniteSet(S \cup {gate}) /\ Cardinality(S \cup {gate}) \in {Cardinality(S), Cardinality(S) + 1}
      BY <1>1, FS_AddElement
    <3>2. Cardinality(T) <= Cardinality(S \cup {gate})
      BY <2>4, <3>1, FS_Subset
    <3> QED
      BY <1>1, <3>1, <3>2
  <2>6. Cardinality(S) + Credit <= releases => Cardinality(T) + Credit' <= releases'
    BY <1>1, <1>3, <2>2, <2>3, <2>5
  <2> QED
    BY <2>1, <2>2, <2>6 DEF GateInv, TestLabels
<1>6. CASE KillProc
  <2>1. canceller = "kill" /\ canceller' = "status"
    BY <1>6 DEF KillProc
  <2>2. UNCHANGED <<pc, gate, unverified, allReleased, cancelled, releaser, releases>>
    BY <1>6 DEF KillProc, worker, outcome, releasing
  <2>3. cancelled
    BY <2>1 DEF GateInv
  <2>4. CASE pc \in TestLabels
    <3>1. T = S
      BY <2>2 DEF Passed
    <3>2. Credit' = Credit
      BY <2>2, <2>4 DEF Credit, TestLabels
    <3> QED
      BY <2>1, <2>2, <2>3, <2>4, <3>1, <3>2 DEF GateInv
  <2>5. CASE pc \notin TestLabels
    BY <2>1, <2>2, <2>3, <2>5 DEF GateInv
  <2> QED
    BY <2>4, <2>5
<1>7. CASE WakeGate
  BY <1>7 DEF WakeGate, GateInv, worker, outcome, cancelling
<1> QED
  BY <1>4, <1>5, <1>6, <1>7, QuietStep

\* The inductive invariant.
IInv == TypeOK /\ ChildInv /\ NoOrphanProcess /\ GateInv

\* A run starts with nothing running and no gate passed.
LEMMA InitIInv == Init => IInv
<1> SUFFICES ASSUME Init PROVE IInv
  OBVIOUS
<1> USE GatesAssumption DEF Init
<1>1. WorkerOK
  BY DEF WorkerOK, WorkerLabels, Gates
<1>2. RequestsOK
  BY DEF RequestsOK
<1>3. JobOK
  BY DEF JobOK, Statuses, Children
<1>4. ChildInv /\ NoOrphanProcess
  BY DEF ChildInv, NoOrphanProcess, Registered, Children, RegisterAt, CheckAt, WaitAt
<1>5. Passed \ unverified = {}
  BY DEF Passed, Gates, TestLabels
<1>6. GateInv
  BY <1>5, FS_EmptySet DEF GateInv, Credit, TestLabels
<1> QED
  BY <1>1, <1>2, <1>3, <1>4, <1>6 DEF IInv, TypeOK

\* Every step keeps the inductive invariant.
LEMMA NextIInv == IInv /\ [Next]_vars => IInv'
BY JobStep, WorkerStep, RequestsStep, ChildStep, GateStep DEF IInv, TypeOK

\* At the tests all gates are passed and no credit is left.
LEMMA GatesFollow == IInv => GatesAccountedFor
<1> SUFFICES ASSUME IInv, pc \in TestLabels, ~allReleased
             PROVE  Cardinality(Gates \ unverified) <= releases
  BY DEF GatesAccountedFor
<1>1. gate = LastGate
  BY DEF IInv, GateInv
<1>2. Passed = Gates
  BY <1>1, GatesAssumption DEF Passed, Gates, LastGate
<1>3. Credit = 0
  BY DEF Credit, TestLabels
<1>4. Cardinality(Gates \ unverified) + 0 <= releases
  BY <1>2, <1>3 DEF IInv, GateInv
<1>5. Cardinality(Gates \ unverified) \in Nat
  BY FiniteGates
<1> QED
  BY <1>4, <1>5

\* The invariant holds in every reachable state.
THEOREM InductiveInvariant == Spec => []IInv
<1>1. Init => IInv
  BY InitIInv
<1>2. IInv /\ [Next]_vars => IInv'
  BY NextIInv
<1> QED
  BY <1>1, <1>2, PTL DEF Spec

\* Every field of the job and every position of the worker and of the request
\* handlers stays in its range.
THEOREM TypeCorrect == Spec => []TypeOK
<1>1. IInv => TypeOK
  BY DEF IInv
<1> QED
  BY <1>1, InductiveInvariant, PTL

\* A cancelled run leaves no registered child process behind, whichever way
\* register_proc and cancel interleave.
THEOREM CancelReachesChildren == Spec => []NoOrphanProcess
<1>1. IInv => NoOrphanProcess
  BY DEF IInv
<1> QED
  BY <1>1, InductiveInvariant, PTL

\* For any number of stages and requests, tests start behind gates that were
\* each released, recorded as unseen, or confirmed together.
THEOREM GatesAreAccountedFor == Spec => []GatesAccountedFor
<1>1. IInv => GatesAccountedFor
  BY GatesFollow
<1> QED
  BY <1>1, InductiveInvariant, PTL

-----------------------------------------------------------------------------
(* A run that has ended, and is neither cancelled nor overlapped by a      *)
(* handler that looked at its status, has a worker that writes no status:  *)
(* it only notifies, sets the time, or is about to find the end.           *)

FailingAt == {"fail", "fail_status", "fail_status_notify", "fail_finish", "notify"}
FailedAt == {"fail_status_notify", "fail_finish", "notify", "discovered", "crawled", "qa_done",
             "scripts_done", "end"}
CompleteAt == {"complete_notify", "complete_finish", "notify", "end"}

EndInv ==
  /\ pc \notin FailingAt => back = "end"
  /\ ~cancelled /\ status \in Terminal =>
       \/ status = "failed" /\ pc \in FailedAt
       \/ status = "complete" /\ pc \in CompleteAt /\ back = "end"

EndStays ==
  status \in Terminal /\ status' # status =>
    cancelled \/ submitter = "status" \/ releaser = "credentials"

\* Every step keeps that, and undoes an end only as TerminalUnlessOverlapped says.
LEMMA EndStep ==
  TypeOK /\ ChildInv /\ EndInv /\ [Next]_vars => EndInv' /\ EndStays
<1> SUFFICES ASSUME TypeOK, ChildInv, EndInv, [Next]_vars PROVE EndInv' /\ EndStays
  OBVIOUS
<1>0. canceller # "idle" => cancelled
  BY DEF ChildInv
<1> USE <1>0 DEF outcome, process, gating, worker, cancelling, releasing, requests, Goto, SetStatus,
  TypeOK, WorkerOK, EndInv, EndStays, Terminal, FailingAt, FailedAt, CompleteAt
<1>1. CASE StartDiscovery \/ AskLogin \/ StartCrawl \/ BeginQA \/ BeginScripts \/ BeginTests \/ ShowGate
  BY <1>1 DEF StartDiscovery, AskLogin, StartCrawl, BeginQA, BeginScripts, BeginTests, ShowGate, Begin
<1>2. CASE SpawnDiscovery
  BY <1>2 DEF SpawnDiscovery, Spawn
<1>3. CASE SpawnLogin
  BY <1>3 DEF SpawnLogin, Spawn, FailTo
<1>4. CASE SpawnCrawl
  BY <1>4 DEF SpawnCrawl, Spawn, FailTo
<1>5. CASE SpawnTests
  BY <1>5 DEF SpawnTests, Spawn, FailTo
<1>6. CASE RegisterDiscovery \/ RegisterLogin \/ RegisterCrawl \/ RegisterTests
  BY <1>6 DEF RegisterDiscovery, RegisterLogin, RegisterCrawl, RegisterTests, Register
<1>7. CASE CheckDiscovery \/ CheckLogin \/ CheckTestsChild
  BY <1>7 DEF CheckDiscovery, CheckLogin, CheckTestsChild, RegisterCheck
<1>8. CASE CollectDiscovery \/ CollectLogin \/ CollectTests
  BY <1>8 DEF CollectDiscovery, CollectLogin, CollectTests, Collect, FailTo
<1>9. CASE AbandonCrawl \/ LoseCrawl \/ CollectCrawl
  BY <1>9 DEF AbandonCrawl, LoseCrawl, CollectCrawl, FailTo
<1>10. CASE AfterDiscovery \/ AfterCrawl \/ AfterQA \/ AfterScripts
  BY <1>10 DEF AfterDiscovery, AfterCrawl, AfterQA, AfterScripts, BetweenPhases
<1>11. CASE AwaitInput \/ CheckQA \/ CheckScripts \/ CheckTests
  BY <1>11 DEF AwaitInput, CheckQA, CheckScripts, CheckTests, Unless
<1>12. CASE CheckInput \/ UseInput \/ AfterLogin
  BY <1>12 DEF CheckInput, UseInput, AfterLogin
<1>13. CASE FinishDiscovery \/ GenerateQA \/ GenerateScripts \/ JudgeTests
  BY <1>13 DEF FinishDiscovery, GenerateQA, GenerateScripts, Generate, JudgeTests, FailTo
<1>14. CASE EnterGate
  BY <1>14 DEF EnterGate
<1>15. CASE ClearGate
  BY <1>15 DEF ClearGate
<1>16. CASE OpenGate
  BY <1>16 DEF OpenGate
<1>17. CASE TimeOutGate
  BY <1>17 DEF TimeOutGate
<1>18. CASE LeaveGate
  BY <1>18 DEF LeaveGate
<1>19. CASE Complete \/ MarkFailed
  BY <1>19 DEF Complete, MarkFailed, End
<1>20. CASE FinishRun
  BY <1>20 DEF FinishRun, Return
<1>21. CASE CheckFailed
  BY <1>21 DEF CheckFailed, Return
<1>22. CASE Notify
  BY <1>22 DEF Notify, Return
<1>23. CASE \E k \in Children : ChildExits(k)
  BY <1>23 DEF ChildExits
<1>24. CASE RaiseFlag
  BY <1>24 DEF RaiseFlag
<1>25. CASE ReadProc
  BY <1>25 DEF ReadProc
<1>26. CASE KillProc
  BY <1>26 DEF KillProc
<1>27. CASE SetCancelled
  BY <1>27 DEF SetCancelled
<1>28. CASE FinishCancelled
  BY <1>28 DEF FinishCancelled
<1>29. CASE NotifyCancelled
  BY <1>29 DEF NotifyCancelled
<1>30. CASE SubmitRequest
  BY <1>30 DEF SubmitRequest, AnswerInput, ResumeInput
<1>31. CASE FindWaiting
  BY <1>31 DEF FindWaiting
<1>32. CASE ReleaseGate
  BY <1>32 DEF ReleaseGate
<1>33. CASE ConfirmConditions
  BY <1>33 DEF ConfirmConditions
<1>34. CASE AskCredentials
  BY <1>34 DEF AskCredentials
<1>35. CASE WakeGate
  BY <1>35 DEF WakeGate
<1>36. CASE UNCHANGED vars
  BY <1>36 DEF vars
<1> QED
  BY <1>1, <1>2, <1>3, <1>4, <1>5, <1>6, <1>7, <1>8, <1>9, <1>10, <1>11, <1>12, <1>13, <1>14,
     <1>15, <1>16, <1>17, <1>18, <1>19, <1>20, <1>21, <1>22, <1>23, <1>24, <1>25, <1>26, <1>27, <1>28,
     <1>29, <1>30, <1>31, <1>32, <1>33, <1>34, <1>35, <1>36
     DEF Next, RunJob, CancelRequest, ReleaseRequest

\* For any number of stages and requests: whichever phase fails, and in whatever order the
\* requests come, the status of a run that has ended changes only through a cancel request or
\* through a handler that looked at it before.
THEOREM EndsAreFinal == Spec => TerminalUnlessOverlapped
<1>1. Init => EndInv
  BY DEF Init, EndInv, Terminal
<1>2. IInv /\ EndInv /\ [Next]_vars => EndInv'
  BY EndStep DEF IInv
<1>3. Spec => []EndInv
  BY <1>1, <1>2, InductiveInvariant, PTL DEF Spec
<1>4. IInv /\ EndInv /\ [Next]_vars =>
        [(status \in Terminal) => (cancelled \/ submitter = "status" \/ releaser = "credentials")]_status
  BY EndStep DEF IInv, EndStays
<1> QED
  BY <1>3, <1>4, InductiveInvariant, PTL DEF Spec, TerminalUnlessOverlapped

=============================================================================
