---------------------------- MODULE TenantsProofs ----------------------------
(***************************************************************************)
(* What the tenants of a server are promised, however many there are.      *)
(*                                                                         *)
(* BackendTests: the stages of a back-end test hang together, and a report *)
(* that is not marked covers the runs that ended, in the file and in every *)
(* copy of it, for all stages, jobs, tenants, clients and faults. Each     *)
(* function of stages.py keeps both of a job; copies are only made by      *)
(* them, so writing an old copy back loses work but never makes a file     *)
(* that lies. A tenant has one active run, and a run shown as active can   *)
(* be settled.                                                             *)
(*                                                                         *)
(* Accounts: the sessions and the administrators of every number of users  *)
(* and tenants.                                                            *)
(***************************************************************************)
EXTENDS BackendTests, Accounts, TLAPS

IsJob(job) ==
  /\ job = [status |-> job.status, stale |-> job.stale, runs |-> job.runs,
            last |-> job.last, judged |-> job.judged]
  /\ job.status \in [Stages -> Statuses]
  /\ job.stale \in [Stages -> BOOLEAN]

Sound(job) == IsJob(job) /\ Built(job) /\ Covered(job)

-----------------------------------------------------------------------------
(* The functions on a job *)

LEMMA StageNumbers ==
  /\ Design \in Nat /\ Design >= 2 /\ ReadStage \in Nat /\ ReadStage >= 1 /\ ReadStage < Design
  /\ Code \in Stages /\ Run \in Stages /\ Report \in Stages /\ ReadStage \in Stages
  /\ Run - 1 = Code /\ Report - 1 = Run /\ Run # ReadStage /\ Code # ReadStage /\ Report # ReadStage
  /\ Run # 1 /\ Report # 1 /\ Run # Report
  /\ \A n \in Stages : n \in Nat /\ n <= Report /\ (n # 1 => n - 1 \in Stages)
  /\ \A n \in 1..Design : n \in Stages /\ n # Report
BY StagesAssumption DEF Code, Run, Report, Stages

LEMMA OutdateIs ==
  ASSUME NEW job, IsJob(job), NEW n \in Stages
  PROVE  /\ IsJob(Outdate(job, n))
         /\ Outdate(job, n).status = job.status
         /\ Outdate(job, n).runs = job.runs /\ Outdate(job, n).judged = job.judged
<1> DEFINE marks == [k \in Stages |-> job.stale[k] \/ (k > n /\ job.status[k] # "draft")]
<1>1. Outdate(job, n) = [status |-> job.status, stale |-> marks, runs |-> job.runs,
                         last |-> job.last, judged |-> job.judged]
  BY DEF IsJob, Outdate
<1>2. marks \in [Stages -> BOOLEAN]
  BY DEF IsJob
<1> HIDE DEF marks
<1> QED BY <1>1, <1>2 DEF IsJob

LEMMA OutdateMarks ==
  ASSUME NEW job, IsJob(job), NEW n \in Stages
  PROVE  /\ \A k \in Stages : ~(k > n) => Outdate(job, n).stale[k] = job.stale[k]
         /\ \A k \in Stages : k > n /\ job.status[k] # "draft" => Outdate(job, n).stale[k] = TRUE
<1> DEFINE marks == [k \in Stages |-> job.stale[k] \/ (k > n /\ job.status[k] # "draft")]
<1>1. Outdate(job, n) = [status |-> job.status, stale |-> marks, runs |-> job.runs,
                         last |-> job.last, judged |-> job.judged]
  BY DEF IsJob, Outdate
<1>2. \A k \in Stages : ~(k > n) => marks[k] = job.stale[k]
  BY DEF IsJob
<1>3. \A k \in Stages : k > n /\ job.status[k] # "draft" => marks[k] = TRUE
  OBVIOUS
<1> HIDE DEF marks
<1> QED BY <1>1, <1>2, <1>3

LEMMA BecomeIs ==
  ASSUME NEW job, IsJob(job), NEW n \in Stages, NEW status \in Statuses
  PROVE  /\ IsJob(Become(job, n, status))
         /\ Become(job, n, status).stale = job.stale
         /\ Become(job, n, status).runs = job.runs /\ Become(job, n, status).judged = job.judged
         /\ Become(job, n, status).status[n] = status
         /\ \A k \in Stages \ {n} : Become(job, n, status).status[k] = job.status[k]
<1> DEFINE made == [job.status EXCEPT ![n] = status]
<1>1. Become(job, n, status) = [status |-> made, stale |-> job.stale, runs |-> job.runs,
                                last |-> job.last, judged |-> job.judged]
  BY DEF IsJob, Become
<1>2. made \in [Stages -> Statuses] /\ made[n] = status /\ \A k \in Stages \ {n} : made[k] = job.status[k]
  BY DEF IsJob
<1> HIDE DEF made
<1> QED BY <1>1, <1>2 DEF IsJob

LEMMA SetMark ==
  ASSUME NEW job, IsJob(job), NEW n \in Stages, NEW stale \in BOOLEAN
  PROVE  /\ IsJob(Mark(job, n, stale))
         /\ Mark(job, n, stale).status = job.status
         /\ Mark(job, n, stale).runs = job.runs /\ Mark(job, n, stale).judged = job.judged
         /\ Mark(job, n, stale).stale[n] = stale
         /\ \A k \in Stages \ {n} : Mark(job, n, stale).stale[k] = job.stale[k]
<1> DEFINE made == [job.stale EXCEPT ![n] = stale]
<1>1. Mark(job, n, stale) = [status |-> job.status, stale |-> made, runs |-> job.runs,
                             last |-> job.last, judged |-> job.judged]
  BY DEF IsJob, Mark
<1>2. made \in [Stages -> BOOLEAN] /\ made[n] = stale /\ \A k \in Stages \ {n} : made[k] = job.stale[k]
  BY DEF IsJob
<1> HIDE DEF made
<1> QED BY <1>1, <1>2 DEF IsJob

LEMMA MarkIs ==
  ASSUME NEW job, IsJob(job), NEW n \in Stages
  PROVE  /\ IsJob(Mark(job, n, TRUE))
         /\ Mark(job, n, TRUE).status = job.status
         /\ Mark(job, n, TRUE).runs = job.runs /\ Mark(job, n, TRUE).judged = job.judged
         /\ Mark(job, n, TRUE).stale[n] = TRUE
         /\ \A k \in Stages \ {n} : Mark(job, n, TRUE).stale[k] = job.stale[k]
BY SetMark, Zenon

LEMMA UnmarkIs ==
  ASSUME NEW job, IsJob(job), NEW n \in Stages
  PROVE  /\ IsJob(Mark(job, n, FALSE))
         /\ Mark(job, n, FALSE).status = job.status
         /\ Mark(job, n, FALSE).runs = job.runs /\ Mark(job, n, FALSE).judged = job.judged
         /\ Mark(job, n, FALSE).stale[n] = FALSE
         /\ \A k \in Stages \ {n} : Mark(job, n, FALSE).stale[k] = job.stale[k]
BY SetMark, Zenon

LEMMA ReplaceIs ==
  ASSUME NEW job, IsJob(job), NEW n \in Stages
  PROVE  /\ IsJob(Replace(job, n))
         /\ Replace(job, n).runs = job.runs /\ Replace(job, n).judged = job.judged
         /\ Replace(job, n).status[n] = "generated"
         /\ \A k \in Stages \ {n} : Replace(job, n).status[k] = job.status[k]
<1> DEFINE made == Become(job, n, "generated")
           new == Mark(made, n, FALSE)
<1>1. /\ IsJob(made) /\ made.runs = job.runs /\ made.judged = job.judged
      /\ made.status[n] = "generated"
      /\ \A k \in Stages \ {n} : made.status[k] = job.status[k]
  BY BecomeIs DEF Statuses
<1> HIDE DEF made
<1>2. IsJob(new) /\ new.status = made.status /\ new.runs = made.runs /\ new.judged = made.judged
  BY <1>1, UnmarkIs
<1>3. Replace(job, n) = Outdate(new, n)
  BY DEF Replace, made
<1> HIDE DEF new
<1>4. /\ IsJob(Outdate(new, n)) /\ Outdate(new, n).status = new.status
      /\ Outdate(new, n).runs = new.runs /\ Outdate(new, n).judged = new.judged
  BY <1>2, OutdateIs
<1> QED BY <1>1, <1>2, <1>3, <1>4

\* The stages before n keep their marks, those after it are marked.
LEMMA ReplaceMarks ==
  ASSUME NEW job, IsJob(job), NEW n \in Stages
  PROVE  /\ \A k \in Stages : k < n => Replace(job, n).stale[k] = job.stale[k]
         /\ \A k \in Stages : k > n /\ Replace(job, n).status[k] # "draft" => Replace(job, n).stale[k] = TRUE
<1> DEFINE made == Become(job, n, "generated")
           new == Mark(made, n, FALSE)
<1>1. IsJob(made) /\ made.stale = job.stale
  BY BecomeIs DEF Statuses
<1> HIDE DEF made
<1>2. IsJob(new) /\ \A k \in Stages \ {n} : new.stale[k] = made.stale[k]
  BY <1>1, UnmarkIs
<1>3. Replace(job, n) = Outdate(new, n)
  BY DEF Replace, made
<1> HIDE DEF new
<1>4. /\ Outdate(new, n).status = new.status
      /\ \A k \in Stages : ~(k > n) => Outdate(new, n).stale[k] = new.stale[k]
      /\ \A k \in Stages : k > n /\ new.status[k] # "draft" => Outdate(new, n).stale[k] = TRUE
  BY <1>2, OutdateMarks, OutdateIs
<1>5. \A k \in Stages : k \in Nat
  BY StageNumbers
<1>6. \A k \in Stages : k < n => Outdate(new, n).stale[k] = job.stale[k]
  BY <1>1, <1>2, <1>4, <1>5
<1> QED BY <1>3, <1>4, <1>6

LEMMA ReplaceBuilt ==
  ASSUME NEW job, IsJob(job), Built(job), NEW n \in Stages, CanGenerate(job, n)
  PROVE  Built(Replace(job, n))
<1> DEFINE new == Replace(job, n)
<1> HIDE DEF new
<1>1. /\ new.status[n] = "generated"
      /\ \A k \in Stages \ {n} : new.status[k] = job.status[k]
      /\ \A k \in Stages : k < n => new.stale[k] = job.stale[k]
      /\ \A k \in Stages : k > n /\ new.status[k] # "draft" => new.stale[k] = TRUE
  <2>1. new = Replace(job, n)
    BY DEF new
  <2>2. new.status[n] = "generated" /\ \A k \in Stages \ {n} : new.status[k] = job.status[k]
    BY <2>1, ReplaceIs
  <2>3. /\ \A k \in Stages : k < n => new.stale[k] = job.stale[k]
        /\ \A k \in Stages : k > n /\ new.status[k] # "draft" => new.stale[k] = TRUE
    BY <2>1, ReplaceMarks
  <2> QED BY <2>2, <2>3
<1>2. ASSUME NEW k \in Stages \ {1}, new.status[k] # "draft", ~new.stale[k]
      PROVE  new.status[k - 1] = "approved" /\ (new.stale[k - 1] => k - 1 = ReadStage)
  <2>1. k \in Nat /\ n \in Nat /\ k - 1 \in Stages /\ k - 1 # k /\ (k <= n => k - 1 < n /\ k - 1 # n)
    BY StageNumbers
  <2>2. ~(k > n)
    BY <1>1, <1>2
  <2>3. job.status[k - 1] = "approved" /\ (job.stale[k - 1] => k - 1 = ReadStage)
    <3>1. CASE k = n
      BY <3>1 DEF CanGenerate
    <3>2. CASE k < n
      <4>1. job.status[k] # "draft" /\ ~job.stale[k]
        BY <1>1, <1>2, <3>2, <2>1
      <4> QED BY <4>1 DEF Built
    <3> QED BY <2>1, <2>2, <3>1, <3>2
  <2>4. new.status[k - 1] = job.status[k - 1] /\ new.stale[k - 1] = job.stale[k - 1]
    BY <1>1, <2>1, <2>2
  <2> QED BY <2>3, <2>4
<1> QED BY <1>2 DEF Built, new

LEMMA ReplaceSound ==
  ASSUME NEW job, IsJob(job), Built(job), NEW n \in Stages, n # Report, CanGenerate(job, n)
  PROVE  Sound(Replace(job, n))
<1>1. n \in Nat /\ Report \in Stages /\ n < Report
  BY StageNumbers
<1>2. Covered(Replace(job, n))
  BY <1>1, ReplaceIs, ReplaceMarks DEF Covered
<1> QED BY <1>2, ReplaceIs, ReplaceBuilt DEF Sound

LEMMA GenerateSound ==
  ASSUME NEW job, Sound(job), NEW n \in 1..Design, CanGenerate(job, n), NEW new \in Generate(job, n)
  PROVE  Sound(new)
<1>1. n \in Stages /\ n # Report /\ Report \in Stages
  BY StageNumbers
<1>2. CASE job.status[n] # "approved"
  BY <1>1, <1>2, ReplaceSound DEF Generate, Sound
<1>3. CASE job.status[n] = "approved"
  <2>1. CASE new = job
    BY <2>1
  <2>2. CASE new = Mark(job, n, FALSE)
    <3>1. /\ IsJob(new) /\ new.status = job.status /\ new.runs = job.runs /\ new.judged = job.judged
          /\ \A k \in Stages \ {n} : new.stale[k] = job.stale[k]
          /\ new.stale[n] = FALSE
      BY <1>1, <2>2, UnmarkIs DEF Sound
    <3>2. Built(new)
      BY <3>1, <1>1, StageNumbers DEF Sound, Built, CanGenerate
    <3>3. Covered(new)
      BY <3>1, <1>1 DEF Sound, Covered, Listed
    <3> QED BY <3>1, <3>2, <3>3 DEF Sound
  <2> QED BY <1>3, <2>1, <2>2 DEF Generate
<1> QED BY <1>2, <1>3

LEMMA ApproveSound ==
  ASSUME NEW job, Sound(job), NEW n \in Stages, CanApprove(job, n)
  PROVE  Sound(Approve(job, n))
<1> DEFINE new == Approve(job, n)
<1>1. /\ IsJob(new) /\ new.stale = job.stale /\ new.runs = job.runs /\ new.judged = job.judged
      /\ new.status[n] = "approved"
      /\ \A k \in Stages \ {n} : new.status[k] = job.status[k]
  BY BecomeIs DEF Approve, Sound, Statuses
<1>2. job.status[n] = "generated" /\ ~job.stale[n]
  BY DEF CanApprove
<1> HIDE DEF new
<1>3. Built(new)
  BY <1>1, <1>2, StageNumbers DEF Sound, Built
<1>4. Covered(new)
  BY <1>1, <1>2, StageNumbers DEF Sound, Covered, Listed
<1> QED BY <1>1, <1>3, <1>4 DEF Sound, new

LEMMA RejectSound ==
  ASSUME NEW job, Sound(job), NEW n \in Stages, CanReject(job, n)
  PROVE  Sound(Reject(job, n))
<1> DEFINE mid == Become(job, n, "rejected")
           new == Reject(job, n)
<1>1. /\ IsJob(mid) /\ mid.stale = job.stale /\ mid.runs = job.runs /\ mid.judged = job.judged
      /\ mid.status[n] = "rejected"
      /\ \A k \in Stages \ {n} : mid.status[k] = job.status[k]
  BY BecomeIs DEF Sound, Statuses
<1>2. new = Outdate(mid, n)
  BY DEF Reject
<1>3. job.status[n] # "draft"
  BY DEF CanReject
<1> HIDE DEF mid, new
<1>4. /\ IsJob(new) /\ new.status = mid.status /\ new.runs = job.runs /\ new.judged = job.judged
      /\ \A k \in Stages : ~(k > n) => new.stale[k] = job.stale[k]
      /\ \A k \in Stages : k > n /\ mid.status[k] # "draft" => new.stale[k] = TRUE
  <2>1. /\ IsJob(Outdate(mid, n)) /\ Outdate(mid, n).status = mid.status
        /\ Outdate(mid, n).runs = mid.runs /\ Outdate(mid, n).judged = mid.judged
        /\ \A k \in Stages : ~(k > n) => Outdate(mid, n).stale[k] = mid.stale[k]
        /\ \A k \in Stages : k > n /\ mid.status[k] # "draft" => Outdate(mid, n).stale[k] = TRUE
    BY <1>1, OutdateIs, OutdateMarks
  <2> QED BY <1>1, <1>2, <2>1
<1>5. Built(new)
  <2> SUFFICES ASSUME NEW k \in Stages \ {1}, new.status[k] # "draft", ~new.stale[k]
               PROVE  new.status[k - 1] = "approved" /\ (new.stale[k - 1] => k - 1 = ReadStage)
    BY DEF Built
  <2>1. k \in Nat /\ n \in Nat /\ k - 1 \in Stages
    BY StageNumbers
  <2>2. ~(k > n) /\ ~job.stale[k] /\ job.status[k] # "draft"
    BY <2>1, <1>1, <1>3, <1>4
  <2>3. job.status[k - 1] = "approved" /\ (job.stale[k - 1] => k - 1 = ReadStage)
    BY <2>2 DEF Sound, Built
  <2> QED BY <2>1, <2>2, <2>3, <1>1, <1>4
<1>6. Covered(new)
  <2>1. Report \in Stages /\ n \in Nat /\ (n # Report => n < Report)
    BY StageNumbers
  <2> QED BY <2>1, <1>1, <1>3, <1>4 DEF Sound, Covered, Listed
<1> QED BY <1>4, <1>5, <1>6 DEF Sound, new

LEMMA RereadSound ==
  ASSUME NEW job, Sound(job)
  PROVE  Sound(Reread(job))
<1>1. CASE job.status[ReadStage] # "approved"
  BY <1>1 DEF Reread
<1>2. CASE job.status[ReadStage] = "approved"
  <2> DEFINE new == Mark(job, ReadStage, TRUE)
  <2>1. /\ IsJob(new) /\ new.status = job.status /\ new.runs = job.runs /\ new.judged = job.judged
        /\ \A k \in Stages \ {ReadStage} : new.stale[k] = job.stale[k]
        /\ new.stale[ReadStage] = TRUE
    BY StageNumbers, MarkIs DEF Sound
  <2> HIDE DEF new
  <2>2. Built(new)
    BY <2>1, StageNumbers DEF Sound, Built
  <2>3. Covered(new)
    BY <2>1, StageNumbers DEF Sound, Covered, Listed
  <2>4. Reread(job) = new
    BY <1>2 DEF Reread, new
  <2> QED BY <2>1, <2>2, <2>3, <2>4 DEF Sound
<1> QED BY <1>1, <1>2

LEMMA JudgeSound ==
  ASSUME NEW job, Sound(job), CanJudge(job)
  PROVE  Sound(Judge(job))
<1>1. CASE job.status[Report] = "approved" /\ ~job.stale[Report]
  BY <1>1 DEF Judge
<1>2. CASE ~(job.status[Report] = "approved" /\ ~job.stale[Report])
  <2> DEFINE mid == Replace(job, Report)
             new == [mid EXCEPT !.judged = Listed(job)]
  <2>1. IsJob(mid) /\ mid.runs = job.runs /\ Built(mid)
    BY StageNumbers, ReplaceIs, ReplaceBuilt DEF Sound, CanJudge
  <2> HIDE DEF mid
  <2>2. /\ IsJob(new) /\ new.status = mid.status /\ new.stale = mid.stale
        /\ new.runs = job.runs /\ new.judged = Listed(job)
    BY <2>1 DEF IsJob
  <2>3. Judge(job) = new
    BY <1>2 DEF Judge, mid
  <2> HIDE DEF new
  <2>4. Built(new)
    BY <2>1, <2>2 DEF Built
  <2>5. Covered(new)
    BY <2>2 DEF Covered, Listed
  <2> QED BY <2>2, <2>3, <2>4, <2>5 DEF Sound
<1> QED BY <1>1, <1>2

LEMMA WithRunIs ==
  ASSUME NEW job, IsJob(job), NEW id, NEW status
  PROVE  /\ IsJob(WithRun(job, id, status))
         /\ WithRun(job, id, status).status = job.status /\ WithRun(job, id, status).stale = job.stale
         /\ WithRun(job, id, status).judged = job.judged
         /\ Listed(WithRun(job, id, status)) = Listed(job) \cup {id}
         /\ \A i \in Listed(job) \ {id} : WithRun(job, id, status).runs[i] = job.runs[i]
         /\ WithRun(job, id, status).runs[id].status = status
         /\ id \notin Listed(job) /\ status \in Finished => WithRun(job, id, status).runs[id].early
<1> DEFINE early == IF id \in Listed(job) THEN job.runs[id].early ELSE status \in Finished
           list == [i \in Listed(job) \cup {id} |->
                      IF i = id THEN [status |-> status, early |-> early] ELSE job.runs[i]]
           listed == [job EXCEPT !.runs = list]
<1>1. listed = [status |-> job.status, stale |-> job.stale, runs |-> list,
                last |-> job.last, judged |-> job.judged]
  BY DEF IsJob
<1>2. WithRun(job, id, status) = [listed EXCEPT !.last = id]
  BY DEF WithRun
<1>3. /\ DOMAIN list = Listed(job) \cup {id}
      /\ \A i \in Listed(job) \ {id} : list[i] = job.runs[i]
      /\ list[id].status = status
      /\ id \notin Listed(job) /\ status \in Finished => list[id].early
  OBVIOUS
<1> HIDE DEF list, listed
<1>4. [listed EXCEPT !.last = id] = [status |-> job.status, stale |-> job.stale, runs |-> list,
                                     last |-> id, judged |-> job.judged]
  BY <1>1
<1> QED BY <1>2, <1>3, <1>4 DEF IsJob, Listed

\* A new run in the list: if it has ended already, the list says so.
LEMMA RecordSound ==
  ASSUME NEW job, Sound(job), NEW id, id \notin Listed(job), NEW status
  PROVE  Sound(WithRun(job, id, status))
BY WithRunIs DEF Sound, Built, Covered

\* The end of a run of the list makes its stage anew, or the report was out of date.
LEMMA SettledSound ==
  ASSUME NEW job, Sound(job), NEW id, NEW status
  PROVE  Sound(FinishStage(WithRun(job, id, status), status))
<1> DEFINE new == WithRun(job, id, status)
<1>1. IsJob(new) /\ Built(new)
  BY WithRunIs DEF Sound, Built
<1>2. CASE status \in Finished /\ CanGenerate(new, Run)
  BY <1>1, <1>2, ReplaceSound, StageNumbers DEF FinishStage
<1>3. CASE ~(status \in Finished /\ CanGenerate(new, Run))
  <2>1. FinishStage(new, status) = new
    BY <1>3 DEF FinishStage
  <2>2. CASE status \notin Finished
    BY <1>1, <2>1, <2>2, WithRunIs DEF Sound, Covered
  <2>3. CASE ~CanGenerate(new, Run)
    <3>1. ~(new.status[Report] # "draft" /\ ~new.stale[Report])
      <4> SUFFICES ASSUME new.status[Report] # "draft", ~new.stale[Report]
                   PROVE  FALSE
        OBVIOUS
      <4>1. new.status[Run] = "approved" /\ ~new.stale[Run]
        BY <1>1, StageNumbers DEF Built
      <4>2. new.status[Code] = "approved" /\ ~new.stale[Code]
        BY <1>1, <4>1, StageNumbers DEF Built
      <4> QED BY <4>2, <2>3, StageNumbers DEF CanGenerate
    <3> QED BY <1>1, <2>1, <3>1 DEF Sound, Covered
  <2> QED BY <1>3, <2>2, <2>3
<1> QED BY <1>2, <1>3

-----------------------------------------------------------------------------
(* What a request writes back *)

\* The functions of a request that reads, computes and writes leave the runs.
LEMMA RunsStay ==
  ASSUME NEW job, Sound(job)
  PROVE  /\ \A n \in Stages : \A new \in Generate(job, n) : new.runs = job.runs
         /\ \A n \in Stages : Approve(job, n).runs = job.runs
         /\ \A n \in Stages : Reject(job, n).runs = job.runs
         /\ Reread(job).runs = job.runs
         /\ Judge(job).runs = job.runs
<1>1. ASSUME NEW n \in Stages, NEW new \in Generate(job, n)
      PROVE  new.runs = job.runs
  <2>1. new = job \/ new = Mark(job, n, FALSE) \/ new = Replace(job, n)
    BY <1>1 DEF Generate
  <2>2. Mark(job, n, FALSE).runs = job.runs
    BY UnmarkIs DEF Sound
  <2>3. Replace(job, n).runs = job.runs
    BY ReplaceIs DEF Sound
  <2> QED BY <2>1, <2>2, <2>3
<1>2. ASSUME NEW n \in Stages
      PROVE  Approve(job, n).runs = job.runs
  BY BecomeIs DEF Approve, Sound, Statuses
<1>3. ASSUME NEW n \in Stages
      PROVE  Reject(job, n).runs = job.runs
  <2>1. IsJob(Become(job, n, "rejected")) /\ Become(job, n, "rejected").runs = job.runs
    BY BecomeIs DEF Sound, Statuses
  <2> QED BY <2>1, OutdateIs DEF Reject
<1>4. Reread(job).runs = job.runs
  BY MarkIs, StageNumbers DEF Reread, Sound
<1>5. Judge(job).runs = job.runs
  <2>1. IsJob(Replace(job, Report)) /\ Replace(job, Report).runs = job.runs
    BY ReplaceIs, StageNumbers DEF Sound
  <2>2. [Replace(job, Report) EXCEPT !.judged = Listed(job)].runs = job.runs
    BY <2>1 DEF IsJob
  <2> QED BY <2>2 DEF Judge
<1> QED BY <1>1, <1>2, <1>3, <1>4, <1>5

LEMMA ForwardSound ==
  ASSUME NEW job, Sound(job), NEW new \in Forward(job)
  PROVE  Sound(new) /\ Listed(new) = Listed(job)
<1>1. CASE \E n \in 1..Design : CanGenerate(job, n) /\ new \in Generate(job, n)
  BY <1>1, GenerateSound, RunsStay, StageNumbers DEF Listed
<1>2. CASE \E n \in Stages : CanApprove(job, n) /\ new = Approve(job, n)
  BY <1>2, ApproveSound, RunsStay DEF Listed
<1>3. CASE CanJudge(job) /\ new = Judge(job)
  BY <1>3, JudgeSound, RunsStay DEF Listed
<1> QED BY <1>1, <1>2, <1>3 DEF Forward

LEMMA BackSound ==
  ASSUME NEW job, Sound(job), NEW new \in Back(job)
  PROVE  Sound(new) /\ Listed(new) = Listed(job)
<1>1. CASE \E n \in 1..Design : CanGenerate(job, n) /\ new \in Generate(job, n)
  BY <1>1, GenerateSound, RunsStay, StageNumbers DEF Listed
<1>2. CASE \E n \in Stages : CanReject(job, n) /\ new = Reject(job, n)
  BY <1>2, RejectSound, RunsStay DEF Listed
<1>3. CASE new = Reread(job)
  BY <1>3, RereadSound, RunsStay DEF Listed
<1> QED BY <1>1, <1>2, <1>3 DEF Back

-----------------------------------------------------------------------------
(* The inductive invariant: the copies of job j are sound and list runs    *)
(* that have a folder; a run that is being started is not in its copy yet, *)
(* because the copy was read before the folder was made.                   *)

Held(job, j) == Sound(job) /\ Listed(job) \subseteq used[j]

InHand(q) ==
  /\ q.of \in Jobs /\ Held(q.job, q.of)
  /\ q.at \in {"launch", "record"} => q.id \in used[q.of] /\ q.id \notin Listed(q.job)
  /\ q.at \in {"poll", "stopping"} => q.id \in Listed(q.job)

Kept ==
  /\ used \in [Jobs -> SUBSET Numbers]
  /\ file = [j \in Jobs |-> file[j]]
  /\ req = [c \in Clients |-> req[c]]
  /\ \A j \in Jobs : Held(file[j], j)
  /\ \A c \in Clients : req[c] # Idle => InHand(req[c])

LEMMA InitKept == Init => Kept
<1> SUFFICES ASSUME Init PROVE Kept
  OBVIOUS
<1>1. Sound(NewJob) /\ Listed(NewJob) = {}
  BY StageNumbers DEF Sound, IsJob, Built, Covered, NewJob, Listed, Statuses
<1> QED BY <1>1 DEF Init, Kept, Held, Idle

\* A new request that holds the file, or what may be made of it.
LEMMA BeginKept ==
  ASSUME Kept, NEW c \in Clients, NEW q, Begin(c, q), InHand(q), UNCHANGED <<file, used>>
  PROVE  Kept'
<1>1. req' = [req EXCEPT ![c] = q]
  BY DEF Begin
<1>2. \A j \in Jobs : Held(file[j], j)'
  BY DEF Kept, Held, Listed
<1>3. ASSUME NEW d \in Clients, req'[d] # Idle
      PROVE  InHand(req[d])'
  <2>1. InHand(req'[d])
    BY <1>1, <1>3 DEF Kept
  <2> QED BY <2>1 DEF InHand, Held
<1> QED BY <1>1, <1>2, <1>3 DEF Kept

\* A request that ends, having written a sound job over the file or nothing.
LEMMA EndKept ==
  ASSUME Kept, NEW c \in Clients, NEW j \in Jobs, NEW job, Held(job, j),
         file' = [file EXCEPT ![j] = job] \/ file' = file,
         req' = [req EXCEPT ![c] = Idle], used' = used
  PROVE  Kept'
<1>1. \A i \in Jobs : Held(file'[i], i)
  BY DEF Kept
<1>2. \A i \in Jobs : Held(file[i], i)'
  BY <1>1 DEF Held
<1>3. ASSUME NEW d \in Clients, req'[d] # Idle
      PROVE  InHand(req[d])'
  <2>1. InHand(req'[d])
    BY <1>3 DEF Kept
  <2> QED BY <2>1 DEF InHand, Held
<1> QED BY <1>2, <1>3 DEF Kept

\* What lists the runs of the copy and one with a folder is held too.
LEMMA MoreListed ==
  ASSUME NEW job, NEW new, NEW j, NEW id, Held(job, j), id \in used[j],
         Sound(new), Listed(new) = Listed(job) \cup {id}
  PROVE  Held(new, j)
BY DEF Held

LEMMA SettledList ==
  ASSUME NEW job, Sound(job), NEW id, NEW status
  PROVE  Listed(FinishStage(WithRun(job, id, status), status)) = Listed(job) \cup {id}
<1>1. IsJob(WithRun(job, id, status)) /\ Listed(WithRun(job, id, status)) = Listed(job) \cup {id}
  BY WithRunIs DEF Sound
<1>2. Listed(Replace(WithRun(job, id, status), Run)) = Listed(WithRun(job, id, status))
  BY <1>1, ReplaceIs, StageNumbers DEF Listed
<1> QED BY <1>1, <1>2 DEF FinishStage

\* A start that goes on takes a new id, and the request keeps it, or ends.
LEMMA ReserveIs ==
  ASSUME Kept, NEW c \in Clients, Reserve(c)
  PROVE  \E r \in Runs :
           /\ r.of = req[c].of /\ r.id \notin used[r.of] /\ Take(c, r)
           /\ Held(req[c].job, r.of)
<1>1. InHand(req[c])
  BY DEF Reserve, Kept, Idle
<1>2. PICK id \in NewIds(req[c].of) : Take(c, [of |-> req[c].of, id |-> id])
  BY DEF Reserve
<1>3. id \in Numbers /\ id \notin used[req[c].of]
  BY <1>1, <1>2 DEF NewIds, InHand, Kept, Numbers
<1>4. [of |-> req[c].of, id |-> id] \in Runs
  BY <1>1, <1>3 DEF Runs, InHand
<1> QED BY <1>1, <1>2, <1>3, <1>4 DEF InHand

\* A folder more leaves everything held.
LEMMA TakeKept ==
  ASSUME Kept, NEW c \in Clients, NEW r \in Runs, r.of = req[c].of, r.id \notin used[r.of],
         Held(req[c].job, r.of), Take(c, r)
  PROVE  Kept'
<1> DEFINE j == r.of
<1>1. PICK q : /\ q = [at |-> "launch", of |-> j, job |-> req[c].job, id |-> r.id]
               /\ req' = [req EXCEPT ![c] = q] \/ req' = [req EXCEPT ![c] = Idle]
  BY DEF Take
<1>2. j \in Jobs /\ r.id \in Numbers
  BY DEF Runs
<1>3. file' = file /\ used' = [used EXCEPT ![j] = @ \cup {r.id}]
  BY DEF Take
<1>4. /\ used' \in [Jobs -> SUBSET Numbers] /\ r.id \in used'[j]
      /\ \A i \in Jobs : used[i] \subseteq used'[i]
  BY <1>2, <1>3 DEF Kept
<1>5. \A i \in Jobs : \A job : Held(job, i) => Sound(job) /\ Listed(job) \subseteq used'[i]
  BY <1>4 DEF Held
<1>6. \A i \in Jobs : Held(file[i], i)'
  BY <1>3, <1>5 DEF Kept, Held
<1>7. q.at = "launch" /\ q.of = j /\ q.job = req[c].job /\ q.id = r.id
  BY <1>1
<1>8. q.id \in used'[j] /\ q.id \notin Listed(q.job)
  BY <1>4, <1>7 DEF Held
<1>9. ASSUME NEW d \in Clients, req'[d] # Idle
      PROVE  InHand(req[d])'
  <2>1. CASE d # c
    <3>1. req'[d] = req[d] /\ InHand(req[d])
      BY <2>1, <1>1, <1>9 DEF Kept
    <3>2. req[d].at \in {"launch", "record"} => req[d].id \in used'[req[d].of]
      BY <3>1, <1>4 DEF InHand
    <3> QED BY <3>1, <3>2, <1>5 DEF InHand, Held
  <2>2. CASE d = c
    <3>1. req'[d] = q
      BY <2>2, <1>1, <1>9 DEF Kept
    <3>2. Sound(q.job) /\ Listed(q.job) \subseteq used'[j]
      BY <1>2, <1>5, <1>7
    <3> QED BY <3>1, <3>2, <1>2, <1>7, <1>8 DEF InHand, Held
  <2> QED BY <2>1, <2>2
<1>10. req' = [d \in Clients |-> req'[d]]
  BY <1>1 DEF Kept
<1>11. file' = [i \in Jobs |-> file'[i]]
  BY <1>3 DEF Kept
<1> QED BY <1>4, <1>6, <1>9, <1>10, <1>11 DEF Kept

LEMMA ReserveKept ==
  ASSUME Kept, NEW c \in Clients, Reserve(c)
  PROVE  Kept'
BY ReserveIs, TakeKept

LEMMA LaunchKept ==
  ASSUME Kept, NEW c \in Clients, Launch(c)
  PROVE  Kept'
<1> DEFINE q == [at |-> "record", of |-> req[c].of, job |-> req[c].job, id |-> req[c].id]
<1>1. /\ file' = file /\ used' = used /\ req[c].at = "launch" /\ InHand(req[c])
      /\ req' = [req EXCEPT ![c] = q] \/ req' = [req EXCEPT ![c] = Idle]
  BY DEF Launch, Kept, Idle
<1>2. InHand(q)
  BY <1>1 DEF InHand
<1> HIDE DEF q
<1>3. \A i \in Jobs : Held(file[i], i)'
  BY <1>1 DEF Kept, Held
<1>4. ASSUME NEW d \in Clients, req'[d] # Idle
      PROVE  InHand(req[d])'
  <2>1. InHand(req'[d])
    BY <1>1, <1>2, <1>4 DEF Kept
  <2> QED BY <2>1, <1>1 DEF InHand, Held
<1> QED BY <1>1, <1>3, <1>4 DEF Kept

LEMMA NextKept == Kept /\ [Next]_vars => Kept'
<1> SUFFICES ASSUME Kept, [Next]_vars PROVE Kept'
  OBVIOUS
<1>1. ASSUME NEW c \in Clients, NEW j \in Jobs, Edit(c, j)
      PROVE  Kept'
  <2>1. PICK job : /\ job \in Forward(file[j]) \/ job \in Back(file[j])
                   /\ Begin(c, [at |-> "save", of |-> j, job |-> job])
    BY <1>1 DEF Edit
  <2>2. Held(file[j], j)
    BY DEF Kept
  <2>3. Sound(job) /\ Listed(job) = Listed(file[j])
    BY <2>1, <2>2, ForwardSound, BackSound DEF Held
  <2>4. InHand([at |-> "save", of |-> j, job |-> job])
    BY <2>2, <2>3 DEF InHand, Held
  <2>5. UNCHANGED <<file, used>>
    BY <1>1 DEF Edit, runner
  <2> QED BY <2>1, <2>4, <2>5, BeginKept
<1>2. ASSUME NEW c \in Clients, NEW j \in Jobs, StartRun(c, j)
      PROVE  Kept'
  <2>1. Begin(c, [at |-> "reserve", of |-> j, job |-> file[j]]) /\ UNCHANGED <<file, used>>
    BY <1>2 DEF StartRun, runner
  <2>2. InHand([at |-> "reserve", of |-> j, job |-> file[j]])
    BY DEF Kept, InHand
  <2> QED BY <2>1, <2>2, BeginKept
<1>3. ASSUME NEW c \in Clients, NEW j \in Jobs, AskStatus(c, j)
      PROVE  Kept'
  <2>1. PICK id \in Listed(file[j]) :
            Begin(c, [at |-> "poll", of |-> j, job |-> file[j], id |-> id])
    BY <1>3 DEF AskStatus
  <2>2. InHand([at |-> "poll", of |-> j, job |-> file[j], id |-> id])
    BY DEF Kept, InHand
  <2>3. UNCHANGED <<file, used>>
    BY <1>3 DEF AskStatus, runner
  <2> QED BY <2>1, <2>2, <2>3, BeginKept
<1>4. ASSUME NEW c \in Clients, NEW j \in Jobs, Cancel(c, j)
      PROVE  Kept'
  <2>1. PICK id \in Listed(file[j]) :
            Begin(c, [at |-> "stopping", of |-> j, job |-> file[j], id |-> id])
    BY <1>4 DEF Cancel
  <2>2. InHand([at |-> "stopping", of |-> j, job |-> file[j], id |-> id])
    BY DEF Kept, InHand
  <2>3. UNCHANGED <<file, used>>
    BY <1>4 DEF Cancel, runner
  <2> QED BY <2>1, <2>2, <2>3, BeginKept
<1>5. ASSUME NEW c \in Clients, Save(c)
      PROVE  Kept'
  <2>1. InHand(req[c])
    BY <1>5 DEF Save, Kept, Idle
  <2> QED BY <1>5, <2>1, EndKept DEF Save, runner, InHand
<1>6. ASSUME NEW c \in Clients, Refuse(c)
      PROVE  Kept'
  <2>1. InHand(req[c])
    BY <1>6 DEF Refuse, Kept, Idle
  <2> QED BY <1>6, <2>1, EndKept DEF Refuse, runner, InHand
<1>7. ASSUME NEW c \in Clients, LaunchFails(c)
      PROVE  Kept'
  <2>1. InHand(req[c])
    BY <1>7 DEF LaunchFails, Kept, Idle
  <2> QED BY <1>7, <2>1, EndKept DEF LaunchFails, Close, InHand
<1>8. ASSUME NEW c \in Clients, Record(c)
      PROVE  Kept'
  <2> DEFINE new == WithRun(req[c].job, req[c].id, Status(Launched(c)))
  <2>1. InHand(req[c]) /\ req[c].at = "record"
    BY <1>8 DEF Record, Kept, Idle
  <2>2. Sound(new) /\ Listed(new) = Listed(req[c].job) \cup {req[c].id}
    BY <2>1, RecordSound, WithRunIs DEF InHand, Held, Sound
  <2>3. Held(new, req[c].of)
    BY <2>1, <2>2, MoreListed DEF InHand
  <2>4. /\ file' = [file EXCEPT ![req[c].of] = new]
        /\ req' = [req EXCEPT ![c] = Idle] /\ used' = used
    BY <1>8 DEF Record, runner
  <2> HIDE DEF new
  <2> QED BY <2>1, <2>3, <2>4, EndKept DEF InHand
<1>9. ASSUME NEW c \in Clients, req[c].at \in {"poll", "stopping"}, NEW status,
             \/ file' = [file EXCEPT ![req[c].of] = Settled(c, status)]
             \/ file' = file,
             req' = [req EXCEPT ![c] = Idle], used' = used
      PROVE  Kept'
  <2>1. InHand(req[c])
    BY <1>9 DEF Kept, Idle
  <2>2. Sound(Settled(c, status)) /\ Listed(Settled(c, status)) = Listed(req[c].job) \cup {req[c].id}
    BY <2>1, SettledSound, SettledList DEF InHand, Held, Settled
  <2>3. req[c].id \in used[req[c].of]
    BY <1>9, <2>1 DEF InHand, Held
  <2>4. Held(Settled(c, status), req[c].of)
    BY <2>1, <2>2, <2>3, MoreListed DEF InHand
  <2> QED BY <1>9, <2>1, <2>4, EndKept DEF InHand
<1>10. ASSUME NEW c \in Clients, Poll(c)
       PROVE  Kept'
  BY <1>9, <1>10 DEF Poll, runner
<1>11. ASSUME NEW c \in Clients, Stopped(c)
       PROVE  Kept'
  BY <1>9, <1>11 DEF Stopped, runner
<1>12. ASSUME UNCHANGED <<file, used>>, req' = req \/ req' = [c \in Clients |-> Idle]
       PROVE  Kept'
  BY <1>12 DEF Kept, Held, InHand
<1>13. ASSUME NEW r \in Runs, Finish(r) \/ WriteEnd(r)
       PROVE  Kept'
  BY <1>12, <1>13 DEF Finish, WriteEnd, Close
<1>14. ASSUME Restart
       PROVE  Kept'
  BY <1>12, <1>14 DEF Restart
<1>15. ASSUME UNCHANGED vars
       PROVE  Kept'
  BY <1>12, <1>15 DEF vars, runner
<1> QED
  BY <1>1, <1>2, <1>3, <1>4, <1>5, <1>6, <1>7, <1>8, <1>10, <1>11, <1>13, <1>14, <1>15,
     ReserveKept, LaunchKept DEF Next, Go

-----------------------------------------------------------------------------

LEMMA KeptImplies == Kept => FreshIsBuilt /\ ReportCoversRuns
BY DEF Kept, InHand, Held, Sound, Copies, FreshIsBuilt, ReportCoversRuns

(***************************************************************************)
(* Whatever a stage holds that is not marked as out of date was made from  *)
(* approved stages, in the file and in every copy a request will write     *)
(* over it: _stale_downstream reaches everything it has to.                *)
(***************************************************************************)
THEOREM StagesAreBuilt == Spec => []FreshIsBuilt
BY InitKept, NextKept, KeptImplies, PTL DEF Spec

(***************************************************************************)
(* A report that is not marked covers the runs of its list that ended,     *)
(* although requests write back old copies of the file: finish_stage makes *)
(* the stage of the runs anew in the copy that shows the end of one.       *)
(***************************************************************************)
THEOREM ReportsCoverRuns == Spec => []ReportCoversRuns
BY InitKept, NextKept, KeptImplies, PTL DEF Spec
-----------------------------------------------------------------------------
(* A run that is active has its tenant's slot and its id. A request about  *)
(* to launch a run is the only one to do so, and the run has not ended.    *)

Holds(r) == slot[Owner[r.of]] = r.id /\ registry[r.id] = r /\ r.id \in used[r.of]

Launching(c) == req[c].at = "launch"

Booked ==
  /\ mem = [r \in Runs |-> mem[r]]
  /\ registry = [i \in Numbers |-> registry[i]]
  /\ slot = [t \in Tenants |-> slot[t]]
  /\ \A c \in Clients : Launching(c) => mem[Launched(c)] = "queued"
  /\ \A c, d \in Clients : Launching(c) /\ Launching(d) /\ Launched(c) = Launched(d) => c = d
  /\ IdsApart => \A r \in Runs : mem[r] \in Active => Holds(r)

LEMMA RunsAre ==
  ASSUME NEW r \in Runs
  PROVE  r.of \in Jobs /\ r.id \in Numbers /\ r.id \in Nat /\ r.id # 0 /\ r # Nobody
         /\ Owner[r.of] \in Tenants
BY BackendAssumption DEF Runs, Numbers, Nobody

\* The run a request launches, records or asks for has a folder.
LEMMA LaunchedIs ==
  ASSUME Kept, NEW c \in Clients, req[c].at \in {"launch", "record", "poll", "stopping"}
  PROVE  /\ Launched(c) \in Runs /\ Launched(c) = [of |-> req[c].of, id |-> req[c].id]
         /\ req[c].of \in Jobs /\ req[c].id \in used[req[c].of]
<1>1. InHand(req[c])
  BY DEF Kept, Idle
<1>2. req[c].of \in Jobs /\ req[c].id \in used[req[c].of]
  BY <1>1 DEF InHand, Held
<1>3. req[c].id \in Numbers
  BY <1>2 DEF Kept
<1> QED BY <1>2, <1>3 DEF Launched, Runs

LEMMA InitBooked == Init => Booked
BY DEF Init, Booked, Launching, Idle, Active

\* What no step but a start does: it neither adds a folder nor moves an id.
LEMMA ApartStays ==
  ASSUME Kept, Next, IdsApart'
  PROVE  IdsApart
<1>1. \A j \in Jobs : used[j] \subseteq used'[j]
  <2>1. used' = used \/ \E c \in Clients : Reserve(c)
    BY DEF Next, Go, Save, Refuse, Launch, LaunchFails, Record, Poll, Stopped, Edit, StartRun,
           AskStatus, Cancel, Finish, WriteEnd, Close, Restart, runner
  <2>2. CASE \E c \in Clients : Reserve(c)
    <3>1. PICK c \in Clients, r \in Runs : used' = [used EXCEPT ![r.of] = @ \cup {r.id}]
      BY <2>2, ReserveIs DEF Take
    <3> QED BY <3>1 DEF Kept
  <2> QED BY <2>1, <2>2
<1> QED BY <1>1, RunsAre DEF IdsApart

\* The steps that leave the runner alone, or only write a file of it.
LEMMA QuietBooked ==
  ASSUME Kept, Booked, NEW c \in Clients, NEW q, q.at # "launch",
         req' = [req EXCEPT ![c] = q], UNCHANGED <<mem, registry, slot, used>>
  PROVE  Booked'
<1>1. \A d \in Clients : Launching(d)' => Launching(d) /\ req'[d] = req[d]
  BY DEF Kept, Launching
<1>2. \A d \in Clients : Launching(d)' => Launched(d)' = Launched(d)
  BY <1>1 DEF Launched
<1>3. IdsApart' = IdsApart
  BY DEF IdsApart
<1>4. \A r \in Runs : Holds(r)' = Holds(r)
  BY DEF Holds
<1> QED BY <1>1, <1>2, <1>3, <1>4 DEF Booked

\* The end of run r, which is active: another active run keeps its slot.
LEMMA CloseBooked ==
  ASSUME Kept, Booked, NEW r \in Runs, NEW status \in Finished, Close(r, status), mem[r] \in Active,
         \A d \in Clients : Launching(d)' => Launching(d) /\ req'[d] = req[d] /\ Launched(d) # r
  PROVE  Booked'
<1>1. mem' = [mem EXCEPT ![r] = status] /\ registry' = registry /\ used' = used
  BY DEF Close
<1>2. slot' = slot \/ slot' = [slot EXCEPT ![Owner[r.of]] = 0]
  BY DEF Close, Free
<1>3. \A d \in Clients : Launching(d)' => Launched(d)' = Launched(d)
  BY DEF Launched
<1>4. status \notin Active
  BY DEF Finished, Active
<1>5. ASSUME IdsApart', NEW s \in Runs, mem'[s] \in Active
      PROVE  Holds(s)'
  <2>1. IdsApart /\ s # r /\ mem[s] \in Active
    BY <1>1, <1>4, <1>5 DEF IdsApart, Booked
  <2>2. Holds(s)
    BY <2>1 DEF Booked
  <2>3. ~(slot[Owner[s.of]] = r.id /\ Owner[s.of] = Owner[r.of])
    BY <2>1, <2>2 DEF Booked, Holds
  <2>4. slot'[Owner[s.of]] = slot[Owner[s.of]]
    <3>1. CASE slot[Owner[r.of]] = r.id
      BY <3>1, <2>3, RunsAre DEF Close, Free, Booked
    <3>2. CASE slot[Owner[r.of]] # r.id
      BY <3>2 DEF Close, Free
    <3> QED BY <3>1, <3>2
  <2> QED BY <1>1, <2>2, <2>4 DEF Holds
<1>6. /\ mem' = [s \in Runs |-> mem'[s]] /\ registry' = [i \in Numbers |-> registry'[i]]
      /\ slot' = [t \in Tenants |-> slot'[t]]
  BY <1>1, <1>2 DEF Booked
<1>7. ASSUME NEW d \in Clients, Launching(d)'
      PROVE  mem'[Launched(d)'] = "queued"
  BY <1>1, <1>3, <1>7, LaunchedIs DEF Booked, Launching
<1>8. \A d, e \in Clients : Launching(d)' /\ Launching(e)' /\ Launched(d)' = Launched(e)' => d = e
  BY <1>3 DEF Booked
<1> QED BY <1>5, <1>6, <1>7, <1>8 DEF Booked

\* While a request holds a tenant's free slot none of its runs is active.
LEMMA FreeSlot ==
  ASSUME Booked, IdsApart, NEW t, ~IsActive(Current(t)), NEW r \in Runs, Owner[r.of] = t
  PROVE  mem[r] \notin Active
BY RunsAre DEF Booked, Holds, IsActive, Current

LEMMA TakeBooked ==
  ASSUME Kept, Booked, IdsApart' => IdsApart,
         NEW c \in Clients, NEW r \in Runs, r.of = req[c].of, r.id \notin used[r.of], Take(c, r)
  PROVE  Booked'
<1> DEFINE j == r.of
<1>1. j \in Jobs /\ r.id \in Numbers /\ Owner[j] \in Tenants /\ r = [of |-> j, id |-> r.id]
  BY RunsAre DEF Runs
<1>2. /\ used' = [used EXCEPT ![j] = @ \cup {r.id}] /\ mem' = [mem EXCEPT ![r] = "queued"]
      /\ registry' = [registry EXCEPT ![r.id] = r] /\ slot' = [slot EXCEPT ![Owner[j]] = r.id]
      /\ ~IsActive(Current(Owner[j]))
  BY DEF Take
<1>3. PICK q : /\ q.at = "launch" => q.of = j /\ q.id = r.id
               /\ req' = [req EXCEPT ![c] = q]
  BY DEF Take, Idle
<1>4. r.id \in used'[j] /\ \A i \in Jobs : used[i] \subseteq used'[i]
  BY <1>1, <1>2 DEF Kept
<1>5. \A d \in Clients : Launching(d) => Launched(d) # r
  BY DEF Launching, Launched, Kept, InHand, Idle
<1>6. \A d \in Clients : Launching(d)' =>
        \/ d = c /\ Launched(d)' = r
        \/ d # c /\ Launching(d) /\ Launched(d)' = Launched(d)
  BY <1>1, <1>3 DEF Launching, Launched, Kept
<1>7. ASSUME IdsApart', NEW s \in Runs, mem'[s] \in Active
      PROVE  Holds(s)'
  <2>1. CASE s = r
    BY <2>1, <1>1, <1>2, <1>4 DEF Holds, Booked
  <2>2. CASE s # r
    <3>1. mem[s] \in Active /\ Holds(s) /\ Owner[s.of] # Owner[j]
      BY <2>2, <1>2, <1>7, FreeSlot DEF Booked
    <3>2. s.of \in Jobs /\ s.id \in used'[s.of]
      BY <3>1, <1>4, RunsAre DEF Holds
    <3>3. s.id # r.id
      BY <1>4, <1>7, <3>1, <3>2 DEF IdsApart
    <3>4. registry'[s.id] = registry[s.id] /\ slot'[Owner[s.of]] = slot[Owner[s.of]]
      BY <3>1, <3>3, <1>2, RunsAre DEF Booked
    <3> QED BY <3>1, <3>2, <3>4 DEF Holds
  <2> QED BY <2>1, <2>2
<1>8. /\ mem' = [s \in Runs |-> mem'[s]] /\ registry' = [i \in Numbers |-> registry'[i]]
      /\ slot' = [t \in Tenants |-> slot'[t]]
  BY <1>2 DEF Booked
<1>9. ASSUME NEW d \in Clients, Launching(d)'
      PROVE  mem'[Launched(d)'] = "queued"
  BY <1>2, <1>6, <1>9, LaunchedIs DEF Booked, Launching
<1>10. \A d, e \in Clients : Launching(d)' /\ Launching(e)' /\ Launched(d)' = Launched(e)' => d = e
  BY <1>5, <1>6 DEF Booked
<1> QED BY <1>7, <1>8, <1>9, <1>10 DEF Booked

LEMMA ReserveBooked ==
  ASSUME Kept, Booked, NEW c \in Clients, Reserve(c), IdsApart' => IdsApart
  PROVE  Booked'
BY ReserveIs, TakeBooked

LEMMA LaunchBooked ==
  ASSUME Kept, Booked, NEW c \in Clients, Launch(c)
  PROVE  Booked'
<1>1. PICK r : r = Launched(c)
  OBVIOUS
<1>2. /\ Launching(c) /\ mem' = [mem EXCEPT ![r] = "running"]
      /\ UNCHANGED <<registry, slot, used>>
  BY <1>1 DEF Launch, Launching
<1>3. PICK q : q.at # "launch" /\ req' = [req EXCEPT ![c] = q]
  BY DEF Launch, Idle
<1>4. \A d \in Clients : Launching(d)' => d # c /\ Launching(d) /\ Launched(d)' = Launched(d)
  BY <1>3 DEF Launching, Launched, Kept
<1>5. \A d \in Clients : Launching(d)' => Launched(d) # r
  BY <1>1, <1>2, <1>4 DEF Booked
<1>6. r \in Runs /\ mem[r] = "queued"
  BY <1>1, <1>2, LaunchedIs DEF Booked, Launching
<1>7. \A s \in Runs : mem'[s] \in Active => mem[s] \in Active
  BY <1>2, <1>6 DEF Active, Booked
<1>8. (IdsApart' = IdsApart) /\ \A s \in Runs : Holds(s)' = Holds(s)
  BY <1>2 DEF IdsApart, Holds
<1>9. mem' = [s \in Runs |-> mem'[s]]
  BY <1>2 DEF Booked
<1>10. \A d \in Clients : Launching(d)' => mem'[Launched(d)'] = "queued"
  BY <1>2, <1>4, <1>5, LaunchedIs DEF Booked, Launching
<1>11. \A d, e \in Clients : Launching(d)' /\ Launching(e)' /\ Launched(d)' = Launched(e)' => d = e
  BY <1>4 DEF Booked
<1> QED BY <1>2, <1>7, <1>8, <1>9, <1>10, <1>11 DEF Booked

LEMMA LaunchFailsBooked ==
  ASSUME Kept, Booked, NEW c \in Clients, LaunchFails(c)
  PROVE  Booked'
<1>1. PICK r : r = Launched(c)
  OBVIOUS
<1>2. Launching(c) /\ Close(r, "error") /\ req' = [req EXCEPT ![c] = Idle]
  BY <1>1 DEF LaunchFails, Launching
<1>3. r \in Runs /\ mem[r] \in Active
  BY <1>1, <1>2, LaunchedIs DEF Launching, Booked, Active
<1>4. \A d \in Clients : Launching(d)' => Launching(d) /\ req'[d] = req[d] /\ Launched(d) # r
  BY <1>1, <1>2 DEF Launching, Kept, Idle, Booked
<1> QED BY <1>2, <1>3, <1>4, CloseBooked DEF Finished

LEMMA FinishBooked ==
  ASSUME Kept, Booked, NEW r \in Runs, Finish(r)
  PROVE  Booked'
<1>1. PICK status \in Finished : Close(r, status)
  BY DEF Finish
<1>2. mem[r] = "running" /\ req' = req
  BY DEF Finish
<1>3. \A d \in Clients : Launching(d)' => Launching(d) /\ req'[d] = req[d] /\ Launched(d) # r
  BY <1>2 DEF Launching, Booked
<1>4. mem[r] \in Active
  BY <1>2 DEF Active
<1> QED BY <1>1, <1>3, <1>4, CloseBooked

LEMMA NextBooked == Kept /\ Booked /\ [Next]_vars => Booked'
<1> SUFFICES ASSUME Kept, Booked, [Next]_vars PROVE Booked'
  OBVIOUS
<1>1. ASSUME NEW c \in Clients, NEW j \in Jobs,
             Edit(c, j) \/ StartRun(c, j) \/ AskStatus(c, j) \/ Cancel(c, j)
      PROVE  Booked'
  <2>1. UNCHANGED <<mem, registry, slot, used>>
    BY <1>1 DEF Edit, StartRun, AskStatus, Cancel, runner
  <2>2. \E q : q.at # "launch" /\ req' = [req EXCEPT ![c] = q]
    BY <1>1 DEF Edit, StartRun, AskStatus, Cancel, Begin
  <2> QED BY <2>1, <2>2, QuietBooked
<1>2. ASSUME NEW c \in Clients, Save(c) \/ Refuse(c) \/ Record(c) \/ Poll(c) \/ Stopped(c)
      PROVE  Booked'
  <2>1. UNCHANGED <<mem, registry, slot, used>> /\ req' = [req EXCEPT ![c] = Idle]
    BY <1>2 DEF Save, Refuse, Record, Poll, Stopped, runner
  <2> QED BY <2>1, QuietBooked DEF Idle
<1>3. ASSUME NEW c \in Clients, Reserve(c), Next
      PROVE  Booked'
  BY <1>3, ApartStays, ReserveBooked
<1>4. ASSUME UNCHANGED <<mem, registry, slot, used, req>>
      PROVE  Booked'
  BY <1>4 DEF Booked, IdsApart, Holds, Launching, Launched
<1>5. ASSUME NEW r \in Runs, WriteEnd(r)
      PROVE  Booked'
  BY <1>4, <1>5 DEF WriteEnd
<1>6. ASSUME Restart
      PROVE  Booked'
  BY <1>6 DEF Restart, Booked, Launching, Idle, Active
<1>7. ASSUME UNCHANGED vars
      PROVE  Booked'
  BY <1>4, <1>7 DEF vars, runner
<1> QED
  BY <1>1, <1>2, <1>3, <1>5, <1>6, <1>7, LaunchBooked, LaunchFailsBooked, FinishBooked
     DEF Next, Go

LEMMA BookedImplies == Booked => OneRunPerTenant
BY DEF Booked, Holds, OneRunPerTenant

(***************************************************************************)
(* For all tenants, jobs and clients: as long as no id stands for runs of  *)
(* two tenants, a tenant never has two active runs, although the test for  *)
(* one is made long before the start and again under the lock.             *)
(***************************************************************************)
THEOREM OneRunOfATenant == Spec => []OneRunPerTenant
BY InitKept, NextKept, InitBooked, NextBooked, BookedImplies, PTL DEF Spec

-----------------------------------------------------------------------------
(* What memory, the marker and run.json say of a run                       *)

\* A run in memory has a folder and an entry under its id; one whose end is still to be
\* written has ended; one that is about to be launched did not fail half way.
Tracked ==
  /\ disk \in [Runs -> {"none"} \cup Active \cup Finished]
  /\ marker = [t \in Tenants |-> marker[t]]
  /\ \A r \in Runs : mem[r] # "none" => r.id \in used[r.of] /\ registry[r.id] # Nobody
  /\ \A r \in closing : r \in Runs /\ mem[r] \in Finished
  /\ \A r \in stuck : r.id \in used[r.of]
  /\ \A c \in Clients : Launching(c) => Launched(c) \notin stuck

\* A slot that is taken is an active run's; the marker is that run's or was not written; and
\* a run that run.json shows as active is marked, or its end is to be written, or was lost.
SlotLive == \A t \in Tenants : slot[t] # 0 =>
              \E r \in Runs : Owner[r.of] = t /\ r.id = slot[t] /\ mem[r] \in Active
MarkerLive(r) == marker[Owner[r.of]] = r \/ (marker[Owner[r.of]] = Nobody /\ r \in stuck)
EndsWritten(r) == marker[Owner[r.of]] = r \/ r \in closing \/ r \in torn

Marked ==
  IdsApart => /\ SlotLive
              /\ \A r \in Runs : mem[r] \in Active => MarkerLive(r)
              /\ \A r \in Runs : disk[r] \in Active => EndsWritten(r)

\* Every run that the list of a job or of a copy shows has a run.json.
Stored(job, j) == \A id \in Listed(job) : disk[[of |-> j, id |-> id]] # "none"

Filed ==
  /\ \A j \in Jobs : Stored(file[j], j)
  /\ \A c \in Clients : req[c] # Idle => Stored(req[c].job, req[c].of)
  /\ \A c \in Clients : req[c].at = "record" => disk[Launched(c)] # "none"

LEMMA InitTracked == Init => Tracked /\ Marked /\ Filed
<1> SUFFICES ASSUME Init PROVE Tracked /\ Marked /\ Filed
  OBVIOUS
<1>1. Tracked
  BY DEF Init, Tracked, Launching, Idle
<1>2. Marked
  BY DEF Init, Marked, SlotLive, Active
<1>3. Filed
  BY DEF Init, Filed, Stored, NewJob, Listed, Idle
<1> QED BY <1>1, <1>2, <1>3

\* What recover_stale may do to run.json.
LEMMA RecoveredIs ==
  ASSUME Tracked, NEW t \in Tenants
  PROVE  /\ Recovered(t) \in [Runs -> {"none"} \cup Active \cup Finished]
         /\ \A r \in Runs : Recovered(t)[r] = disk[r] \/ (Recovered(t)[r] = "error" /\ r = marker[t] /\ disk[r] # "none")
         /\ Current(t) = Nobody =>
              \A r \in Runs : r = marker[t] => Recovered(t)[r] \notin Active
<1>1. CASE Current(t) = Nobody /\ marker[t] # Nobody /\ disk[marker[t]] \in Active
  BY <1>1 DEF Recovered, Tracked, Active, Finished
<1>2. CASE ~(Current(t) = Nobody /\ marker[t] # Nobody /\ disk[marker[t]] \in Active)
  BY <1>2, RunsAre DEF Recovered, Tracked
<1> QED BY <1>1, <1>2

LEMMA QuietTracked ==
  ASSUME Kept, Tracked, NEW c \in Clients, NEW q, q.at # "launch",
         req' = [req EXCEPT ![c] = q], UNCHANGED runner
  PROVE  Tracked'
<1>1. \A d \in Clients : Launching(d)' => Launching(d) /\ Launched(d)' = Launched(d)
  BY DEF Kept, Launching, Launched
<1> QED BY <1>1 DEF Tracked, runner

LEMMA TakeTracked ==
  ASSUME Kept, Booked, Tracked,
         NEW c \in Clients, NEW r \in Runs, r.of = req[c].of, r.id \notin used[r.of], Take(c, r)
  PROVE  Tracked'
<1> DEFINE t == Owner[r.of]
<1>1. /\ r.of \in Jobs /\ r.id \in Numbers /\ t \in Tenants /\ r # Nobody
      /\ r = [of |-> r.of, id |-> r.id]
  BY RunsAre DEF Runs
<1>2. /\ used' = [used EXCEPT ![r.of] = @ \cup {r.id}] /\ mem' = [mem EXCEPT ![r] = "queued"]
      /\ registry' = [registry EXCEPT ![r.id] = r] /\ closing' = closing
  BY DEF Take
<1>3. marker' = [marker EXCEPT ![t] = r] \/ marker' = [marker EXCEPT ![t] = Nobody]
  BY DEF Take
<1>4. disk' = Recovered(t) \/ disk' = [Recovered(t) EXCEPT ![r] = "queued"]
  BY DEF Take
<1>5. \A j \in Jobs : used[j] \subseteq used'[j]
  BY <1>1, <1>2 DEF Kept
<1>6. \A s \in closing \cup stuck : s.id \in used[s.of] /\ s # r
  BY RunsAre DEF Tracked, Finished
<1>7. disk' \in [Runs -> {"none"} \cup Active \cup Finished]
  BY <1>1, <1>4, RecoveredIs DEF Active
<1>8. marker' = [u \in Tenants |-> marker'[u]]
  BY <1>3 DEF Tracked
<1>9. ASSUME NEW s \in Runs, mem'[s] # "none"
      PROVE  s.id \in used'[s.of] /\ registry'[s.id] # Nobody
  <2>1. s.of \in Jobs /\ s.id \in Numbers
    BY RunsAre
  <2>2. CASE s = r
    BY <2>2, <1>1, <1>2 DEF Kept, Booked
  <2>3. CASE s # r
    BY <2>1, <2>3, <1>1, <1>2, <1>5, <1>9 DEF Booked, Tracked
  <2> QED BY <2>2, <2>3
<1>10. ASSUME NEW s \in closing'
       PROVE  s \in Runs /\ mem'[s] \in Finished
  BY <1>2, <1>6, <1>10 DEF Booked, Tracked
<1>11. stuck' = stuck \/ (stuck' = stuck \cup {r} /\ req' = [req EXCEPT ![c] = Idle])
  BY DEF Take
<1>12. ASSUME NEW s \in stuck'
       PROVE  s.id \in used'[s.of]
  <2>1. CASE s = r
    BY <2>1, <1>1, <1>2 DEF Kept
  <2>2. CASE s # r
    <3>1. s \in stuck /\ s.id \in used[s.of]
      BY <2>2, <1>6, <1>11, <1>12
    <3> QED BY <3>1, <1>2 DEF Kept
  <2> QED BY <2>1, <2>2
<1>13. ASSUME NEW d \in Clients, Launching(d)'
       PROVE  Launched(d)' \notin stuck'
  <2>1. CASE d = c
    <3>1. req' = [req EXCEPT ![c] = [at |-> "launch", of |-> r.of, job |-> req[c].job, id |-> r.id]] /\ stuck' = stuck
      BY <2>1, <1>13 DEF Take, Launching, Kept, Idle
    <3>2. Launched(d)' = r
      BY <3>1, <2>1, <1>1 DEF Launched, Kept
    <3> QED BY <3>1, <3>2, <1>6
  <2>2. CASE d # c
    <3>1. Launching(d) /\ Launched(d)' = Launched(d)
      BY <2>2, <1>13 DEF Launching, Launched, Kept, Take
    <3>2. Launched(d) # r
      BY <3>1, LaunchedIs DEF Launching
    <3> QED BY <3>1, <3>2, <1>11 DEF Tracked
  <2> QED BY <2>1, <2>2
<1> QED BY <1>7, <1>8, <1>9, <1>10, <1>12, <1>13 DEF Tracked

LEMMA LaunchTracked ==
  ASSUME Kept, Booked, Tracked, NEW c \in Clients, Launch(c)
  PROVE  Tracked'
<1>1. PICK r \in Runs : r = Launched(c) /\ mem[r] = "queued" /\ r.id \in used[r.of]
  <2>1. Launching(c) /\ Launched(c) \in Runs
    BY LaunchedIs DEF Launch, Launching
  <2>2. Launched(c).id \in used[Launched(c).of]
    BY <2>1, LaunchedIs DEF Launching
  <2> QED BY <2>1, <2>2 DEF Booked
<1>2. /\ mem' = [mem EXCEPT ![r] = "running"] /\ UNCHANGED <<used, registry, marker, closing>>
      /\ disk' = disk \/ disk' = [disk EXCEPT ![r] = "running"]
      /\ stuck' \subseteq stuck \cup {r}
  BY <1>1 DEF Launch
<1>3. ASSUME NEW d \in Clients, Launching(d)'
      PROVE  Launching(d) /\ Launched(d)' = Launched(d) /\ Launched(d) # r
  BY <1>1, <1>3 DEF Launch, Launching, Launched, Kept, Booked, Idle
<1>4. disk' \in [Runs -> {"none"} \cup Active \cup Finished]
  BY <1>2 DEF Tracked, Active
<1>5. \A s \in Runs : mem'[s] # "none" => s.id \in used'[s.of] /\ registry'[s.id] # Nobody
  BY <1>1, <1>2 DEF Tracked, Booked
<1>6. \A s \in closing' : s \in Runs /\ mem'[s] \in Finished
  BY <1>1, <1>2 DEF Tracked, Booked, Finished
<1>7. \A s \in stuck' : s.id \in used'[s.of]
  BY <1>1, <1>2 DEF Tracked
<1>8. \A d \in Clients : Launching(d)' => Launched(d)' \notin stuck'
  BY <1>2, <1>3 DEF Tracked
<1> QED BY <1>2, <1>4, <1>5, <1>6, <1>7, <1>8 DEF Tracked

LEMMA CloseTracked ==
  ASSUME Kept, Booked, Tracked, NEW r \in Runs, NEW status \in Finished, Close(r, status),
         mem[r] \in Active, stuck' = stuck,
         \A d \in Clients : Launching(d)' => Launching(d) /\ req'[d] = req[d]
  PROVE  Tracked'
<1>1. /\ mem' = [mem EXCEPT ![r] = status] /\ UNCHANGED <<used, disk, registry>>
      /\ closing' = closing \cup {r}
      /\ marker' = marker \/ marker' = [marker EXCEPT ![Owner[r.of]] = Nobody]
  BY DEF Close, Free
<1>2. marker' = [t \in Tenants |-> marker'[t]]
  BY <1>1 DEF Tracked
<1>3. \A s \in Runs : mem'[s] # "none" => s.id \in used'[s.of] /\ registry'[s.id] # Nobody
  BY <1>1 DEF Tracked, Booked, Active
<1>4. \A s \in closing' : s \in Runs /\ mem'[s] \in Finished
  BY <1>1 DEF Tracked, Booked
<1>5. \A d \in Clients : Launching(d)' => Launched(d)' \notin stuck'
  BY DEF Tracked, Launched
<1> QED BY <1>1, <1>2, <1>3, <1>4, <1>5 DEF Tracked

LEMMA WriteEndTracked ==
  ASSUME Tracked, NEW r \in Runs, WriteEnd(r)
  PROVE  Tracked'
<1>1. /\ UNCHANGED <<used, mem, registry, marker, stuck, req>> /\ closing' = closing \ {r}
      /\ disk' = disk \/ disk' = [disk EXCEPT ![r] = mem[r]]
      /\ mem[r] \in Finished
  BY DEF WriteEnd, Tracked
<1>2. disk' \in [Runs -> {"none"} \cup Active \cup Finished]
  BY <1>1 DEF Tracked
<1> QED BY <1>1, <1>2 DEF Tracked, Launching, Launched

LEMMA NextTracked == Kept /\ Booked /\ Tracked /\ [Next]_vars => Tracked'
<1> SUFFICES ASSUME Kept, Booked, Tracked, [Next]_vars PROVE Tracked'
  OBVIOUS
<1>1. ASSUME NEW c \in Clients, NEW j \in Jobs,
             Edit(c, j) \/ StartRun(c, j) \/ AskStatus(c, j) \/ Cancel(c, j)
      PROVE  Tracked'
  <2>1. UNCHANGED runner
    BY <1>1 DEF Edit, StartRun, AskStatus, Cancel
  <2>2. \E q : q.at # "launch" /\ req' = [req EXCEPT ![c] = q]
    BY <1>1 DEF Edit, StartRun, AskStatus, Cancel, Begin
  <2> QED BY <2>1, <2>2, QuietTracked
<1>2. ASSUME NEW c \in Clients, Save(c) \/ Refuse(c) \/ Record(c) \/ Poll(c) \/ Stopped(c)
      PROVE  Tracked'
  <2>1. UNCHANGED runner /\ req' = [req EXCEPT ![c] = Idle]
    BY <1>2 DEF Save, Refuse, Record, Poll, Stopped
  <2> QED BY <2>1, QuietTracked DEF Idle
<1>3. ASSUME NEW c \in Clients, Reserve(c)
      PROVE  Tracked'
  BY <1>3, ReserveIs, TakeTracked
<1>4. ASSUME NEW c \in Clients, LaunchFails(c)
      PROVE  Tracked'
  <2>1. PICK r \in Runs : r = Launched(c) /\ mem[r] \in Active
    BY <1>4, LaunchedIs DEF LaunchFails, Booked, Launching, Active
  <2>2. Close(r, "error") /\ stuck' = stuck
    BY <1>4, <2>1 DEF LaunchFails
  <2>3. \A d \in Clients : Launching(d)' => Launching(d) /\ req'[d] = req[d]
    BY <1>4 DEF LaunchFails, Launching, Kept, Idle
  <2> QED BY <2>1, <2>2, <2>3, CloseTracked DEF Finished
<1>5. ASSUME NEW r \in Runs, Finish(r)
      PROVE  Tracked'
  <2>1. PICK status \in Finished : Close(r, status)
    BY <1>5 DEF Finish
  <2>2. mem[r] \in Active /\ stuck' = stuck /\ req' = req
    BY <1>5 DEF Finish, Active
  <2>3. \A d \in Clients : Launching(d)' => Launching(d) /\ req'[d] = req[d]
    BY <2>2 DEF Launching
  <2> QED BY <2>1, <2>2, <2>3, CloseTracked
<1>6. ASSUME Restart
      PROVE  Tracked'
  BY <1>6 DEF Restart, Tracked, Launching, Idle
<1>7. ASSUME UNCHANGED vars
      PROVE  Tracked'
  BY <1>7 DEF vars, runner, Tracked, Launching, Launched
<1> QED
  BY <1>1, <1>2, <1>3, <1>4, <1>5, <1>6, <1>7, LaunchTracked, WriteEndTracked DEF Next, Go

-----------------------------------------------------------------------------
(* Marker, slot and run.json                                               *)

\* The steps that leave the runner alone.
LEMMA QuietMarked ==
  ASSUME Marked, UNCHANGED runner
  PROVE  Marked'
<1>1. (IdsApart' = IdsApart) /\ (SlotLive' = SlotLive)
  BY DEF runner, IdsApart, SlotLive
<1>2. \A r \in Runs : (MarkerLive(r)' = MarkerLive(r)) /\ (EndsWritten(r)' = EndsWritten(r))
  BY DEF runner, MarkerLive, EndsWritten
<1> QED BY <1>1, <1>2 DEF Marked, runner

\* A free slot is empty.
LEMMA SlotEmpty ==
  ASSUME Booked, Marked, IdsApart, NEW t \in Tenants, ~IsActive(Current(t))
  PROVE  slot[t] = 0 /\ Current(t) = Nobody
<1> SUFFICES ASSUME slot[t] # 0 PROVE FALSE
  BY DEF Current
<1>1. PICK r \in Runs : Owner[r.of] = t /\ r.id = slot[t] /\ mem[r] \in Active
  BY DEF Marked, SlotLive
<1>2. registry[slot[t]] = r
  BY <1>1 DEF Booked, Holds
<1> QED BY <1>1, <1>2, RunsAre DEF Current, IsActive

LEMMA TakeMarked ==
  ASSUME Kept, Booked, Tracked, Marked, IdsApart' => IdsApart,
         NEW c \in Clients, NEW r \in Runs, r.of = req[c].of, r.id \notin used[r.of], Take(c, r)
  PROVE  Marked'
<1> SUFFICES ASSUME IdsApart'
             PROVE  /\ SlotLive'
                    /\ \A s \in Runs : mem'[s] \in Active => MarkerLive(s)'
                    /\ \A s \in Runs : disk'[s] \in Active => EndsWritten(s)'
  BY DEF Marked
<1> DEFINE t == Owner[r.of]
<1>1. t \in Tenants /\ r.of \in Jobs /\ r.id \in Numbers /\ r # Nobody
  BY RunsAre
<1>2. /\ mem' = [mem EXCEPT ![r] = "queued"] /\ slot' = [slot EXCEPT ![t] = r.id]
      /\ UNCHANGED <<closing, torn>> /\ ~IsActive(Current(t))
      /\ used' = [used EXCEPT ![r.of] = @ \cup {r.id}]
  BY DEF Take
<1>3. \/ /\ marker' = [marker EXCEPT ![t] = r] /\ stuck' = stuck
         /\ disk' = [Recovered(t) EXCEPT ![r] = "queued"]
      \/ /\ marker' = [marker EXCEPT ![t] = r] \/ marker' = [marker EXCEPT ![t] = Nobody]
         /\ stuck' = stuck \cup {r} /\ disk' = Recovered(t)
  BY DEF Take
<1>4. IdsApart /\ Current(t) = Nobody
  BY <1>1, <1>2, SlotEmpty
<1>5. \A s \in Runs : Owner[s.of] = t => mem[s] \notin Active
  BY <1>2, <1>4, FreeSlot
<1>6. SlotLive'
  <2> SUFFICES ASSUME NEW u \in Tenants, slot'[u] # 0
               PROVE  \E s \in Runs : Owner[s.of] = u /\ s.id = slot'[u] /\ mem'[s] \in Active
    BY DEF SlotLive
  <2>1. CASE u = t
    BY <2>1, <1>1, <1>2 DEF Booked, Active
  <2>2. CASE u # t
    <3>1. slot'[u] = slot[u]
      BY <2>2, <1>2 DEF Booked
    <3>2. PICK s \in Runs : Owner[s.of] = u /\ s.id = slot[u] /\ mem[s] \in Active
      BY <3>1, <1>4 DEF Marked, SlotLive
    <3>3. mem'[s] \in Active
      BY <2>2, <3>2, <1>2 DEF Booked
    <3> QED BY <3>1, <3>2, <3>3
  <2> QED BY <2>1, <2>2
<1>7. ASSUME NEW s \in Runs, mem'[s] \in Active
      PROVE  MarkerLive(s)'
  <2>1. CASE s = r
    BY <2>1, <1>1, <1>3 DEF MarkerLive, Tracked
  <2>2. CASE s # r
    <3>1. mem[s] \in Active /\ Owner[s.of] # t
      BY <2>2, <1>2, <1>5, <1>7 DEF Booked
    <3>2. MarkerLive(s)
      BY <3>1, <1>4 DEF Marked
    <3>3. marker'[Owner[s.of]] = marker[Owner[s.of]] /\ (s \in stuck => s \in stuck')
      BY <3>1, <1>3, RunsAre DEF Tracked
    <3> QED BY <3>2, <3>3 DEF MarkerLive
  <2> QED BY <2>1, <2>2
<1>8. ASSUME NEW s \in Runs, disk'[s] \in Active
      PROVE  EndsWritten(s)'
  <2>1. CASE s = r /\ marker' = [marker EXCEPT ![t] = r]
    BY <2>1, <1>1 DEF EndsWritten, Tracked
  <2>2. CASE ~(s = r /\ marker' = [marker EXCEPT ![t] = r])
    <3>1. disk'[s] = Recovered(t)[s]
      <4>1. CASE disk' = Recovered(t)
        BY <4>1
      <4>2. CASE disk' = [Recovered(t) EXCEPT ![r] = "queued"] /\ s # r
        BY <4>2, <1>1, RecoveredIs
      <4> QED BY <4>1, <4>2, <1>3, <2>2
    <3>2. disk[s] \in Active /\ s # marker[t]
      <4>1. Recovered(t)[s] \in Active
        BY <3>1, <1>8
      <4>2. s # marker[t]
        BY <4>1, <1>1, <1>4, RecoveredIs
      <4> QED BY <4>1, <4>2, <1>1, RecoveredIs
    <3>3. EndsWritten(s)
      BY <3>2, <1>4 DEF Marked
    <3>4. CASE marker[Owner[s.of]] = s
      <4>1. Owner[s.of] # t
        BY <3>2, <3>4
      <4>2. marker'[Owner[s.of]] = marker[Owner[s.of]]
        BY <4>1, <1>3, RunsAre DEF Tracked
      <4> QED BY <3>4, <4>2 DEF EndsWritten
    <3>5. CASE s \in closing \/ s \in torn
      BY <3>5, <1>2 DEF EndsWritten
    <3> QED BY <3>3, <3>4, <3>5 DEF EndsWritten
  <2> QED BY <2>1, <2>2
<1> QED BY <1>6, <1>7, <1>8

LEMMA LaunchMarked ==
  ASSUME Kept, Booked, Tracked, Marked, NEW c \in Clients, Launch(c)
  PROVE  Marked'
<1>1. PICK r \in Runs : r = Launched(c) /\ mem[r] = "queued" /\ r \notin stuck
  BY LaunchedIs DEF Launch, Booked, Launching, Tracked
<1>2. /\ mem' = [mem EXCEPT ![r] = "running"] /\ UNCHANGED <<used, slot, marker, closing, torn>>
      /\ disk' = disk \/ disk' = [disk EXCEPT ![r] = "running"]
      /\ stuck \subseteq stuck'
  BY <1>1 DEF Launch
<1> SUFFICES ASSUME IdsApart
             PROVE  /\ SlotLive'
                    /\ \A s \in Runs : mem'[s] \in Active => MarkerLive(s)'
                    /\ \A s \in Runs : disk'[s] \in Active => EndsWritten(s)'
  BY <1>2 DEF Marked, IdsApart
<1>3. \A s \in Runs : (mem'[s] \in Active) <=> (mem[s] \in Active)
  BY <1>1, <1>2 DEF Booked, Active
<1>4. SlotLive'
  BY <1>2, <1>3 DEF Marked, SlotLive
<1>5. ASSUME NEW s \in Runs, mem'[s] \in Active
      PROVE  MarkerLive(s)'
  BY <1>2, <1>3, <1>5 DEF Marked, MarkerLive
<1>6. ASSUME NEW s \in Runs, disk'[s] \in Active
      PROVE  EndsWritten(s)'
  <2>1. CASE s = r
    BY <2>1, <1>1, <1>2 DEF Marked, MarkerLive, EndsWritten, Active
  <2>2. CASE s # r
    <3>1. disk[s] \in Active
      BY <2>2, <1>2, <1>6 DEF Tracked
    <3> QED BY <3>1, <1>2 DEF Marked, EndsWritten
  <2> QED BY <2>1, <2>2
<1> QED BY <1>4, <1>5, <1>6

\* The end of the active run r: its slot and its marker go, and its end is to be written.
LEMMA CloseMarked ==
  ASSUME Kept, Booked, Tracked, Marked, NEW r \in Runs, NEW status \in Finished,
         Close(r, status), mem[r] \in Active, stuck' = stuck
  PROVE  Marked'
<1> DEFINE t == Owner[r.of]
<1>1. /\ mem' = [mem EXCEPT ![r] = status] /\ UNCHANGED <<used, disk, torn>>
      /\ closing' = closing \cup {r}
      /\ slot' = IF slot[t] = r.id THEN [slot EXCEPT ![t] = 0] ELSE slot
      /\ marker' = IF marker[t].id = r.id THEN [marker EXCEPT ![t] = Nobody] ELSE marker
  BY DEF Close, Free
<1> SUFFICES ASSUME IdsApart
             PROVE  /\ SlotLive'
                    /\ \A s \in Runs : mem'[s] \in Active => MarkerLive(s)'
                    /\ \A s \in Runs : disk'[s] \in Active => EndsWritten(s)'
  BY <1>1 DEF Marked, IdsApart
<1>2. slot[t] = r.id /\ MarkerLive(r) /\ status \notin Active /\ t \in Tenants
  BY RunsAre DEF Booked, Holds, Marked, Active, Finished
<1>3. \A u \in Tenants : slot'[u] = IF u = t THEN 0 ELSE slot[u]
  BY <1>1, <1>2 DEF Booked
<1>4. \A u \in Tenants : marker'[u] = IF u = t /\ marker[t] = r THEN Nobody ELSE marker[u]
  BY <1>1, <1>2, RunsAre DEF Tracked, MarkerLive, Nobody
<1>5. \A s \in Runs : mem'[s] \in Active => s # r /\ mem[s] \in Active
  BY <1>1, <1>2 DEF Booked
<1>6. \A s \in Runs : mem[s] \in Active /\ Owner[s.of] = t => s = r
  BY BookedImplies DEF OneRunPerTenant
<1>7. SlotLive'
  <2> SUFFICES ASSUME NEW u \in Tenants, slot'[u] # 0
               PROVE  \E s \in Runs : Owner[s.of] = u /\ s.id = slot'[u] /\ mem'[s] \in Active
    BY DEF SlotLive
  <2>1. u # t /\ slot'[u] = slot[u]
    BY <1>3
  <2>2. PICK s \in Runs : Owner[s.of] = u /\ s.id = slot[u] /\ mem[s] \in Active
    BY <2>1 DEF Marked, SlotLive
  <2>3. mem'[s] \in Active
    BY <2>1, <2>2, <1>1 DEF Booked
  <2> QED BY <2>1, <2>2, <2>3
<1>8. ASSUME NEW s \in Runs, mem'[s] \in Active
      PROVE  MarkerLive(s)'
  <2>1. MarkerLive(s) /\ Owner[s.of] # t
    BY <1>5, <1>6, <1>8 DEF Marked
  <2>2. marker'[Owner[s.of]] = marker[Owner[s.of]]
    BY <2>1, <1>4, RunsAre
  <2> QED BY <2>1, <2>2 DEF MarkerLive
<1>9. ASSUME NEW s \in Runs, disk'[s] \in Active
      PROVE  EndsWritten(s)'
  <2>1. EndsWritten(s)
    BY <1>1, <1>9 DEF Marked
  <2>2. CASE s = r
    BY <2>2, <1>1 DEF EndsWritten
  <2>3. CASE s # r
    <3>1. marker[Owner[s.of]] = s => marker'[Owner[s.of]] = s
      BY <2>3, <1>4, RunsAre
    <3> QED BY <2>1, <3>1, <1>1 DEF EndsWritten
  <2> QED BY <2>2, <2>3
<1> QED BY <1>7, <1>8, <1>9

LEMMA WriteEndMarked ==
  ASSUME Booked, Tracked, Marked, NEW r \in Runs, WriteEnd(r)
  PROVE  Marked'
<1>1. /\ UNCHANGED <<used, mem, slot, marker, stuck>> /\ closing' = closing \ {r}
      /\ \/ disk' = [disk EXCEPT ![r] = mem[r]] /\ torn' = torn
         \/ disk' = disk /\ torn' = torn \cup {r}
      /\ mem[r] \in Finished
  BY DEF WriteEnd, Tracked
<1>2. (IdsApart' = IdsApart) /\ (SlotLive' = SlotLive)
  BY <1>1 DEF IdsApart, SlotLive
<1>3. \A s \in Runs : MarkerLive(s)' = MarkerLive(s)
  BY <1>1 DEF MarkerLive
<1>4. ASSUME IdsApart, NEW s \in Runs, disk'[s] \in Active
      PROVE  EndsWritten(s)'
  <2>1. CASE s = r
    <3>1. disk' = disk /\ torn' = torn \cup {r}
      BY <2>1, <1>1, <1>4 DEF Tracked, Active, Finished
    <3> QED BY <2>1, <3>1 DEF EndsWritten
  <2>2. CASE s # r
    <3>1. disk[s] \in Active
      BY <2>2, <1>1, <1>4 DEF Tracked
    <3>2. EndsWritten(s)
      BY <3>1, <1>4 DEF Marked
    <3> QED BY <2>2, <3>2, <1>1 DEF EndsWritten
  <2> QED BY <2>1, <2>2
<1> QED BY <1>1, <1>2, <1>3, <1>4 DEF Marked

\* A restart forgets the runs in memory, and loses the ends that were to be written.
LEMMA RestartMarked ==
  ASSUME Marked, Restart
  PROVE  Marked'
<1>1. /\ mem' = [r \in Runs |-> "none"] /\ slot' = [t \in Tenants |-> 0]
      /\ torn' = torn \cup closing /\ UNCHANGED <<used, disk, marker>>
  BY DEF Restart
<1>2. (IdsApart' = IdsApart) /\ SlotLive'
  BY <1>1 DEF IdsApart, SlotLive
<1>3. \A r \in Runs : mem'[r] \notin Active
  BY <1>1 DEF Active
<1>4. \A r \in Runs : EndsWritten(r) => EndsWritten(r)'
  BY <1>1 DEF EndsWritten
<1> QED BY <1>1, <1>2, <1>3, <1>4 DEF Marked

LEMMA NextMarked == Kept /\ Booked /\ Tracked /\ Marked /\ [Next]_vars => Marked'
<1> SUFFICES ASSUME Kept, Booked, Tracked, Marked, [Next]_vars PROVE Marked'
  OBVIOUS
<1>1. ASSUME NEW c \in Clients, NEW j \in Jobs,
             Edit(c, j) \/ StartRun(c, j) \/ AskStatus(c, j) \/ Cancel(c, j)
      PROVE  Marked'
  BY <1>1, QuietMarked DEF Edit, StartRun, AskStatus, Cancel
<1>2. ASSUME NEW c \in Clients, Save(c) \/ Refuse(c) \/ Record(c) \/ Poll(c) \/ Stopped(c)
      PROVE  Marked'
  BY <1>2, QuietMarked DEF Save, Refuse, Record, Poll, Stopped
<1>3. ASSUME NEW c \in Clients, Reserve(c), Next
      PROVE  Marked'
  BY <1>3, ApartStays, ReserveIs, TakeMarked
<1>4. ASSUME NEW c \in Clients, LaunchFails(c)
      PROVE  Marked'
  <2>1. PICK r \in Runs : r = Launched(c) /\ mem[r] \in Active
    BY <1>4, LaunchedIs DEF LaunchFails, Booked, Launching, Active
  <2>2. Close(r, "error") /\ stuck' = stuck
    BY <1>4, <2>1 DEF LaunchFails
  <2> QED BY <2>1, <2>2, CloseMarked DEF Finished
<1>5. ASSUME NEW r \in Runs, Finish(r)
      PROVE  Marked'
  <2>1. PICK status \in Finished : Close(r, status)
    BY <1>5 DEF Finish
  <2>2. mem[r] \in Active /\ stuck' = stuck
    BY <1>5 DEF Finish, Active
  <2> QED BY <2>1, <2>2, CloseMarked
<1>6. ASSUME UNCHANGED vars
      PROVE  Marked'
  BY <1>6, QuietMarked DEF vars
<1> QED
  BY <1>1, <1>2, <1>3, <1>4, <1>5, <1>6, LaunchMarked, WriteEndMarked, RestartMarked
     DEF Next, Go

-----------------------------------------------------------------------------
(* The runs that a list shows have a run.json                              *)

\* No step removes a run.json.
LEMMA DiskStays ==
  ASSUME Kept, Tracked, Next, NEW r \in Runs, disk[r] # "none"
  PROVE  disk'[r] # "none"
<1>1. CASE \E c \in Clients : Reserve(c)
  <2>1. PICK c \in Clients, s \in Runs : Take(c, s)
    BY <1>1, ReserveIs
  <2>2. Owner[s.of] \in Tenants
    BY RunsAre
  <2>3. disk' = Recovered(Owner[s.of]) \/ disk' = [Recovered(Owner[s.of]) EXCEPT ![s] = "queued"]
    BY <2>1 DEF Take
  <2> QED BY <2>2, <2>3, RecoveredIs
<1>2. CASE \E c \in Clients : Launch(c)
  BY <1>2 DEF Launch, Tracked
<1>3. CASE \E s \in Runs : WriteEnd(s)
  BY <1>3 DEF WriteEnd, Tracked, Finished
<1>4. CASE disk' = disk
  BY <1>4
<1>5. \/ disk' = disk
      \/ \E c \in Clients : Reserve(c) \/ Launch(c)
      \/ \E s \in Runs : WriteEnd(s)
  BY DEF Next, Go, Save, Refuse, LaunchFails, Record, Poll, Stopped, Edit, StartRun,
         AskStatus, Cancel, Finish, Close, Restart, runner
<1> QED BY <1>1, <1>2, <1>3, <1>4, <1>5

LEMMA StoredStays ==
  ASSUME Kept, Tracked, Next, NEW j \in Jobs, NEW job, Held(job, j), Stored(job, j)
  PROVE  \A id \in Listed(job) : disk'[[of |-> j, id |-> id]] # "none"
<1> SUFFICES ASSUME NEW id \in Listed(job)
             PROVE  disk'[[of |-> j, id |-> id]] # "none"
  OBVIOUS
<1>1. id \in Numbers
  BY DEF Held, Kept
<1>2. [of |-> j, id |-> id] \in Runs
  BY <1>1 DEF Runs
<1> QED BY <1>2, DiskStays DEF Stored

\* What a request that goes on holds, or what it writes: a job of the same runs and one more.
Later(job, j) == \A id \in Listed(job) : disk'[[of |-> j, id |-> id]] # "none"

LEMMA StepFiled ==
  ASSUME Kept, Tracked, Filed, Next, NEW c \in Clients, NEW q,
         req' = [req EXCEPT ![c] = q],
         q = Idle \/ (/\ Later(q.job, q.of)
                      /\ q.at = "record" => disk'[[of |-> q.of, id |-> q.id]] # "none"),
         \A j \in Jobs : Later(file'[j], j)
  PROVE  Filed'
<1>1. ASSUME NEW d \in Clients, req'[d] # Idle
      PROVE  Stored(req[d].job, req[d].of)'
  <2>1. CASE d = c
    BY <2>1, <1>1 DEF Kept, Later, Stored
  <2>2. CASE d # c
    <3>1. req'[d] = req[d] /\ InHand(req[d]) /\ Stored(req[d].job, req[d].of)
      BY <2>2, <1>1 DEF Kept, Filed
    <3>2. \A id \in Listed(req[d].job) : disk'[[of |-> req[d].of, id |-> id]] # "none"
      BY <3>1, StoredStays DEF InHand
    <3> QED BY <3>1, <3>2 DEF Stored
  <2> QED BY <2>1, <2>2
<1>2. ASSUME NEW d \in Clients, req'[d].at = "record"
      PROVE  disk'[Launched(d)'] # "none"
  <2>1. CASE d = c
    <3>1. req'[d] = q
      BY <2>1 DEF Kept
    <3> QED BY <3>1, <1>2 DEF Launched, Idle
  <2>2. CASE d # c
    <3>1. req'[d] = req[d] /\ Launched(d)' = Launched(d)
      BY <2>2 DEF Kept, Launched
    <3>2. Launched(d) \in Runs /\ disk[Launched(d)] # "none"
      BY <3>1, <1>2, LaunchedIs DEF Filed
    <3> QED BY <3>1, <3>2, DiskStays
  <2> QED BY <2>1, <2>2
<1>3. \A j \in Jobs : Stored(file[j], j)'
  BY DEF Later, Stored
<1> QED BY <1>1, <1>2, <1>3 DEF Filed

\* The files stay.
LEMMA FilesLater ==
  ASSUME Kept, Tracked, Filed, Next
  PROVE  \A j \in Jobs : Later(file[j], j)
BY StoredStays DEF Kept, Filed, Later

\* The copy of a request stays.
LEMMA CopyLater ==
  ASSUME Kept, Tracked, Filed, Next, NEW c \in Clients, req[c] # Idle
  PROVE  req[c].of \in Jobs /\ Later(req[c].job, req[c].of)
BY StoredStays DEF Kept, Filed, Later, InHand

\* A request that ends, with the file as it was or a job of the runs of its copy and its own.
LEMMA EndFiled ==
  ASSUME Kept, Tracked, Filed, Next, NEW c \in Clients, req[c] # Idle, NEW job,
         req' = [req EXCEPT ![c] = Idle],
         \/ file' = file
         \/ /\ file' = [file EXCEPT ![req[c].of] = job]
            /\ \A id \in Listed(job) : \/ id \in Listed(req[c].job)
                                       \/ disk'[[of |-> req[c].of, id |-> id]] # "none"
  PROVE  Filed'
<1>1. \A j \in Jobs : Later(file'[j], j)
  BY FilesLater, CopyLater DEF Kept, Later
<1> QED BY <1>1, StepFiled

LEMMA NextFiled == Kept /\ Tracked /\ Filed /\ [Next]_vars => Filed'
<1> SUFFICES ASSUME Kept, Tracked, Filed, [Next]_vars PROVE Filed'
  OBVIOUS
<1>1. ASSUME NEW c \in Clients, NEW j \in Jobs, Next,
             Edit(c, j) \/ StartRun(c, j) \/ AskStatus(c, j) \/ Cancel(c, j)
      PROVE  Filed'
  <2>1. \E q : /\ Begin(c, q) /\ q.of = j /\ q.at # "record"
               /\ q.job = file[j] \/ q.job \in Forward(file[j]) \/ q.job \in Back(file[j])
    <3>1. CASE Edit(c, j)
      <4>1. PICK job \in Forward(file[j]) \cup Back(file[j]) :
                Begin(c, [at |-> "save", of |-> j, job |-> job])
        BY <3>1 DEF Edit
      <4> QED BY <4>1
    <3>2. CASE StartRun(c, j)
      BY <3>2 DEF StartRun
    <3>3. CASE AskStatus(c, j)
      BY <3>3 DEF AskStatus
    <3>4. CASE Cancel(c, j)
      BY <3>4 DEF Cancel
    <3> QED BY <1>1, <3>1, <3>2, <3>3, <3>4
  <2> PICK q : /\ Begin(c, q) /\ q.of = j /\ q.at # "record"
               /\ q.job = file[j] \/ q.job \in Forward(file[j]) \/ q.job \in Back(file[j])
    BY <2>1
  <2>2. Listed(q.job) = Listed(file[j])
    BY ForwardSound, BackSound DEF Kept, Held
  <2>3. \A i \in Jobs : Later(file'[i], i)
    BY <1>1, FilesLater DEF Edit, StartRun, AskStatus, Cancel
  <2>4. Later(q.job, q.of)
    BY <1>1, <2>2, FilesLater DEF Later
  <2> QED BY <1>1, <2>3, <2>4, StepFiled DEF Begin
<1>2. ASSUME NEW c \in Clients, Save(c) \/ Refuse(c) \/ LaunchFails(c), Next
      PROVE  Filed'
  <2>1. req[c] # Idle /\ req' = [req EXCEPT ![c] = Idle]
    BY <1>2 DEF Save, Refuse, LaunchFails, Idle
  <2>2. file' = file \/ file' = [file EXCEPT ![req[c].of] = req[c].job]
    BY <1>2 DEF Save, Refuse, LaunchFails
  <2> QED BY <1>2, <2>1, <2>2, EndFiled
<1>3. ASSUME NEW c \in Clients, req[c].at \in {"record", "poll", "stopping"}, Next, NEW job,
             req' = [req EXCEPT ![c] = Idle], file' = file \/ file' = [file EXCEPT ![req[c].of] = job],
             Listed(job) = Listed(req[c].job) \cup {req[c].id}
      PROVE  Filed'
  <2>1. req[c] # Idle /\ Launched(c) \in Runs /\ Launched(c) = [of |-> req[c].of, id |-> req[c].id]
    BY <1>3, LaunchedIs DEF Idle
  <2>2. req[c].at # "record" => req[c].id \in Listed(req[c].job)
    BY <1>3, <2>1 DEF Kept, InHand
  <2>3. req[c].at = "record" => disk'[[of |-> req[c].of, id |-> req[c].id]] # "none"
    BY <1>3, <2>1, DiskStays DEF Filed
  <2> QED BY <1>3, <2>1, <2>2, <2>3, EndFiled
<1>4. ASSUME NEW c \in Clients, Record(c), Next
      PROVE  Filed'
  <2>1. PICK job : job = WithRun(req[c].job, req[c].id, Status(Launched(c)))
    OBVIOUS
  <2>2. IsJob(req[c].job)
    BY <1>4 DEF Record, Kept, InHand, Held, Sound, Idle
  <2>3. Listed(job) = Listed(req[c].job) \cup {req[c].id}
    BY <2>1, <2>2, WithRunIs
  <2> QED BY <1>4, <2>1, <2>3, <1>3 DEF Record
<1>5. ASSUME NEW c \in Clients, Poll(c) \/ Stopped(c), Next
      PROVE  Filed'
  <2>1. PICK job : job = Settled(c, Status(Launched(c)))
    OBVIOUS
  <2>2. Sound(req[c].job)
    BY <1>5 DEF Poll, Stopped, Kept, InHand, Held, Idle
  <2>3. Listed(job) = Listed(req[c].job) \cup {req[c].id}
    BY <2>1, <2>2, SettledList DEF Settled
  <2>4. req[c].at \in {"poll", "stopping"} /\ req' = [req EXCEPT ![c] = Idle]
    BY <1>5 DEF Poll, Stopped
  <2>5. file' = file \/ file' = [file EXCEPT ![req[c].of] = job]
    BY <1>5, <2>1 DEF Poll, Stopped
  <2> QED BY <1>5, <2>3, <2>4, <2>5, <1>3
<1>6. ASSUME NEW c \in Clients, Reserve(c), Next
      PROVE  Filed'
  <2>1. PICK r \in Runs : r.of = req[c].of /\ Take(c, r)
    BY <1>6, ReserveIs
  <2>2. req[c] # Idle /\ Later(req[c].job, req[c].of) /\ file' = file
    BY <1>6, <2>1, CopyLater DEF Reserve, Take, Idle
  <2>3. \A j \in Jobs : Later(file'[j], j)
    BY <1>6, <2>2, FilesLater
  <2>4. PICK q : /\ req' = [req EXCEPT ![c] = q]
                 /\ q = Idle \/ (q.at # "record" /\ q.job = req[c].job /\ q.of = req[c].of)
    BY <2>1 DEF Take
  <2> QED BY <1>6, <2>2, <2>3, <2>4, StepFiled
<1>7. ASSUME NEW c \in Clients, Launch(c), Next
      PROVE  Filed'
  <2>1. /\ req[c] # Idle /\ req[c].at = "launch" /\ file' = file
        /\ Launched(c) \in Runs /\ Launched(c) = [of |-> req[c].of, id |-> req[c].id]
    BY <1>7, LaunchedIs DEF Launch, Idle
  <2>2. Later(req[c].job, req[c].of) /\ \A j \in Jobs : Later(file'[j], j)
    BY <1>7, <2>1, FilesLater, CopyLater
  <2>3. PICK q : /\ req' = [req EXCEPT ![c] = q]
                 /\ \/ q = Idle
                    \/ /\ q = [at |-> "record", of |-> req[c].of, job |-> req[c].job, id |-> req[c].id]
                       /\ disk' = [disk EXCEPT ![Launched(c)] = "running"]
    BY <1>7 DEF Launch
  <2>4. q = Idle \/ (/\ Later(q.job, q.of)
                     /\ q.at = "record" => disk'[[of |-> q.of, id |-> q.id]] # "none")
    BY <2>1, <2>2, <2>3 DEF Tracked
  <2> QED BY <1>7, <2>2, <2>3, <2>4, StepFiled
<1>8. ASSUME req' = req \/ req' = [c \in Clients |-> Idle], file' = file, Next
      PROVE  Filed'
  <2>1. \A j \in Jobs : Stored(file[j], j)'
    BY <1>8, FilesLater DEF Later, Stored
  <2>2. ASSUME NEW c \in Clients, req'[c] # Idle
        PROVE  Stored(req[c].job, req[c].of)' /\ (req'[c].at = "record" => disk'[Launched(c)'] # "none")
    <3>1. req' = req /\ req[c] # Idle
      BY <1>8, <2>2
    <3>2. Later(req[c].job, req[c].of)
      BY <1>8, <3>1, CopyLater
    <3>3. req[c].at = "record" => disk'[Launched(c)] # "none"
      BY <1>8, <3>1, LaunchedIs, DiskStays DEF Filed
    <3> QED BY <3>1, <3>2, <3>3 DEF Later, Stored, Launched
  <2> QED BY <2>1, <2>2 DEF Filed, Idle
<1>9. ASSUME NEW r \in Runs, Finish(r) \/ WriteEnd(r), Next
      PROVE  Filed'
  BY <1>8, <1>9 DEF Finish, WriteEnd
<1>10. ASSUME Restart, Next
       PROVE  Filed'
  BY <1>8, <1>10 DEF Restart
<1>11. ASSUME UNCHANGED vars
       PROVE  Filed'
  BY <1>11 DEF vars, runner, Filed, Stored, Launched
<1> QED
  BY <1>1, <1>2, <1>4, <1>5, <1>6, <1>7, <1>9, <1>10, <1>11 DEF Next, Go

LEMMA MarkedImplies == Kept /\ Tracked /\ Marked /\ Filed => RunningCanSettle
<1> SUFFICES ASSUME Kept, Tracked, Marked, Filed, IdsApart, NEW j \in Jobs, NEW id \in Listed(file[j]),
                    NEW r, r = [of |-> j, id |-> id]
             PROVE  registry[r.id] # Nobody \/ disk[r] \in Finished \/ marker[Owner[j]] = r \/ r \in torn
  BY DEF RunningCanSettle
<1>1. id \in Numbers
  BY DEF Kept, Held
<1>2. r \in Runs
  BY <1>1 DEF Runs
<1>3. disk[r] \in Active \cup Finished
  BY <1>2 DEF Filed, Stored, Tracked
<1>4. CASE disk[r] \in Active
  <2>1. EndsWritten(r)
    BY <1>2, <1>4 DEF Marked
  <2>2. r \in closing => mem[r] # "none"
    BY DEF Tracked, Finished
  <2> QED BY <1>2, <2>1, <2>2 DEF EndsWritten, Tracked
<1> QED BY <1>3, <1>4

(***************************************************************************)
(* For all tenants, jobs, clients and faults: a run that a job's list      *)
(* shows as active is known to the process, or has its end in run.json, or *)
(* holds the marker that recover_stale reads, unless its end was lost or   *)
(* another tenant got its id. The marker goes only with the slot, when the *)
(* run ends, or when recover_stale has written that it ended.              *)
(***************************************************************************)
THEOREM RunsCanSettle == Spec => []RunningCanSettle
BY InitKept, NextKept, InitBooked, NextBooked, InitTracked, NextTracked, NextMarked, NextFiled,
   MarkedImplies, PTL DEF Spec

-----------------------------------------------------------------------------
(* Accounts: the store and its sessions.                                   *)

\* What the foreign keys give: memberships are of users and tenants that
\* exist, and a live session is somebody's.
References ==
  /\ \A u \in Users, t \in TenantIds : Member(u, t) => u \in users /\ t \in tenants
  /\ \A s \in Sessions : session[s].live => session[s].user \in Users

AccountsInv == AccountsTypeOK /\ References /\ SessionsAreMembers /\ DeactivatedIsOut

-----------------------------------------------------------------------------
(* Sessions after the operations that change many of them.                 *)

\* Ending the sessions of a user (update_user, set_user_active, passwords)
\* changes nothing about them but that they no longer live.
LEMMA SignedOutKeeps ==
  ASSUME AccountsTypeOK, NEW u \in Users
  PROVE  /\ SignedOut(u) \in [Sessions -> Row]
         /\ \A s \in Sessions : /\ SignedOut(u)[s].user = session[s].user
                                /\ SignedOut(u)[s].tenant = session[s].tenant
                                /\ SignedOut(u)[s].late = session[s].late
                                /\ SignedOut(u)[s].live <=> session[s].live /\ session[s].user # u
BY DEF AccountsTypeOK, SignedOut, Of, Row

\* Undoing the choice of a tenant changes nothing but that choice.
LEMMA UnchosenKeeps ==
  ASSUME AccountsTypeOK, NEW P \in [Sessions -> BOOLEAN]
  PROVE  /\ Unchosen(P) \in [Sessions -> Row]
         /\ \A s \in Sessions : /\ Unchosen(P)[s].user = session[s].user
                                /\ Unchosen(P)[s].live = session[s].live
                                /\ Unchosen(P)[s].late = session[s].late
                                /\ Unchosen(P)[s].tenant = IF P[s] THEN "none" ELSE session[s].tenant
BY DEF AccountsTypeOK, Unchosen, Row

-----------------------------------------------------------------------------

LEMMA InitInv == InitAccounts => AccountsInv
<1> SUFFICES ASSUME InitAccounts PROVE AccountsInv OBVIOUS
<1>1. PICK u \in Users, t \in TenantIds :
        /\ users = {u}
        /\ tenants = {t}
        /\ role = [v \in Users |-> IF v = u THEN [Nowhere EXCEPT ![t] = "admin"] ELSE Nowhere]
  BY DEF InitAccounts
<1>2. AccountsTypeOK
  BY <1>1, NoneIsNobody DEF InitAccounts, AccountsTypeOK, Nowhere, Roles, Row, NoSession
<1>3. References BY <1>1 DEF InitAccounts, References, Member, Nowhere, NoSession
<1>4. SessionsAreMembers /\ DeactivatedIsOut
  BY DEF InitAccounts, SessionsAreMembers, DeactivatedIsOut, NoSession
<1> QED BY <1>2, <1>3, <1>4 DEF AccountsInv

LEMMA CreateTenantInv == ASSUME AccountsInv, NEW t \in TenantIds, CreateTenant(t) PROVE AccountsInv'
BY DEF AccountsInv, CreateTenant, AccountsTypeOK, References, Member, SessionsAreMembers,
   DeactivatedIsOut

LEMMA DeleteTenantInv == ASSUME AccountsInv, NEW t \in TenantIds, DeleteTenant(t) PROVE AccountsInv'
<1> DEFINE P == [s \in Sessions |-> session[s].tenant = t]
<1>1. /\ P \in [Sessions -> BOOLEAN]
      /\ session' = Unchosen(P)
      /\ \A s \in Sessions : P[s] <=> session[s].tenant = t
  BY DEF DeleteTenant
<1>2. /\ session' \in [Sessions -> Row]
      /\ \A s \in Sessions : /\ session'[s].user = session[s].user
                             /\ session'[s].live = session[s].live
                             /\ session'[s].late = session[s].late
                             /\ session'[s].tenant = IF session[s].tenant = t THEN "none" ELSE session[s].tenant
  <2> HIDE DEF P
  <2> QED BY <1>1, UnchosenKeeps DEF AccountsInv
<1>3. AccountsTypeOK' BY <1>2 DEF AccountsInv, DeleteTenant, AccountsTypeOK
<1>4. \A u \in Users, x \in TenantIds : role'[u][x] = IF x = t THEN "none" ELSE role[u][x]
  BY DEF AccountsInv, DeleteTenant, AccountsTypeOK
<1>5. References' BY <1>2, <1>4 DEF AccountsInv, DeleteTenant, References, Member
<1>6. SessionsAreMembers'
  BY <1>2, <1>4 DEF AccountsInv, DeleteTenant, SessionsAreMembers, AccountsTypeOK, Member, Row
<1>7. DeactivatedIsOut' BY <1>2 DEF AccountsInv, DeleteTenant, DeactivatedIsOut
<1> QED BY <1>3, <1>5, <1>6, <1>7 DEF AccountsInv

LEMMA CreateUserInv == ASSUME AccountsInv, NEW u \in Users, CreateUser(u) PROVE AccountsInv'
<1>1. /\ role' \in [Users -> [TenantIds -> Roles \cup {"none"}]]
      /\ \A v \in Users, t \in TenantIds : Member(v, t)' => Member(v, t) \/ (v = u /\ t \in tenants)
      /\ \A v \in Users, t \in TenantIds : Member(v, t) => Member(v, t)'
  <2>1. CASE role' = role BY <2>1 DEF AccountsInv, AccountsTypeOK, Member
  <2>2. CASE \E t \in tenants, r \in Roles : role' = [role EXCEPT ![u][t] = r]
    BY <2>2 DEF AccountsInv, AccountsTypeOK, Member, Roles
  <2> QED BY <2>1, <2>2 DEF CreateUser
<1>2. AccountsTypeOK' BY <1>1 DEF AccountsInv, CreateUser, AccountsTypeOK
<1>3. References' BY <1>1 DEF AccountsInv, CreateUser, References
<1>4. SessionsAreMembers'
  BY <1>1, NoneIsNobody DEF AccountsInv, CreateUser, SessionsAreMembers, AccountsTypeOK, Row
<1>5. DeactivatedIsOut' BY DEF AccountsInv, CreateUser, DeactivatedIsOut, References, AccountsTypeOK
<1> QED BY <1>2, <1>3, <1>4, <1>5 DEF AccountsInv

LEMMA UpdateUserInv ==
  ASSUME AccountsInv, NEW u \in Users, NEW t \in TenantIds, NEW r \in Roles \cup {"same"},
         NEW a \in {"same", "yes", "no"}, UpdateUser(u, t, r, a)
  PROVE  AccountsInv'
<1>1. /\ role' \in [Users -> [TenantIds -> Roles \cup {"none"}]]
      /\ \A v \in Users, x \in TenantIds : Member(v, x)' <=> Member(v, x)
  BY DEF AccountsInv, UpdateUser, AccountsTypeOK, Member, Roles
<1>2. /\ session' \in [Sessions -> Row]
      /\ \A s \in Sessions : /\ session'[s].user = session[s].user
                             /\ session'[s].tenant = session[s].tenant
                             /\ session'[s].late = session[s].late
                             /\ session'[s].live => session[s].live
                             /\ session'[s].live /\ a = "no" => session[s].user # u
  BY SignedOutKeeps DEF AccountsInv, UpdateUser, AccountsTypeOK
<1>3. AccountsTypeOK' BY <1>1, <1>2 DEF AccountsInv, UpdateUser, AccountsTypeOK
<1>4. References' BY <1>1, <1>2 DEF AccountsInv, UpdateUser, References
<1>5. SessionsAreMembers'
  BY <1>1, <1>2, NoneIsNobody DEF AccountsInv, UpdateUser, SessionsAreMembers, AccountsTypeOK, Row
<1>6. DeactivatedIsOut'
  BY <1>2 DEF AccountsInv, UpdateUser, DeactivatedIsOut, References, AccountsTypeOK
<1> QED BY <1>3, <1>4, <1>5, <1>6 DEF AccountsInv

LEMMA SetUserActiveInv ==
  ASSUME AccountsInv, NEW u \in Users, NEW a \in BOOLEAN, SetUserActive(u, a) PROVE AccountsInv'
<1>1. /\ session' \in [Sessions -> Row]
      /\ \A s \in Sessions : /\ session'[s].user = session[s].user
                             /\ session'[s].tenant = session[s].tenant
                             /\ session'[s].late = session[s].late
                             /\ session'[s].live => session[s].live
                             /\ session'[s].live /\ ~a => session[s].user # u
  BY SignedOutKeeps DEF AccountsInv, SetUserActive, AccountsTypeOK
<1>2. AccountsTypeOK' BY <1>1 DEF AccountsInv, SetUserActive, AccountsTypeOK
<1>3. References' BY <1>1 DEF AccountsInv, SetUserActive, References, Member
<1>4. SessionsAreMembers' BY <1>1 DEF AccountsInv, SetUserActive, SessionsAreMembers, Member
<1>5. DeactivatedIsOut'
  BY <1>1 DEF AccountsInv, SetUserActive, DeactivatedIsOut, References, AccountsTypeOK
<1> QED BY <1>2, <1>3, <1>4, <1>5 DEF AccountsInv

LEMMA DeleteUserInv == ASSUME AccountsInv, NEW u \in Users, DeleteUser(u) PROVE AccountsInv'
<1>1. /\ role' \in [Users -> [TenantIds -> Roles \cup {"none"}]]
      /\ \A v \in Users, t \in TenantIds : Member(v, t)' <=> Member(v, t) /\ v # u
  BY DEF AccountsInv, DeleteUser, AccountsTypeOK, Nowhere, Member
<1>2. \A s \in Sessions : session'[s] = IF session[s].user = u THEN NoSession ELSE session[s]
  BY DEF DeleteUser, Of
<1>3. AccountsTypeOK'
  BY <1>1, NoneIsNobody DEF AccountsInv, DeleteUser, AccountsTypeOK, NoSession, Row
<1>4. References' BY <1>1, <1>2 DEF AccountsInv, DeleteUser, References, NoSession
<1>5. SessionsAreMembers'
  BY <1>1, <1>2, NoneIsNobody DEF AccountsInv, DeleteUser, SessionsAreMembers, AccountsTypeOK,
     NoSession, Row
<1>6. DeactivatedIsOut' BY <1>2 DEF AccountsInv, DeleteUser, DeactivatedIsOut, NoSession
<1> QED BY <1>3, <1>4, <1>5, <1>6 DEF AccountsInv

LEMMA SetMembershipsInv ==
  ASSUME AccountsInv, NEW u \in Users, NEW f \in [TenantIds -> Roles \cup {"none"}], SetMemberships(u, f)
  PROVE  AccountsInv'
<1> DEFINE P == Stranded(u, f)
<1>1. /\ P \in [Sessions -> BOOLEAN]
      /\ session' = Unchosen(P)
      /\ \A s \in Sessions : P[s] <=> /\ session[s].user = u
                                      /\ session[s].tenant # "none"
                                      /\ f[session[s].tenant] = "none"
  BY DEF SetMemberships, Stranded
<1>2. /\ session' \in [Sessions -> Row]
      /\ \A s \in Sessions : /\ session'[s].user = session[s].user
                             /\ session'[s].live = session[s].live
                             /\ session'[s].late = session[s].late
                             /\ session'[s].tenant = IF P[s] THEN "none" ELSE session[s].tenant
  <2> HIDE DEF P
  <2> QED BY <1>1, UnchosenKeeps DEF AccountsInv
<1>3. \A v \in Users, t \in TenantIds : role'[v][t] = IF v = u THEN f[t] ELSE role[v][t]
  BY DEF AccountsInv, SetMemberships, AccountsTypeOK
<1>4. AccountsTypeOK' BY <1>2 DEF AccountsInv, SetMemberships, AccountsTypeOK
<1>5. References' BY <1>2, <1>3 DEF AccountsInv, SetMemberships, References, Member
<1>6. SessionsAreMembers'
  <2> SUFFICES ASSUME NEW s \in Sessions, session'[s].tenant # "none"
               PROVE  /\ session'[s].user \in users'
                      /\ session'[s].tenant \in tenants'
                      /\ role'[session'[s].user][session'[s].tenant] # "none"
    BY DEF SessionsAreMembers, Member
  <2>1. ~P[s] /\ session'[s].tenant = session[s].tenant /\ session'[s].user = session[s].user
    BY <1>2
  <2>2. /\ session[s].user \in users
        /\ session[s].tenant \in tenants
        /\ Member(session[s].user, session[s].tenant)
    BY <2>1 DEF AccountsInv, SessionsAreMembers
  <2>3. session[s].user = u => f[session[s].tenant] # "none" BY <1>1, <2>1
  <2>4. session[s].user \in Users /\ session[s].tenant \in TenantIds
    BY <2>2 DEF AccountsInv, AccountsTypeOK
  <2>5. role'[session[s].user][session[s].tenant] # "none"
    BY <1>3, <2>2, <2>3, <2>4 DEF Member
  <2> HIDE DEF P
  <2> QED BY <2>1, <2>2, <2>5 DEF SetMemberships
<1>7. DeactivatedIsOut' BY <1>2 DEF AccountsInv, SetMemberships, DeactivatedIsOut
<1> QED BY <1>4, <1>5, <1>6, <1>7 DEF AccountsInv

LEMMA SessionInv ==
  ASSUME AccountsInv, NEW s \in Sessions,
         \/ \E u \in Users : CreateSession(u, s)
         \/ Logout(s)
         \/ \E t \in TenantIds : BindTenant(s, t)
  PROVE  AccountsInv'
<1>1. CASE \E u \in Users : CreateSession(u, s)
  <2>1. PICK u \in Users : CreateSession(u, s) BY <1>1
  <2>2. /\ session' \in [Sessions -> Row]
        /\ session'[s] = [user |-> u, tenant |-> "none", live |-> TRUE, late |-> ~active[u]]
        /\ \A x \in Sessions \ {s} : session'[x] = session[x]
    BY <2>1 DEF AccountsInv, CreateSession, AccountsTypeOK, Row
  <2>3. AccountsTypeOK' BY <2>1, <2>2 DEF AccountsInv, CreateSession, AccountsTypeOK
  <2>4. References' BY <2>1, <2>2 DEF AccountsInv, CreateSession, References, Member
  <2>5. SessionsAreMembers' BY <2>1, <2>2 DEF AccountsInv, CreateSession, SessionsAreMembers, Member
  <2>6. DeactivatedIsOut' BY <2>1, <2>2 DEF AccountsInv, CreateSession, DeactivatedIsOut
  <2> QED BY <2>3, <2>4, <2>5, <2>6 DEF AccountsInv
<1>2. CASE Logout(s)
  <2>1. /\ session' \in [Sessions -> Row]
        /\ \A x \in Sessions : /\ session'[x].user = session[x].user
                               /\ session'[x].tenant = session[x].tenant
                               /\ session'[x].late = session[x].late
                               /\ session'[x].live => session[x].live
    BY <1>2 DEF AccountsInv, Logout, AccountsTypeOK, Row
  <2>2. AccountsTypeOK' BY <1>2, <2>1 DEF AccountsInv, Logout, AccountsTypeOK
  <2>3. References' BY <1>2, <2>1 DEF AccountsInv, Logout, References, Member
  <2>4. SessionsAreMembers' BY <1>2, <2>1 DEF AccountsInv, Logout, SessionsAreMembers, Member
  <2>5. DeactivatedIsOut' BY <1>2, <2>1 DEF AccountsInv, Logout, DeactivatedIsOut
  <2> QED BY <2>2, <2>3, <2>4, <2>5 DEF AccountsInv
<1>3. CASE \E t \in TenantIds : BindTenant(s, t)
  <2>1. PICK t \in TenantIds : BindTenant(s, t) BY <1>3
  <2>2. session[s].user \in users /\ t \in tenants
    BY <2>1 DEF AccountsInv, BindTenant, References
  <2> QED
    BY <2>1, <2>2 DEF AccountsInv, BindTenant, AccountsTypeOK, Row, References, Member, SessionsAreMembers, DeactivatedIsOut
<1> QED BY <1>1, <1>2, <1>3

LEMMA OtherInv ==
  ASSUME AccountsInv, NEW u \in Users,
         \/ Authenticate(u)
         \/ NewPassword(u)
         \/ \E t \in TenantIds : CreateToken(u, t)
  PROVE  AccountsInv'
<1>1. CASE Authenticate(u)
  BY <1>1 DEF AccountsInv, Authenticate, AccountsTypeOK, References, Member, SessionsAreMembers,
     DeactivatedIsOut
<1>2. CASE NewPassword(u)
  <2>1. /\ session' \in [Sessions -> Row]
        /\ \A x \in Sessions : /\ session'[x].user = session[x].user
                               /\ session'[x].tenant = session[x].tenant
                               /\ session'[x].late = session[x].late
                               /\ session'[x].live => session[x].live
    BY <1>2, SignedOutKeeps DEF AccountsInv, NewPassword
  <2>2. AccountsTypeOK' BY <1>2, <2>1 DEF AccountsInv, NewPassword, AccountsTypeOK
  <2>3. References' BY <1>2, <2>1 DEF AccountsInv, NewPassword, References, Member
  <2>4. SessionsAreMembers' BY <1>2, <2>1 DEF AccountsInv, NewPassword, SessionsAreMembers, Member
  <2>5. DeactivatedIsOut' BY <1>2, <2>1 DEF AccountsInv, NewPassword, DeactivatedIsOut
  <2> QED BY <2>2, <2>3, <2>4, <2>5 DEF AccountsInv
<1>3. CASE \E t \in TenantIds : CreateToken(u, t)
  BY <1>3 DEF AccountsInv, CreateToken, AccountsTypeOK, References, Member, SessionsAreMembers,
     DeactivatedIsOut
<1> QED BY <1>1, <1>2, <1>3

LEMMA NextInv == AccountsInv /\ [NextAccounts]_store => AccountsInv'
<1> SUFFICES ASSUME AccountsInv, [NextAccounts]_store PROVE AccountsInv' OBVIOUS
<1>1. CASE UNCHANGED store
  BY <1>1 DEF store, AccountsInv, AccountsTypeOK, References, Member, SessionsAreMembers,
     DeactivatedIsOut
<1>2. ASSUME NEW t \in TenantIds, CreateTenant(t) \/ DeleteTenant(t) PROVE AccountsInv'
  BY <1>2, CreateTenantInv, DeleteTenantInv
<1>3. ASSUME NEW u \in Users, Account(u) PROVE AccountsInv'
  BY <1>3, CreateUserInv, DeleteUserInv, UpdateUserInv, SetUserActiveInv, SetMembershipsInv,
     SessionInv, OtherInv DEF Account
<1>4.
  ASSUME NEW s \in Sessions, Logout(s) \/ \E t \in TenantIds : BindTenant(s, t)
  PROVE  AccountsInv'
  BY <1>4, SessionInv
<1> QED BY <1>1, <1>2, <1>3, <1>4 DEF NextAccounts

THEOREM AccountsInvariant == AccountsSpec => []AccountsInv
BY InitInv, NextInv, PTL DEF AccountsSpec

\* The state stays well-formed, whatever the operations do.
THEOREM AccountsTypeCorrect == AccountsSpec => []AccountsTypeOK
BY AccountsInvariant, PTL DEF AccountsInv

\* For all users, tenants and sessions: a session that has chosen a tenant is
\* a member's (set_memberships, delete_tenant, bind_session_tenant).
THEOREM SessionsBelong == AccountsSpec => []SessionsAreMembers
BY AccountsInvariant, PTL DEF AccountsInv

\* For all users: deactivating one ends the sessions there are, and only a
\* login already under way makes another (update_user, set_user_active).
THEOREM DeactivationHolds == AccountsSpec => []DeactivatedIsOut
BY AccountsInvariant, PTL DEF AccountsInv

-----------------------------------------------------------------------------
(* Administrators.  A tenant's last one is lost only where the guard was   *)
(* asked about another tenant.                                             *)

Checked == \A t \in tenants \cap tenants' :
             HasAdmin(t) /\ ~HasAdmin(t)'
               => \E u \in Users, s \in TenantIds \ {t} : active[u] /\ ~active'[u] /\ Member(u, s)

\* Nobody but u changes: t keeps its administrator if u was not the last
\* one, or still is one.
LEMMA OthersStay ==
  ASSUME NEW t \in TenantIds, NEW u \in Users, HasAdmin(t),
         \A v \in Users \ {u} : Administers(v, t) => Administers(v, t)',
         AdminRemains(t, u) \/ (Administers(u, t) => Administers(u, t)')
  PROVE  HasAdmin(t)'
<1>1. CASE AdminRemains(t, u) BY <1>1 DEF AdminRemains, HasAdmin
<1>2. CASE Administers(u, t) => Administers(u, t)' BY <1>2 DEF HasAdmin
<1> QED BY <1>1, <1>2

\* The one operation that is not checked everywhere.
LEMMA UpdateUserChecked ==
  ASSUME AccountsInv, NEW u \in Users, NEW s \in TenantIds, NEW r \in Roles \cup {"same"},
         NEW a \in {"same", "yes", "no"}, UpdateUser(u, s, r, a)
  PROVE  Checked
<1> SUFFICES ASSUME NEW t \in tenants \cap tenants', HasAdmin(t), ~HasAdmin(t)'
             PROVE  \E v \in Users, x \in TenantIds \ {t} : active[v] /\ ~active'[v] /\ Member(v, x)
  BY DEF Checked
<1>1. t \in TenantIds BY DEF AccountsInv, AccountsTypeOK
<1>2. \A v \in Users \ {u} : Administers(v, t) => Administers(v, t)'
  BY <1>1 DEF AccountsInv, AccountsTypeOK, UpdateUser, Administers
<1>3. ~AdminRemains(t, u) /\ Administers(u, t) /\ ~Administers(u, t)'
  BY <1>1, <1>2, OthersStay
<1>4. CASE t = s
  <2>1. role[u][s] = "admin" /\ active[u] BY <1>3, <1>4 DEF Administers
  <2>2. r = "member" \/ a = "no"
    BY <1>1, <1>3, <1>4, <2>1 DEF UpdateUser, Administers, AccountsInv, AccountsTypeOK, Roles
  <2> QED BY <1>3, <1>4, <2>1, <2>2 DEF UpdateUser
<1>5. CASE t # s
  <2>1. role'[u][t] = role[u][t] BY <1>1, <1>5 DEF UpdateUser, AccountsInv, AccountsTypeOK
  <2>2. active[u] /\ ~active'[u] BY <1>3, <2>1 DEF Administers
  <2> QED BY <1>5, <2>2 DEF UpdateUser
<1> QED BY <1>4, <1>5

LEMMA LeavingChecked ==
  ASSUME AccountsInv, NEW u \in Users,
         \/ DeleteUser(u)
         \/ \E a \in BOOLEAN : SetUserActive(u, a)
         \/ \E f \in [TenantIds -> Roles \cup {"none"}] : SetMemberships(u, f)
  PROVE  \A t \in tenants \cap tenants' : HasAdmin(t) => HasAdmin(t)'
<1> SUFFICES ASSUME NEW t \in tenants \cap tenants', HasAdmin(t) PROVE HasAdmin(t)'
  OBVIOUS
<1>0. t \in TenantIds BY DEF AccountsInv, AccountsTypeOK
<1>1. CASE DeleteUser(u)
  <2>1. \A v \in Users \ {u} : Administers(v, t) => Administers(v, t)'
    BY <1>0, <1>1 DEF AccountsInv, AccountsTypeOK, DeleteUser, Administers
  <2>2. Administers(u, t) => AdminRemains(t, u)
    BY <1>0, <1>1 DEF DeleteUser, MayLeave, Administers
  <2> QED BY <1>0, <2>1, <2>2, OthersStay
<1>2. CASE \E a \in BOOLEAN : SetUserActive(u, a)
  <2>1. PICK a \in BOOLEAN : SetUserActive(u, a) BY <1>2
  <2>2. \A v \in Users \ {u} : Administers(v, t) => Administers(v, t)'
    BY <1>0, <2>1 DEF AccountsInv, AccountsTypeOK, SetUserActive, Administers
  <2>3. CASE a
    <3>1. Administers(u, t) => Administers(u, t)'
      BY <1>0, <2>1, <2>3 DEF AccountsInv, AccountsTypeOK, SetUserActive, Administers
    <3> QED BY <1>0, <2>2, <3>1, OthersStay
  <2>4. CASE ~a
    <3>1. Administers(u, t) => AdminRemains(t, u)
      BY <1>0, <2>1, <2>4 DEF SetUserActive, MayLeave, Administers
    <3> QED BY <1>0, <2>2, <3>1, OthersStay
  <2> QED BY <2>3, <2>4
<1>3. CASE \E f \in [TenantIds -> Roles \cup {"none"}] : SetMemberships(u, f)
  <2>1. PICK f \in [TenantIds -> Roles \cup {"none"}] : SetMemberships(u, f) BY <1>3
  <2>2. \A v \in Users \ {u} : Administers(v, t) => Administers(v, t)'
    BY <1>0, <2>1 DEF AccountsInv, AccountsTypeOK, SetMemberships, Administers
  <2>3. Administers(u, t) => AdminRemains(t, u) \/ Administers(u, t)'
    BY <1>0, <2>1 DEF AccountsInv, AccountsTypeOK, SetMemberships, MayLeave, Administers
  <2> QED BY <1>0, <2>2, <2>3, OthersStay
<1> QED BY <1>1, <1>2, <1>3

\* Steps that take nothing from an administrator.
LEMMA OthersChecked ==
  ASSUME AccountsInv,
         \/ \E t \in TenantIds : CreateTenant(t) \/ DeleteTenant(t)
         \/ \E u \in Users : CreateUser(u)
         \/ UNCHANGED <<users, active, tenants, role>>
  PROVE  \A t \in tenants \cap tenants' : HasAdmin(t) => HasAdmin(t)'
<1> SUFFICES ASSUME NEW t \in tenants \cap tenants', NEW v \in Users, Administers(v, t)
             PROVE  Administers(v, t)'
  BY DEF HasAdmin
<1>1. CASE \E x \in TenantIds : CreateTenant(x) BY <1>1 DEF CreateTenant, Administers
<1>2. CASE \E x \in TenantIds : DeleteTenant(x)
  BY <1>2 DEF AccountsInv, AccountsTypeOK, DeleteTenant, Administers
<1>3. CASE \E u \in Users : CreateUser(u)
  <2>1. PICK u \in Users : CreateUser(u) BY <1>3
  <2>2. v # u BY <2>1 DEF CreateUser, AccountsInv, References, Member, Administers, AccountsTypeOK
  <2>3. active'[v] = active[v] BY <2>1, <2>2 DEF CreateUser, AccountsInv, AccountsTypeOK
  <2>4. role'[v] = role[v] BY <2>1, <2>2 DEF CreateUser, AccountsInv, AccountsTypeOK
  <2> QED BY <2>3, <2>4 DEF Administers
<1>4. CASE UNCHANGED <<users, active, tenants, role>> BY <1>4 DEF Administers
<1> QED BY <1>1, <1>2, <1>3, <1>4

LEMMA NextChecked == AccountsInv /\ [NextAccounts]_store => Checked
<1> SUFFICES ASSUME AccountsInv, [NextAccounts]_store PROVE Checked OBVIOUS
<1>1. CASE UNCHANGED store BY <1>1, OthersChecked DEF store, Checked
<1>2. ASSUME NEW t \in TenantIds, CreateTenant(t) \/ DeleteTenant(t) PROVE Checked
  BY <1>2, OthersChecked DEF Checked
<1>3. ASSUME NEW u \in Users, Account(u) PROVE Checked
  <2>1. CASE CreateUser(u) BY <2>1, OthersChecked DEF Checked
  <2>2. CASE \/ DeleteUser(u)
             \/ \E a \in BOOLEAN : SetUserActive(u, a)
             \/ \E f \in [TenantIds -> Roles \cup {"none"}] : SetMemberships(u, f)
    BY <2>2, LeavingChecked DEF Checked
  <2>3. CASE \E t \in TenantIds, r \in Roles \cup {"same"}, a \in {"same", "yes", "no"} :
               UpdateUser(u, t, r, a)
    BY <2>3, UpdateUserChecked
  <2>4. CASE \/ Authenticate(u) \/ NewPassword(u)
             \/ \E t \in TenantIds : CreateToken(u, t)
             \/ \E s \in Sessions : CreateSession(u, s)
    <3>1. UNCHANGED <<users, active, tenants, role>>
      BY <2>4 DEF Authenticate, NewPassword, CreateToken, CreateSession
    <3> QED BY <3>1, OthersChecked DEF Checked
  <2> QED BY <1>3, <2>1, <2>2, <2>3, <2>4 DEF Account
<1>4. ASSUME NEW s \in Sessions, Logout(s) \/ \E t \in TenantIds : BindTenant(s, t) PROVE Checked
  <2>1. UNCHANGED <<users, active, tenants, role>> BY <1>4 DEF Logout, BindTenant
  <2> QED BY <2>1, OthersChecked DEF Checked
<1> QED BY <1>1, <1>2, <1>3, <1>4 DEF NextAccounts

\* For all users and tenants: no demotion, removal, deletion or deactivation
\* takes a tenant's last administrator, except a deactivation that was asked
\* for in another tenant (update_user against set_user_active, delete_user
\* and set_memberships, which look at all of them).
THEOREM AdministratorsRemain == AccountsSpec => AdminsRemain
<1>1. AccountsSpec => [][Checked]_store BY AccountsInvariant, NextChecked, PTL DEF AccountsSpec
<1> QED BY <1>1, PTL DEF AdminsRemain, Checked
=============================================================================
