-------------------------- MODULE ConductorProofs --------------------------
(***************************************************************************)
(* Conductor for every plan, every number of callers and runs, and any     *)
(* number of cancellations, failures and restarts: one run of the site at  *)
(* a time, work that is given up is told so, and a success is one.         *)
(***************************************************************************)
EXTENDS Conductor, TLAPS

StatusSet == {"none"} \cup Unfinished \cup Terminal
Active == {"queued", "top", "ready", "launched", "await", "carry", "unsaved", "unstarted"}
Places == Active \cup {"none", "finally", "over"}
Outcomes == {"queued", "running", "succeeded", "failed", "skipped", "waiting_human", "cancelled"}
Fine == {"succeeded", "skipped"}

TypeOK ==
  /\ started \in 0..MaxRuns
  /\ status \in [Runs -> StatusSet]
  /\ step \in [Runs -> Steps]
  /\ record \in [Runs -> [Steps -> Outcomes]]
  /\ human \subseteq Runs /\ known \subseteq Runs
  /\ loop \in [Runs -> Places]
  /\ pending \subseteq Runs /\ event \subseteq Runs /\ handle \subseteq Runs
  /\ work \in [Runs -> [Steps -> {"none", "running", "over"}]]
  /\ told \subseteq Runs \X Steps
  /\ blind \subseteq Runs
  /\ caller \in [Callers -> {"idle", "starting"}]

\* A run that is not started yet is as it was at first.
FreshInv ==
  \A r \in Runs : r > started =>
    /\ status[r] = "none" /\ loop[r] = "none" /\ step[r] = 1
    /\ \A i \in Steps : record[r][i] = "queued" /\ work[r][i] = "none"

\* A run is unfinished and in memory exactly while its thread takes steps, or when its
\* start failed.
ThreadInv ==
  \A r \in Runs : loop[r] \in Active <=> r \in known /\ status[r] \in Unfinished

\* One caller at a time has looked and found nothing unfinished, and then one run is.
SingleInv ==
  /\ \A b, c \in Callers : caller[b] = "starting" /\ caller[c] = "starting" => b = c
  /\ \A c \in Callers, r \in Runs : caller[c] = "starting" => status[r] \notin Unfinished
  /\ \A r, q \in Runs : status[r] \in Unfinished /\ status[q] \in Unfinished => r = q

\* Work is started step by step, and what is left running behind is told; the
\* work a thread still sees to is its current step's.
WorkInv ==
  \A r \in Runs :
    /\ \A i \in Steps : i > step[r] => work[r][i] = "none"
    /\ loop[r] \in {"queued", "top", "ready"} => work[r][step[r]] = "none"
    /\ status[r] \in Unfinished => r \in known \cup blind
    /\ r \notin blind =>
         \A i \in Steps : work[r][i] = "running" =>
           \/ <<r, i>> \in told
           \/ loop[r] \in {"launched", "await"} /\ i = step[r]

\* The steps behind are fine, or a human's turn is carried over; those ahead are
\* untouched.
RecordInv ==
  \A r \in Runs :
    /\ loop[r] = "carry" => step[r] < Last
    /\ loop[r] \in Active =>
         /\ r \notin pending => \A i \in Steps : i < step[r] => record[r][i] \in Fine
         /\ \A i \in Steps : i > step[r] => record[r][i] = "queued"
    /\ status[r] = "succeeded" => \A i \in Steps : record[r][i] \in Fine

IInv == TypeOK /\ FreshInv /\ ThreadInv /\ SingleInv /\ WorkInv /\ RecordInv
LEMMA StepsAreNaturals ==
  /\ Last \in Nat \ {0} /\ Steps = 1..Last
  /\ \A i \in Steps : i \in Nat /\ i <= Last /\ 1 <= i
  BY ConductorAssumption

LEMMA InitIInv == Init => IInv
<1> SUFFICES ASSUME Init PROVE IInv
  OBVIOUS
<1>1. TypeOK
  BY ConductorAssumption DEF Init, TypeOK, StatusSet, Places, Outcomes
<1>2. FreshInv /\ ThreadInv /\ SingleInv
  BY DEF Init, FreshInv, ThreadInv, SingleInv, Active, Unfinished
<1>3. WorkInv /\ RecordInv
  BY DEF Init, WorkInv, RecordInv, Active, Unfinished
<1> QED
  BY <1>1, <1>2, <1>3 DEF IInv

-----------------------------------------------------------------------------
(* What a step of a thread may be.                                         *)

\* A thread at work belongs to the only unfinished run, and nobody is starting one.
LEMMA ActiveAlone ==
  ASSUME IInv, NEW r \in Runs, loop[r] \in Active
  PROVE  /\ r <= started /\ r \in known /\ status[r] \in Unfinished
         /\ \A q \in Runs : q # r => status[q] \notin Unfinished /\ loop[q] \notin Active
         /\ \A c \in Callers : caller[c] # "starting"
<1>1. r \in known /\ status[r] \in Unfinished
  BY DEF IInv, ThreadInv
<1>2. r <= started
  BY <1>1 DEF IInv, FreshInv, TypeOK, Runs, Unfinished
<1> QED
  BY <1>1, <1>2 DEF IInv, ThreadInv, SingleInv

\* The run ends: its work is told or was not there, or the run has lost sight of it.
LEMMA EndIInv ==
  ASSUME IInv, TypeOK', NEW r \in Runs, loop[r] \in Active,
         NEW new \in Terminal,
         status' = [status EXCEPT ![r] = new],
         loop' = [loop EXCEPT ![r] = "finally"],
         UNCHANGED <<started, step, known, pending, work, caller>>,
         told \subseteq told', blind \subseteq blind',
         r \in blind' \/ (work[r][step[r]] = "running" => <<r, step[r]>> \in told'),
         \A q \in Runs : q # r => record'[q] = record[q],
         new = "succeeded" => \A i \in Steps : record'[r][i] \in Fine
  PROVE  IInv'
<1> USE DEF IInv
<1>1. status'[r] = new /\ new \notin Unfinished /\ new # "none" /\ loop'[r] = "finally"
  BY DEF TypeOK, Terminal, Unfinished
<1>2. \A q \in Runs : q # r => status'[q] = status[q] /\ loop'[q] = loop[q]
  BY DEF TypeOK
<1>3. ThreadInv' /\ FreshInv'
  <2>1. r <= started
    BY ActiveAlone
  <2>2. FreshInv'
    BY <1>2, <2>1 DEF FreshInv, TypeOK, Runs
  <2> QED
    BY <1>1, <1>2, <2>2 DEF ThreadInv, Active
<1>4. SingleInv'
  BY <1>1, <1>2 DEF SingleInv
<1>5. WorkInv'
  BY <1>1, <1>2 DEF WorkInv
<1>6. RecordInv'
  BY <1>1, <1>2 DEF RecordInv, Active
<1> QED
  BY <1>3, <1>4, <1>5, <1>6

\* The run goes on to its next step.
LEMMA AdvanceIInv ==
  ASSUME IInv, TypeOK', NEW r \in Runs, loop[r] \in {"ready", "await", "carry"},
         step[r] < Last,
         loop' = [loop EXCEPT ![r] = "top"],
         step' = [step EXCEPT ![r] = @ + 1],
         UNCHANGED <<started, status, known, work, blind, caller>>,
         told \subseteq told', pending \subseteq pending',
         r \in blind \/ (work[r][step[r]] = "running" => <<r, step[r]>> \in told'),
         \A q \in Runs, i \in Steps : q # r \/ i # step[r] => record'[q][i] = record[q][i],
         record'[r][step[r]] \in Fine \/ r \in pending'
  PROVE  IInv'
<1> USE DEF IInv
<1>1. /\ loop'[r] = "top" /\ step'[r] = step[r] + 1
      /\ \A q \in Runs : q # r => loop'[q] = loop[q] /\ step'[q] = step[q]
      /\ step[r] \in Steps
  BY DEF TypeOK
<1>2. /\ status[r] \in Unfinished /\ r \in known /\ r <= started
      /\ \A q \in Runs : q # r => loop[q] \notin Active
  BY ActiveAlone DEF Active
<1>3. ThreadInv' /\ FreshInv'
  <2>1. FreshInv'
    BY <1>1, <1>2 DEF FreshInv, TypeOK, Runs
  <2> QED
    BY <1>1, <2>1 DEF ThreadInv, Active
<1>4. SingleInv'
  BY DEF SingleInv
<1>5. WorkInv'
  <2>1. ASSUME NEW i \in Steps, i > step'[r] PROVE work'[r][i] = "none"
    BY <1>1, <2>1, StepsAreNaturals DEF WorkInv
  <2>2. work'[r][step'[r]] = "none"
    BY <1>1, StepsAreNaturals DEF WorkInv, TypeOK
  <2>3. ASSUME r \notin blind', NEW i \in Steps, work'[r][i] = "running"
        PROVE  <<r, i>> \in told'
    <3>1. i = step[r] \/ i # step[r]
      OBVIOUS
    <3> QED
      BY <2>3, <3>1 DEF WorkInv
  <2> QED
    BY <1>1, <2>1, <2>2, <2>3 DEF WorkInv
<1>6. RecordInv'
  <2>1. ASSUME r \notin pending', NEW i \in Steps, i < step'[r] PROVE record'[r][i] \in Fine
    <3>1. CASE i = step[r]
      BY <2>1, <3>1
    <3>2. CASE i # step[r]
      <4>1. i < step[r]
        BY <1>1, <2>1, <3>2, StepsAreNaturals
      <4>2. record'[r][i] = record[r][i]
        BY <3>2
      <4> QED
        BY <2>1, <4>1, <4>2 DEF RecordInv, Active
    <3> QED
      BY <3>1, <3>2
  <2>2. ASSUME NEW i \in Steps, i > step'[r] PROVE record'[r][i] = "queued"
    <3>1. i > step[r] /\ i # step[r]
      BY <1>1, <2>2, StepsAreNaturals
    <3> QED
      BY <3>1 DEF RecordInv, Active
  <2>3. \A q \in Runs : q # r => \A i \in Steps : record'[q][i] = record[q][i]
    OBVIOUS
  <2>4. status[r] # "succeeded"
    BY <1>2 DEF Unfinished
  <2> QED
    BY <1>1, <1>2, <2>1, <2>2, <2>3, <2>4 DEF RecordInv
<1> QED
  BY <1>3, <1>4, <1>5, <1>6

\* The thread stays at its step.
LEMMA StayIInv ==
  ASSUME IInv, TypeOK', NEW r \in Runs, loop[r] \in Active,
         NEW place \in Active \ {"queued", "top"}, loop' = [loop EXCEPT ![r] = place],
         place = "carry" => step[r] < Last,
         UNCHANGED <<started, step, known, pending, blind, caller>>,
         status' = status,
         told \subseteq told',
         \A q \in Runs, i \in Steps : q # r \/ i # step[r] =>
            record'[q][i] = record[q][i] /\ work'[q][i] = work[q][i],
         place = "ready" => work'[r][step[r]] = "none",
         \/ place \in {"launched", "await"}
         \/ work'[r][step[r]] = "running" => <<r, step[r]>> \in told' \/ r \in blind
  PROVE  IInv'
<1> USE DEF IInv
<1>1. /\ loop'[r] = place /\ step[r] \in Steps
      /\ \A q \in Runs : q # r => loop'[q] = loop[q]
  BY DEF TypeOK
<1>2. /\ status[r] \in Unfinished /\ r \in known /\ r <= started
      /\ \A q \in Runs : q # r => loop[q] \notin Active
  BY ActiveAlone
<1>3. ThreadInv' /\ FreshInv'
  <2>1. FreshInv'
    BY <1>1, <1>2 DEF FreshInv, TypeOK, Runs
  <2> QED
    BY <1>1, <2>1 DEF ThreadInv, Active
<1>4. SingleInv'
  BY DEF SingleInv
<1>5. WorkInv'
  <2>1. ASSUME NEW q \in Runs, NEW i \in Steps, i > step'[q] PROVE work'[q][i] = "none"
    BY <1>1, <2>1, StepsAreNaturals DEF WorkInv
  <2>2. ASSUME NEW q \in Runs, loop'[q] \in {"queued", "top", "ready"}
        PROVE  work'[q][step'[q]] = "none"
    BY <1>1, <1>2, <2>2 DEF Active
  <2>3. ASSUME NEW q \in Runs, q \notin blind', NEW i \in Steps, work'[q][i] = "running"
        PROVE  <<q, i>> \in told' \/ (loop'[q] \in {"launched", "await"} /\ i = step'[q])
    <3>1. CASE q = r /\ i = step[r]
      BY <1>1, <2>3, <3>1
    <3>2. CASE q # r \/ i # step[r]
      <4>1. work[q][i] = "running"
        BY <2>3, <3>2
      <4>2. <<q, i>> \in told \/ (loop[q] \in {"launched", "await"} /\ i = step[q])
        BY <2>3, <4>1 DEF WorkInv
      <4> QED
        BY <1>1, <3>2, <4>2
    <3> QED
      BY <3>1, <3>2
  <2> QED
    BY <2>1, <2>2, <2>3 DEF WorkInv
<1>6. RecordInv'
  <2>1. ASSUME NEW i \in Steps, i < step[r] \/ i > step[r] PROVE record'[r][i] = record[r][i]
    BY <1>1, <2>1, StepsAreNaturals
  <2>2. status[r] # "succeeded"
    BY <1>2 DEF Unfinished
  <2> QED
    BY <1>1, <1>2, <2>1, <2>2 DEF RecordInv
<1> QED
  BY <1>3, <1>4, <1>5, <1>6

-----------------------------------------------------------------------------
(* The end of a step.                                                      *)

\* What is skipped was still to run; the other steps keep their result.
LEMMA SkippedRecords ==
  ASSUME NEW r \in Runs, step[r] \in Steps, NEW recs \in [Steps -> Outcomes]
  PROVE  /\ Skipped(r, recs) \in [Steps -> Outcomes]
         /\ \A i \in Steps : i <= step[r] => Skipped(r, recs)[i] = recs[i]
         /\ \A i \in Steps : i > step[r] /\ recs[i] = "queued" => Skipped(r, recs)[i] = "skipped"
  BY StepsAreNaturals DEF Skipped, Outcomes

\* What a settled step leaves: the run ends, goes on, or carries a human's turn over.
LEMMA SettleOutcome ==
  ASSUME TypeOK, NEW r \in Runs, NEW result \in Outcomes \ {"queued", "running"}, NEW reason,
         Settle(r, result, reason)
  PROVE  \E recs \in [Steps -> Outcomes] :
           /\ record' = [record EXCEPT ![r] = recs]
           /\ recs[step[r]] = result
           /\ \A i \in Steps : i < step[r] => recs[i] = record[r][i]
           /\ \/ /\ step[r] < Last /\ result = "waiting_human"
                 /\ loop' = [loop EXCEPT ![r] = "carry"]
                 /\ UNCHANGED <<status, step, human, pending, handle>>
                 /\ \A i \in Steps : i > step[r] => recs[i] = record[r][i]
              \/ /\ step[r] < Last /\ result \in Fine
                 /\ Proceed(r)
                 /\ \A i \in Steps : i > step[r] => recs[i] = record[r][i]
              \/ /\ result \in Fine
                 /\ Complete(r)
                 /\ \A i \in Steps : i > step[r] /\ record[r][i] = "queued" => recs[i] \in Fine
              \/ \E new \in Terminal \ {"succeeded"}, asks \in BOOLEAN : Finish(r, new, asks)
<1> DEFINE done == [record[r] EXCEPT ![step[r]] = result]
<1>1. /\ step[r] \in Steps /\ record[r] \in [Steps -> Outcomes] /\ done \in [Steps -> Outcomes]
      /\ done[step[r]] = result
      /\ \A i \in Steps : i # step[r] => done[i] = record[r][i]
  BY DEF TypeOK
<1>2. /\ Skipped(r, done) \in [Steps -> Outcomes]
      /\ Skipped(r, done)[step[r]] = result
      /\ \A i \in Steps : i < step[r] => Skipped(r, done)[i] = record[r][i]
      /\ \A i \in Steps : i > step[r] /\ record[r][i] = "queued" =>
            Skipped(r, done)[i] = "skipped"
  <2>1. /\ Skipped(r, done) \in [Steps -> Outcomes]
        /\ \A i \in Steps : i <= step[r] => Skipped(r, done)[i] = done[i]
        /\ \A i \in Steps : i > step[r] /\ done[i] = "queued" =>
              Skipped(r, done)[i] = "skipped"
    BY <1>1, SkippedRecords
  <2>2. \A i \in Steps : i < step[r] => i <= step[r] /\ i # step[r]
    BY <1>1, StepsAreNaturals
  <2>3. \A i \in Steps : i > step[r] => i # step[r]
    BY <1>1, StepsAreNaturals
  <2>4. step[r] <= step[r]
    BY <1>1, StepsAreNaturals
  <2> QED
    BY <1>1, <2>1, <2>2, <2>3, <2>4
<1>3. /\ \A i \in Steps : i < step[r] => done[i] = record[r][i]
      /\ \A i \in Steps : i > step[r] => done[i] = record[r][i]
  BY <1>1, StepsAreNaturals
<1>4. ~(step[r] < Last) => \A i \in Steps : ~(i > step[r])
  BY <1>1, StepsAreNaturals
<1> HIDE DEF done
<1>5. CASE /\ result = "waiting_human" /\ step[r] < Last
           /\ record' = [record EXCEPT ![r] = done]
           /\ loop' = [loop EXCEPT ![r] = "carry"]
           /\ UNCHANGED <<status, step, human, pending, handle>>
  BY <1>1, <1>3, <1>5
<1>6. CASE /\ record' = [record EXCEPT ![r] = Skipped(r, done)]
           /\ Finish(r, "skipped", FALSE)
  BY <1>2, <1>6 DEF Terminal
<1>7. CASE /\ record' = [record EXCEPT ![r] = Skipped(r, done)] /\ result = "skipped"
           /\ Complete(r)
  BY <1>2, <1>7 DEF Fine
<1>8. CASE /\ record' = [record EXCEPT ![r] = done] /\ result \in Fine
           /\ IF step[r] < Last THEN Proceed(r) ELSE Complete(r)
  BY <1>1, <1>3, <1>4, <1>8
<1>9. CASE /\ \/ record' = [record EXCEPT ![r] = done]
              \/ record' = [record EXCEPT ![r] = Skipped(r, done)]
           /\ Finish(r, "waiting_human", TRUE)
  <2>1. "waiting_human" \in Terminal \ {"succeeded"}
    BY DEF Terminal
  <2> QED
    BY <1>1, <1>2, <1>3, <1>9, <2>1
<1>10. CASE /\ record' = [record EXCEPT ![r] = done] /\ result \in {"failed", "cancelled"}
            /\ Finish(r, result, FALSE)
  BY <1>1, <1>3, <1>10 DEF Terminal
<1> QED
  BY <1>5, <1>6, <1>7, <1>8, <1>9, <1>10 DEF Settle, More, done, Fine

\* A step is settled only when its work is over or was told to stop, or when the run
\* has lost sight of it and fails: so whatever the result, the run may end or go on.
LEMMA SettleIInv ==
  ASSUME IInv, NEW r \in Runs, loop[r] \in {"ready", "await"},
         NEW result \in Outcomes \ {"queued", "running"}, NEW reason,
         Settle(r, result, reason),
         UNCHANGED <<started, known, event, work, caller>>,
         told \subseteq told', told' \subseteq Runs \X Steps,
         blind' = blind \/ (result = "failed" /\ blind' = blind \cup {r}),
         r \in blind' \/ (work[r][step[r]] = "running" => <<r, step[r]>> \in told')
  PROVE  IInv'
<1>1. TypeOK /\ loop[r] \in Active /\ step[r] \in Steps
  BY DEF IInv, TypeOK, Active
<1>2. PICK recs \in [Steps -> Outcomes] :
        /\ record' = [record EXCEPT ![r] = recs]
        /\ recs[step[r]] = result
        /\ \A i \in Steps : i < step[r] => recs[i] = record[r][i]
        /\ \/ /\ step[r] < Last /\ result = "waiting_human"
              /\ loop' = [loop EXCEPT ![r] = "carry"]
              /\ UNCHANGED <<status, step, human, pending, handle>>
              /\ \A i \in Steps : i > step[r] => recs[i] = record[r][i]
           \/ /\ step[r] < Last /\ result \in Fine
              /\ Proceed(r)
              /\ \A i \in Steps : i > step[r] => recs[i] = record[r][i]
           \/ /\ result \in Fine
              /\ Complete(r)
              /\ \A i \in Steps : i > step[r] /\ record[r][i] = "queued" => recs[i] \in Fine
           \/ \E new \in Terminal \ {"succeeded"}, asks \in BOOLEAN : Finish(r, new, asks)
  BY <1>1, SettleOutcome
<1>3. /\ record' \in [Runs -> [Steps -> Outcomes]] /\ record'[r] = recs
      /\ \A q \in Runs : q # r => record'[q] = record[q]
  BY <1>1, <1>2 DEF TypeOK
<1>4. blind' \subseteq Runs /\ blind \subseteq blind'
  BY <1>1 DEF TypeOK
<1>5. ASSUME NEW new \in Terminal, NEW asks \in BOOLEAN, Finish(r, new, asks),
             new = "succeeded" => \A i \in Steps : record'[r][i] \in Fine
      PROVE  IInv'
  <2>1. TypeOK'
    BY <1>1, <1>3, <1>4, <1>5 DEF TypeOK, Finish, StatusSet, Places
  <2>2. /\ status' = [status EXCEPT ![r] = new]
        /\ loop' = [loop EXCEPT ![r] = "finally"]
        /\ UNCHANGED <<step, pending>>
    BY <1>5 DEF Finish
  <2>3. UNCHANGED <<started, step, known, pending, work, caller>>
    BY <2>2
  <2> QED
    BY <1>1, <1>3, <1>4, <1>5, <2>1, <2>2, <2>3, EndIInv
<1>6. CASE /\ step[r] < Last /\ result = "waiting_human"
           /\ loop' = [loop EXCEPT ![r] = "carry"]
           /\ UNCHANGED <<status, step, human, pending, handle>>
           /\ \A i \in Steps : i > step[r] => recs[i] = record[r][i]
  <2>1. TypeOK'
    BY <1>1, <1>3, <1>4, <1>6 DEF TypeOK, Places, Active
  <2>2. \A i \in Steps : i # step[r] => record'[r][i] = record[r][i]
    BY <1>1, <1>2, <1>3, <1>6, StepsAreNaturals
  <2>3. "carry" \in Active \ {"queued", "top"}
    BY DEF Active
  <2>4. blind' = blind
    BY <1>6
  <2>5. \A q \in Runs, i \in Steps : q # r \/ i # step[r] =>
           record'[q][i] = record[q][i] /\ work'[q][i] = work[q][i]
    BY <1>3, <2>2
  <2>6. UNCHANGED <<started, step, known, pending, blind, caller>>
    BY <1>6, <2>4
  <2> QED
    BY <1>1, <1>6, <2>1, <2>3, <2>5, <2>6, StayIInv
<1>7. CASE /\ step[r] < Last /\ result \in Fine
           /\ Proceed(r)
           /\ \A i \in Steps : i > step[r] => recs[i] = record[r][i]
  <2>1. step[r] + 1 \in Steps
    BY <1>1, <1>7, StepsAreNaturals
  <2>2. TypeOK'
    BY <1>1, <1>3, <1>4, <1>7, <2>1 DEF TypeOK, Places, Active, Proceed
  <2>3. \A i \in Steps : i # step[r] => record'[r][i] = record[r][i]
    BY <1>1, <1>2, <1>3, <1>7, StepsAreNaturals
  <2>4. blind' = blind /\ record'[r][step[r]] \in Fine
    BY <1>2, <1>3, <1>7 DEF Fine
  <2>5. /\ loop' = [loop EXCEPT ![r] = "top"]
        /\ step' = [step EXCEPT ![r] = @ + 1]
        /\ UNCHANGED <<status, pending>>
    BY <1>7 DEF Proceed
  <2>6. \A q \in Runs, i \in Steps : q # r \/ i # step[r] => record'[q][i] = record[q][i]
    BY <1>3, <2>3
  <2>7. UNCHANGED <<started, status, known, work, blind, caller>>
    BY <2>4, <2>5
  <2> QED
    BY <1>7, <2>2, <2>4, <2>5, <2>6, <2>7, AdvanceIInv
<1>8. CASE /\ result \in Fine
           /\ Complete(r)
           /\ \A i \in Steps : i > step[r] /\ record[r][i] = "queued" => recs[i] \in Fine
  <2>1. CASE r \in pending
    BY <1>5, <1>8, <2>1 DEF Complete, Terminal
  <2>2. CASE r \notin pending
    <3>1. ASSUME NEW i \in Steps PROVE recs[i] \in Fine
      <4>1. CASE i < step[r]
        BY <1>1, <1>2, <2>2, <4>1 DEF IInv, RecordInv
      <4>2. CASE i > step[r]
        BY <1>1, <1>8, <4>2 DEF IInv, RecordInv
      <4>3. CASE i = step[r]
        BY <1>2, <1>8, <4>3
      <4> QED
        BY <1>1, <4>1, <4>2, <4>3, StepsAreNaturals
    <3>2. "succeeded" \in Terminal
      BY DEF Terminal
    <3> QED
      BY <1>3, <1>5, <1>8, <2>2, <3>1, <3>2 DEF Complete
  <2> QED
    BY <2>1, <2>2
<1>9. CASE \E new \in Terminal \ {"succeeded"}, asks \in BOOLEAN : Finish(r, new, asks)
  BY <1>5, <1>9
<1> QED
  BY <1>2, <1>6, <1>7, <1>8, <1>9

-----------------------------------------------------------------------------
(* Starting a run.                                                         *)

\* Reaping ends runs that are not in memory, and those have no thread at work.
LEMMA LookIInv ==
  ASSUME IInv, NEW c \in Callers, Look(c)
  PROVE  IInv'
<1> USE DEF IInv, Look
<1>1. \A r \in Runs :
        status'[r] = IF status[r] \in Unfinished /\ r \notin known THEN "failed" ELSE status[r]
  BY DEF Reaped
<1>2. TypeOK'
  BY DEF TypeOK, Reaped, StatusSet, Terminal, thread, steps, counts
<1>3. FreshInv' /\ ThreadInv'
  BY <1>1 DEF FreshInv, ThreadInv, Unfinished, thread, steps
<1>4. SingleInv'
  <2>1. \A b, d \in Callers : caller'[b] = "starting" /\ caller'[d] = "starting" => b = d
    BY DEF TypeOK
  <2>2. \A b \in Callers, r \in Runs : caller'[b] = "starting" => status'[r] \notin Unfinished
    BY DEF TypeOK
  <2>3. \A r \in Runs : status'[r] \in Unfinished => status[r] \in Unfinished
    BY <1>1 DEF Unfinished
  <2> QED
    BY <2>1, <2>2, <2>3 DEF SingleInv
<1>5. WorkInv'
  BY <1>1 DEF WorkInv, Unfinished, thread, steps
<1>6. RecordInv'
  BY <1>1 DEF RecordInv, Unfinished, thread
<1> QED
  BY <1>2, <1>3, <1>4, <1>5, <1>6

\* The run is started, with a thread or without one.
LEMMA StartIInv ==
  ASSUME IInv, NEW c \in Callers, Start(c) \/ StartFails(c)
  PROVE  IInv'
<1> USE DEF IInv
<1> DEFINE r == started + 1
<1>1. /\ r \in Runs /\ r > started /\ started \in Nat
      /\ \A q \in Runs : q > started + 1 => q > started
  BY ConductorAssumption DEF Start, StartFails, TypeOK, Runs
<1>2. PICK place \in {"queued", "unsaved", "unstarted"} :
      /\ status' = [status EXCEPT ![r] = "queued"] /\ started' = r
      /\ loop' = [loop EXCEPT ![r] = place] /\ known' = known \cup {r}
      /\ caller[c] = "starting" /\ caller' = [caller EXCEPT ![c] = "idle"]
      /\ UNCHANGED <<step, record, human, pending, event, handle, work, told, blind>>
  <2>1. CASE Start(c)
    BY <2>1 DEF Start, steps
  <2>2. CASE StartFails(c)
    BY <2>2 DEF StartFails, Stillborn, steps
  <2> QED
    BY <2>1, <2>2
<1> HIDE DEF r
<1>3. /\ status[r] = "none" /\ loop[r] = "none" /\ step[r] = 1
      /\ \A i \in Steps : record[r][i] = "queued" /\ work[r][i] = "none"
  BY <1>1 DEF FreshInv
<1>4. \A q \in Runs : status[q] \notin Unfinished /\ loop[q] \notin Active
  BY <1>2 DEF SingleInv, ThreadInv
<1>5. TypeOK'
  BY <1>1, <1>2, ConductorAssumption DEF TypeOK, Places, Active, StatusSet, Unfinished, Runs
<1>6. /\ status'[r] = "queued" /\ loop'[r] = place
      /\ \A q \in Runs : q # r => status'[q] = status[q] /\ loop'[q] = loop[q]
  BY <1>1, <1>2 DEF TypeOK
<1>7. FreshInv'
  <2>1. \A q \in Runs : q > started' => q # r /\ q > started
    BY <1>1, <1>2 DEF Runs
  <2> QED
    BY <1>2, <1>6, <2>1 DEF FreshInv
<1>8. ThreadInv'
  BY <1>2, <1>4, <1>6 DEF ThreadInv, Active, Unfinished
<1>9. SingleInv'
  <2>1. \A b \in Callers : caller'[b] # "starting"
    BY <1>2 DEF SingleInv, TypeOK
  <2> QED
    BY <1>4, <1>6, <2>1 DEF SingleInv
<1>10. WorkInv'
  <2>1. 1 \in Steps
    BY StepsAreNaturals
  <2> QED
    BY <1>2, <1>3, <1>4, <1>6, <2>1 DEF WorkInv
<1>11. RecordInv'
  <2>1. \A i \in Steps : ~(i < 1)
    BY StepsAreNaturals
  <2> QED
    BY <1>2, <1>3, <1>4, <1>6, <2>1 DEF RecordInv, Active
<1> QED
  BY <1>5, <1>7, <1>8, <1>9, <1>10, <1>11

-----------------------------------------------------------------------------
(* The steps of a thread.                                                  *)

LEMMA BeginIInv ==
  ASSUME IInv, NEW r \in Runs, Begin(r)
  PROVE  IInv'
<1> USE DEF IInv, Begin, steps
<1>1. /\ loop[r] = "queued" /\ loop'[r] = "top" /\ status'[r] = "running"
      /\ \A q \in Runs : q # r => status'[q] = status[q] /\ loop'[q] = loop[q]
  BY DEF TypeOK
<1>2. /\ r <= started /\ r \in known /\ status[r] \in Unfinished
      /\ \A q \in Runs : q # r => status[q] \notin Unfinished /\ loop[q] \notin Active
      /\ \A c \in Callers : caller[c] # "starting"
  BY <1>1, ActiveAlone DEF Active
<1>3. TypeOK'
  BY DEF TypeOK, Places, Active, StatusSet, Unfinished
<1>4. FreshInv'
  BY <1>1, <1>2 DEF FreshInv, TypeOK, Runs
<1>5. ThreadInv' /\ SingleInv'
  BY <1>1, <1>2 DEF ThreadInv, SingleInv, Active, Unfinished
<1>6. WorkInv'
  BY <1>1, <1>2 DEF WorkInv
<1>7. RecordInv'
  BY <1>1, <1>2 DEF RecordInv, Active
<1> QED
  BY <1>3, <1>4, <1>5, <1>6, <1>7

LEMMA StopHereIInv ==
  ASSUME IInv, NEW r \in Runs, StopHere(r)
  PROVE  IInv'
<1> USE DEF StopHere, Finish, steps
<1>1. loop[r] = "top" /\ loop[r] \in Active /\ "cancelled" \in Terminal
  BY DEF Active, Terminal
<1>2. TypeOK'
  BY DEF IInv, TypeOK, Places, StatusSet, Terminal
<1>3. work[r][step[r]] = "none"
  BY <1>1 DEF IInv, WorkInv
<1> QED
  BY <1>1, <1>2, <1>3, EndIInv

LEMMA EnterIInv ==
  ASSUME IInv, NEW r \in Runs, Enter(r)
  PROVE  IInv'
<1>1. /\ loop[r] = "top" /\ loop[r] \in Active
      /\ "ready" \in Active \ {"queued", "top"}
      /\ loop' = [loop EXCEPT ![r] = "ready"]
      /\ record' = [record EXCEPT ![r][step[r]] = "running"]
      /\ UNCHANGED <<started, status, step, human, known, pending, event, handle, work, told,
                     blind, caller>>
  BY DEF Enter, Active, steps
<1>2. /\ record' \in [Runs -> [Steps -> Outcomes]]
      /\ \A q \in Runs, i \in Steps : q # r \/ i # step[r] => record'[q][i] = record[q][i]
  BY <1>1 DEF IInv, TypeOK, Outcomes
<1>3. TypeOK'
  BY <1>1, <1>2 DEF IInv, TypeOK, Places
<1>4. work[r][step[r]] = "none"
  BY <1>1 DEF IInv, WorkInv
<1> QED
  BY <1>1, <1>2, <1>3, <1>4, StayIInv

LEMMA RefuseIInv ==
  ASSUME IInv, NEW r \in Runs, Refuse(r)
  PROVE  IInv'
<1>1. loop[r] = "ready" /\ work[r][step[r]] = "none" /\ told \subseteq Runs \X Steps
  BY DEF Refuse, IInv, WorkInv, TypeOK
<1>2. UNCHANGED <<started, known, event, work, told, blind, caller>>
  BY DEF Refuse, steps
<1>3. PICK answer \in Refusals(Plan[step[r]]) : Settle(r, answer[1], answer[2])
  BY DEF Refuse
<1>4. answer[1] \in Outcomes \ {"queued", "running"}
  <2>1. \E result \in {"waiting_human", "failed", "skipped"} : \E reason : answer = <<result, reason>>
    BY <1>3, Zenon DEF Refusals
  <2>2. answer[1] \in {"waiting_human", "failed", "skipped"}
    BY <2>1
  <2> QED
    BY <2>2 DEF Outcomes
<1> QED
  BY <1>1, <1>2, <1>3, <1>4, SettleIInv

LEMMA LaunchIInv ==
  ASSUME IInv, NEW r \in Runs, Launch(r)
  PROVE  IInv'
<1>1. /\ loop[r] = "ready" /\ loop[r] \in Active
      /\ "launched" \in Active \ {"queued", "top"}
      /\ loop' = [loop EXCEPT ![r] = "launched"]
      /\ work' = [work EXCEPT ![r][step[r]] = "running"]
      /\ UNCHANGED <<started, status, step, record, human, known, pending, event, handle, told,
                     blind, caller>>
  BY DEF Launch, Active, memory
<1>2. /\ work' \in [Runs -> [Steps -> {"none", "running", "over"}]]
      /\ \A q \in Runs, i \in Steps : q # r \/ i # step[r] => work'[q][i] = work[q][i]
  BY <1>1 DEF IInv, TypeOK
<1>3. TypeOK'
  BY <1>1, <1>2 DEF IInv, TypeOK, Places
<1> QED
  BY <1>1, <1>2, <1>3, StayIInv

LEMMA ReceiveIInv ==
  ASSUME IInv, NEW r \in Runs, Receive(r)
  PROVE  IInv'
<1>1. /\ loop[r] = "launched" /\ loop[r] \in Active
      /\ "await" \in Active \ {"queued", "top"}
      /\ loop' = [loop EXCEPT ![r] = "await"] /\ handle' = handle \cup {r}
      /\ UNCHANGED <<started, status, step, record, human, known, pending, event, work, told,
                     blind, caller>>
  BY DEF Receive, Active, memory, steps
<1>2. TypeOK'
  BY <1>1 DEF IInv, TypeOK, Places
<1> QED
  BY <1>1, <1>2, StayIInv

LEMMA AbandonIInv ==
  ASSUME IInv, NEW r \in Runs, Abandon(r)
  PROVE  IInv'
<1>1. step[r] \in Steps /\ told \subseteq Runs \X Steps
  BY DEF IInv, TypeOK
<1>2. "cancelled" \in Outcomes \ {"queued", "running"}
  BY DEF Outcomes
<1>3. /\ loop[r] = "await"
      /\ told' = told \cup {<<r, step[r]>>}
      /\ UNCHANGED <<started, known, event, work, blind, caller>>
  BY DEF Abandon
<1>4. /\ told \subseteq told' /\ told' \subseteq Runs \X Steps /\ <<r, step[r]>> \in told'
      /\ blind' = blind
  BY <1>1, <1>3
<1>5. \E reason : Settle(r, "cancelled", reason)
  BY Zenon DEF Abandon
<1> QED
  BY <1>2, <1>3, <1>4, <1>5, SettleIInv

LEMMA ObserveIInv ==
  ASSUME IInv, NEW r \in Runs, Observe(r)
  PROVE  IInv'
<1>1. told \subseteq Runs \X Steps
  BY DEF IInv, TypeOK
<1>2. PICK result \in Results(r) : Settle(r, result, "")
  BY DEF Observe
<1>3. result \in Outcomes \ {"queued", "running"}
  BY <1>2 DEF Results, Outcomes
<1>4. /\ loop[r] = "await" /\ work[r][step[r]] = "over"
      /\ UNCHANGED <<started, known, event, work, told, blind, caller>>
  BY DEF Observe, steps
<1> QED
  BY <1>1, <1>2, <1>3, <1>4, SettleIInv

LEMMA UnreadableIInv ==
  ASSUME IInv, NEW r \in Runs, Unreadable(r)
  PROVE  IInv'
<1>1. told \subseteq Runs \X Steps
  BY DEF IInv, TypeOK
<1>2. "failed" \in Outcomes \ {"queued", "running"}
  BY DEF Outcomes
<1> QED
  BY <1>1, <1>2, SettleIInv DEF Unreadable

LEMMA TimeoutIInv ==
  ASSUME IInv, NEW r \in Runs, Timeout(r)
  PROVE  IInv'
<1>1. step[r] \in Steps /\ told \subseteq Runs \X Steps
  BY DEF IInv, TypeOK
<1>2. "failed" \in Outcomes \ {"queued", "running"}
  BY DEF Outcomes
<1>3. /\ loop[r] = "await"
      /\ told' = told \cup {<<r, step[r]>>}
      /\ UNCHANGED <<started, known, event, work, blind, caller>>
  BY DEF Timeout
<1>4. /\ told \subseteq told' /\ told' \subseteq Runs \X Steps /\ <<r, step[r]>> \in told'
      /\ blind' = blind
  BY <1>1, <1>3
<1>5. \E reason : Settle(r, "failed", reason)
  BY Zenon DEF Timeout
<1> QED
  BY <1>2, <1>3, <1>4, <1>5, SettleIInv

LEMMA CarryIInv ==
  ASSUME IInv, NEW r \in Runs, Carry(r)
  PROVE  IInv'
<1>1. /\ loop[r] = "carry" /\ step[r] < Last /\ step[r] + 1 \in Steps
      /\ pending' = pending \cup {r} /\ human' = human \cup {r}
      /\ loop' = [loop EXCEPT ![r] = "top"]
      /\ step' = [step EXCEPT ![r] = @ + 1]
      /\ handle' = handle \ {r}
      /\ UNCHANGED <<started, status, record, known, event, work, told, blind, caller>>
  BY StepsAreNaturals DEF Carry, IInv, RecordInv, TypeOK, steps
<1>2. TypeOK'
  BY <1>1 DEF IInv, TypeOK, Places, Active
<1>3. r \in blind \/ (work[r][step[r]] = "running" => <<r, step[r]>> \in told)
  BY <1>1 DEF IInv, WorkInv, TypeOK
<1> QED
  BY <1>1, <1>2, <1>3, AdvanceIInv

LEMMA ExceptionIInv ==
  ASSUME IInv, NEW r \in Runs, Exception(r)
  PROVE  IInv'
<1> USE DEF Exception, Finish
<1>1. loop[r] \in Active /\ "failed" \in Terminal
  BY DEF IInv, TypeOK, Places, Terminal
<1>2. TypeOK'
  BY DEF IInv, TypeOK, Places, StatusSet, Terminal
<1> QED
  BY <1>1, <1>2, EndIInv

LEMMA FinallyIInv ==
  ASSUME IInv, NEW r \in Runs, Finally(r)
  PROVE  IInv'
<1> USE DEF IInv, Finally, memory, steps
<1>1. /\ loop[r] = "finally" /\ loop'[r] = "over"
      /\ \A q \in Runs : q # r => loop'[q] = loop[q]
  BY DEF TypeOK
<1>2. TypeOK'
  BY DEF TypeOK, Places
<1>3. FreshInv' /\ ThreadInv'
  BY <1>1 DEF FreshInv, ThreadInv, Active
<1>4. SingleInv'
  BY DEF SingleInv
<1>5. WorkInv' /\ RecordInv'
  BY <1>1 DEF WorkInv, RecordInv, Active
<1> QED
  BY <1>2, <1>3, <1>4, <1>5

-----------------------------------------------------------------------------
(* Outside the thread.                                                     *)

LEMMA CancelIInv ==
  ASSUME IInv, NEW r \in Runs, Cancel(r)
  PROVE  IInv'
<1> USE DEF IInv, Cancel, memory
<1>1. TypeOK' /\ told \subseteq told'
  BY DEF TypeOK
<1>2. FreshInv' /\ ThreadInv' /\ SingleInv'
  BY DEF FreshInv, ThreadInv, SingleInv
<1>3. WorkInv' /\ RecordInv'
  BY <1>1 DEF WorkInv, RecordInv
<1> QED
  BY <1>1, <1>2, <1>3

LEMMA WorkEndsIInv ==
  ASSUME IInv, NEW r \in Runs, NEW i \in Steps, WorkEnds(r, i)
  PROVE  IInv'
<1> USE DEF IInv, WorkEnds, memory, thread
<1>1. work[r][i] = "running"
  OBVIOUS
<1>2. \A q \in Runs, j \in Steps : work'[q][j] = IF q = r /\ j = i THEN "over" ELSE work[q][j]
  BY DEF TypeOK
<1>3. TypeOK'
  BY DEF TypeOK
<1>4. FreshInv' /\ ThreadInv' /\ SingleInv'
  BY <1>1, <1>2 DEF FreshInv, ThreadInv, SingleInv
<1>5. WorkInv' /\ RecordInv'
  BY <1>1, <1>2, <1>3 DEF WorkInv, RecordInv, TypeOK
<1> QED
  BY <1>3, <1>4, <1>5

\* After the end of the server nothing is in memory; the runs it left unfinished have
\* lost sight of their work.
LEMMA RestartIInv ==
  ASSUME IInv, Restart
  PROVE  IInv'
<1> USE DEF IInv, Restart
<1>1. /\ \A r \in Runs : loop'[r] = "none"
      /\ \A r \in Runs : status'[r] = status[r] \/ status'[r] = "none"
      /\ \A c \in Callers : caller'[c] = "idle"
      /\ told \subseteq told' /\ blind \subseteq blind'
      /\ \A r \in Runs, i \in Steps : work'[r][i] = work[r][i] \/ work'[r][i] = "over"
      /\ \A r \in Runs, i \in Steps : work[r][i] = "none" => work'[r][i] = "none"
  BY DEF TypeOK
<1>2. TypeOK'
  <2>0. status' \in [Runs -> StatusSet]
    BY DEF TypeOK, StatusSet
  <2>1. told' \subseteq Runs \X Steps
    BY DEF TypeOK
  <2>2. work' \in [Runs -> [Steps -> {"none", "running", "over"}]]
    BY DEF TypeOK
  <2> QED
    BY <2>0, <2>1, <2>2 DEF TypeOK, Places
<1>3. FreshInv' /\ ThreadInv' /\ SingleInv'
  <2>1. FreshInv'
    BY <1>1 DEF FreshInv
  <2>2. \A r \in Runs : status'[r] \in Unfinished => status[r] \in Unfinished
    BY <1>1 DEF Unfinished
  <2> QED
    BY <1>1, <2>1, <2>2 DEF ThreadInv, SingleInv, Active
<1>4. WorkInv'
  <2>1. \A r \in Runs : status'[r] \in Unfinished => r \in known' \cup blind'
    BY <1>1 DEF WorkInv, Unfinished
  <2>2. ASSUME NEW r \in Runs, r \notin blind', NEW i \in Steps, work'[r][i] = "running"
        PROVE  <<r, i>> \in told'
    <3>1. r \notin blind /\ work[r][i] = "running"
      BY <1>1, <2>2
    <3>2. loop[r] \notin Active
      BY <2>2 DEF ThreadInv
    <3> QED
      BY <1>1, <3>1, <3>2 DEF WorkInv, Active
  <2>3. \A r \in Runs : \A i \in Steps : i > step'[r] => work'[r][i] = "none"
    BY <1>1 DEF WorkInv
  <2> QED
    BY <1>1, <2>1, <2>2, <2>3 DEF WorkInv
<1>5. RecordInv'
  BY <1>1 DEF RecordInv, Active
<1> QED
  BY <1>2, <1>3, <1>4, <1>5

-----------------------------------------------------------------------------

LEMMA NextIInv == IInv /\ [Next]_vars => IInv'
<1> SUFFICES ASSUME IInv, [Next]_vars PROVE IInv'
  OBVIOUS
<1>1. ASSUME NEW c \in Callers, Look(c) \/ Start(c) \/ StartFails(c) PROVE IInv'
  BY <1>1, LookIInv, StartIInv
<1>2. ASSUME NEW r \in Runs, Thread(r) PROVE IInv'
  BY <1>2, BeginIInv, StopHereIInv, EnterIInv, RefuseIInv, LaunchIInv, ReceiveIInv, AbandonIInv,
     ObserveIInv, UnreadableIInv, TimeoutIInv, CarryIInv, ExceptionIInv, FinallyIInv DEF Thread
<1>3. ASSUME NEW r \in Runs, Cancel(r) PROVE IInv'
  BY <1>3, CancelIInv
<1>4. ASSUME NEW r \in Runs, NEW i \in Steps, WorkEnds(r, i) PROVE IInv'
  BY <1>4, WorkEndsIInv
<1>5. CASE Restart
  BY <1>5, RestartIInv
<1>6. CASE UNCHANGED vars
  BY <1>6 DEF IInv, TypeOK, FreshInv, ThreadInv, SingleInv, WorkInv, RecordInv, vars, memory,
     thread, steps
<1> QED
  BY <1>1, <1>2, <1>3, <1>4, <1>5, <1>6 DEF Next

LEMMA Invariance == Spec => []IInv
<1>1. QED
  BY InitIInv, NextIInv, PTL DEF Spec

\* Every variable keeps to its values, whatever the plan and the bounds
\* (conductor.py, OrchestrationRun and _RUNS).
THEOREM TypeCorrect == Spec => []TypeOK
<1>1. IInv => TypeOK
  BY DEF IInv
<1> QED
  BY <1>1, Invariance, PTL

\* One run of the site is unfinished at a time, and no other thread takes steps: the
\* lock around start_if_idle lets one caller look, and a run that reap_orphans ends has
\* no thread in memory (conductor.py, start_if_idle, reap_orphans, _loop).
THEOREM OneConductorHolds == Spec => []OneConductor
<1>1. IInv => OneConductor
  BY DEF IInv, TypeOK, ThreadInv, SingleInv, OneConductor, Places
<1> QED
  BY <1>1, Invariance, PTL

\* Work that a finished run leaves running was asked to stop: _wait tells it on a
\* cancellation and at the deadline, and every other end comes after the work's own or
\* before its start, unless the run lost sight of it.
THEOREM StopAskedHolds == Spec => []StopAsked
<1>1. IInv => StopAsked
  <2> SUFFICES ASSUME IInv, NEW r \in Runs \ blind, status[r] \in Terminal,
                      NEW i \in Steps, work[r][i] = "running"
               PROVE  <<r, i>> \in told
    BY DEF StopAsked
  <2>1. loop[r] \notin Active
    BY DEF IInv, ThreadInv, Terminal, Unfinished
  <2> QED
    BY <2>1 DEF IInv, WorkInv, Active
<1> QED
  BY <1>1, Invariance, PTL

\* A run succeeds only when each of its steps succeeded or was not needed: a human's
\* turn that is carried over the rounds makes the end of the loop ask for the human
\* instead (conductor.py, _settle and _complete).
THEOREM SuccessHolds == Spec => []SucceededMeansDone
<1>1. IInv => SucceededMeansDone
  BY DEF IInv, RecordInv, SucceededMeansDone, Fine
<1> QED
  BY <1>1, Invariance, PTL
=============================================================================
