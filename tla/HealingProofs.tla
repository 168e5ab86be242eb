--------------------------- MODULE HealingProofs ---------------------------
(***************************************************************************)
(* HealingRuns for any number of requests, defects and runs, and any       *)
(* number of failures and restarts: who repairs beside whom, what a        *)
(* cancellation and an approval are worth, and what the cleanup leaves     *)
(* alone.                                                                  *)
(***************************************************************************)
EXTENDS HealingRuns, FiniteSetTheorems, TLAPS

Places ==
  {"none", "queued", "prepare", "top", "verify", "analyze", "located", "fix", "final", "check",
   "handover", "end", "over"}
Files == Statuses \cup {"absent"}
Verdicts == {"none", "awaiting", "approved", "rejected", "returned"}
PRs == {"none", "open", "merged"}
Contents == [status : Files, pr : PRs]
Decisive == {"approve", "reject", "rerun", "merge", "verifying", "merging"}
Owning == {"push", "record"} \cup Decisive
Reports == {NoReport} \cup (Runs \X Defects)

\* What a request holds at each place.
Starts == [at : {"register"}, locked : BOOLEAN, report : Reports]
Sweeps == [at : {"sweep"}, locked : BOOLEAN, report : Reports, run : Runs,
           stale : SUBSET Runs, open : SUBSET Runs]
Marks == [at : {"mark"}, report : Runs \X Defects]
Owners == [at : Owning, run : Runs, defect : SUBSET Defects, own : Objects]
Decisions == [at : {"decide"}, run : Runs, defect : SUBSET Defects, action : Decisive]
States == {Idle} \cup Starts \cup Sweeps \cup Marks \cup Owners \cup Decisions

Registering == {c \in Clients : At(c, "register")}

DataOK ==
  /\ byHand \subseteq Runs
  /\ held \in [Runs -> {Nobody} \cup Objects]
  /\ object \in [Runs -> [Objects -> Contents]]
  /\ file \in [Runs -> Contents]
  /\ loop \in [Runs -> Places]
  /\ round \in [Runs -> 1..MaxIterations]
  /\ asked \subseteq Runs
  /\ found \in [Runs -> SUBSET Defects] /\ applied \in [Runs -> SUBSET Defects]
  /\ branch \in [Runs -> {"none", "there", "gone"}]
  /\ trees \subseteq Runs
  /\ github \in [Runs -> PRs]
  /\ report \in [Runs -> [Defects -> Verdicts]]
  /\ decisions \in 0..MaxDecisions /\ faults \in 0..MaxFaults /\ crashes \in 0..MaxCrashes

TypeOK ==
  /\ DataOK
  /\ created \in Nat
  /\ created + Cardinality(Registering) <= MaxRuns
  /\ client \in [Clients -> States]

\* A run that a request is about to start the thread of.
Swept(r) == \E c \in Clients : At(c, "sweep") /\ client[c].run = r
Live(r) == Working(r) \/ Swept(r)

\* A run whose thread has done its work, and one that takes decisions.
Past(r) == r <= created /\ ~Working(r) /\ ~Swept(r)
Settled(r) == Past(r) /\ loop[r] # "handover"

\* A run whose pull request its thread's object knows; and one that was sent.
Kept(r) == held[r] = Thread => Known(r).pr # "none"
Sent(r) == github[r] # "none" /\ Kept(r)

\* A run that was not started yet is nowhere.
FreshInv ==
  \A r \in Runs : r > created =>
    held[r] = Nobody /\ file[r].status = "absent" /\ loop[r] = "none" /\ github[r] = "none"

\* A run with a thread is known by the thread's object, and a thread at work is seen
\* to be: in memory and in the file its run is active.
LoopInv ==
  \A r \in Runs :
    /\ loop[r] # "none" => held[r] = Thread
    /\ Working(r) => Memory(r) \in Active /\ file[r].status = Memory(r)
    /\ loop[r] = "handover" => Memory(r) = "succeeded"

\* Between its registration and its thread a run belongs to one request, and what
\* that request will clear away is past and old.
SweepInv ==
  \A c \in Clients : At(c, "sweep") =>
    /\ client[c].run <= created /\ loop[client[c].run] = "none" /\ held[client[c].run] = Thread
    /\ Memory(client[c].run) = "queued" /\ file[client[c].run].status = "queued"
    /\ \A b \in Clients : At(b, "sweep") /\ client[b].run = client[c].run => b = c
    /\ \A r \in client[c].stale : Past(r) /\ created - r >= Keep

\* The object that a request in state k works on is the thread's while that one is in
\* memory; otherwise the run takes decisions.
Owns(k) ==
  /\ k.own = Thread <=> held[k.run] = Thread
  /\ k.own # Thread => Settled(k.run)

\* Decisions are about runs that take them, and one that approves a repair has its
\* pull request.
ClientOK(c) ==
  /\ client[c].at \in Owning => Owns(client[c])
  /\ client[c].at \in Decisive \cup {"decide"} => Settled(client[c].run)
  /\ client[c].at \in {"push", "record"} /\ client[c].defect # {} => Settled(client[c].run)
  /\ client[c].at \in {"register", "sweep", "mark"} /\ client[c].report # NoReport =>
       Settled(client[c].report[1])
  /\ At(c, "record") => github[client[c].run] # "none"
  /\ At(c, "approve") \/ (At(c, "decide") /\ client[c].action = "approve") =>
       \A d \in client[c].defect \cap applied[client[c].run] : Sent(client[c].run)

ClientInv == \A c \in Clients : ClientOK(c)

Locks(c) == client[c].at \in {"register", "sweep"} /\ client[c].locked

\* Who holds the lock found nothing live, and since then runs start by hand only.
LockInv ==
  /\ \A b, c \in Clients : Locks(b) /\ Locks(c) => b = c
  /\ \A c \in Clients, r \in Runs : At(c, "register") /\ Locks(c) /\ Live(r) => r \in byHand
  /\ \A r, q \in Runs : r # q /\ Live(r) /\ Live(q) => r \in byHand \/ q \in byHand

\* Pull requests that are known of are at GitHub.
Honest(r) ==
  /\ file[r].pr # "none" => github[r] # "none"
  /\ \A o \in Objects : object[r][o].pr # "none" => github[r] # "none"

\* Reports are about runs that take decisions.
ReportInv ==
  \A r \in Runs :
    /\ Honest(r)
    /\ \A d \in Defects :
         /\ report[r][d] # "none" => Settled(r)
         /\ d \in applied[r] /\ report[r][d] = "approved" => Sent(r)

IInv == TypeOK /\ FreshInv /\ LoopInv /\ SweepInv /\ ClientInv /\ LockInv /\ ReportInv

-----------------------------------------------------------------------------
(* What the parts of the state say together.                               *)

\* What a request holds follows from where it is.
LEMMA StateFields ==
  ASSUME NEW k \in States
  PROVE  /\ k.at \in {"idle", "register", "sweep", "mark", "decide"} \cup Owning
         /\ k.at = "register" => k \in Starts
         /\ k.at = "sweep" => k \in Sweeps
         /\ k.at = "mark" => k \in Marks
         /\ k.at = "decide" => k \in Decisions
         /\ k.at \in Owning => k \in Owners
  BY DEF States, Idle, Starts, Sweeps, Marks, Owners, Decisions, Owning, Decisive

LEMMA ClientFields ==
  ASSUME TypeOK, NEW c \in Clients
  PROVE  /\ client[c].at \in {"idle", "register", "sweep", "mark", "decide"} \cup Owning
         /\ client[c].at \in {"register", "sweep"} =>
              client[c].locked \in BOOLEAN /\ client[c].report \in Reports
         /\ client[c].at = "sweep" =>
              /\ client[c].run \in Runs
              /\ client[c].stale \subseteq Runs /\ client[c].open \subseteq Runs
         /\ client[c].at = "mark" => client[c].report \in Runs \X Defects
         /\ client[c].at = "decide" =>
              /\ client[c] \in Decisions
              /\ client[c].run \in Runs /\ client[c].defect \subseteq Defects
              /\ client[c].action \in Decisive
         /\ client[c].at \in Owning =>
              /\ client[c] \in Owners
              /\ client[c].run \in Runs /\ client[c].defect \subseteq Defects
              /\ client[c].own \in Objects
<1>1. client[c] \in States
  BY DEF TypeOK
<1>2. client[c].at = "register" => client[c].locked \in BOOLEAN /\ client[c].report \in Reports
  BY <1>1, StateFields DEF Starts
<1>3. client[c].at = "sweep" =>
        /\ client[c].locked \in BOOLEAN /\ client[c].report \in Reports
        /\ client[c].run \in Runs
        /\ client[c].stale \subseteq Runs /\ client[c].open \subseteq Runs
  BY <1>1, StateFields DEF Sweeps
<1>4. client[c].at = "mark" => client[c].report \in Runs \X Defects
  BY <1>1, StateFields DEF Marks
<1>5. client[c].at = "decide" =>
        /\ client[c] \in Decisions
        /\ client[c].run \in Runs /\ client[c].defect \subseteq Defects
        /\ client[c].action \in Decisive
  BY <1>1, StateFields DEF Decisions
<1>6. client[c].at \in Owning =>
        /\ client[c] \in Owners
        /\ client[c].run \in Runs /\ client[c].defect \subseteq Defects
        /\ client[c].own \in Objects
  BY <1>1, StateFields DEF Owners
<1> QED
  BY <1>1, <1>2, <1>3, <1>4, <1>5, <1>6, StateFields

\* One request moves, the others stay.
LEMMA Moved ==
  ASSUME TypeOK, NEW c \in Clients, NEW k, Go(c, k)
  PROVE  client'[c] = k /\ \A b \in Clients : b # c => client'[b] = client[b]
  BY DEF TypeOK, Go

\* A request that starts a run takes a number, and one that registers it uses it up.
LEMMA Numbers ==
  ASSUME TypeOK, NEW c \in Clients, NEW k, Go(c, k)
  PROVE  /\ Cardinality(Registering) \in Nat /\ Cardinality(Registering') \in Nat
         /\ k.at # "register" => Cardinality(Registering') <= Cardinality(Registering)
         /\ k.at = "register" => Cardinality(Registering') <= Cardinality(Registering) + 1
         /\ k.at # "register" /\ At(c, "register") =>
              Cardinality(Registering') + 1 <= Cardinality(Registering)
<1>1. IsFiniteSet(Registering) /\ IsFiniteSet(Registering')
  BY FS_Subset, HealingAssumption DEF Registering
<1>2. Cardinality(Registering) \in Nat /\ Cardinality(Registering') \in Nat
  BY <1>1, FS_CardinalityType
<1>3. ASSUME k.at # "register" PROVE Cardinality(Registering') <= Cardinality(Registering)
  <2>1. Registering' \subseteq Registering
    BY <1>3, Moved DEF Registering, At
  <2> QED
    BY <1>1, <2>1, FS_Subset
<1>4. ASSUME k.at = "register"
      PROVE  Cardinality(Registering') <= Cardinality(Registering) + 1
  <2>1. Registering' \subseteq Registering \cup {c}
    BY <1>4, Moved DEF Registering, At
  <2>2. /\ IsFiniteSet(Registering \cup {c})
        /\ \/ Cardinality(Registering \cup {c}) = Cardinality(Registering)
           \/ Cardinality(Registering \cup {c}) = Cardinality(Registering) + 1
    BY <1>1, FS_AddElement
  <2>3. Cardinality(Registering') <= Cardinality(Registering \cup {c})
    BY <2>1, <2>2, FS_Subset
  <2> QED
    BY <1>2, <2>2, <2>3
<1>5. ASSUME k.at # "register", At(c, "register")
      PROVE  Cardinality(Registering') + 1 <= Cardinality(Registering)
  <2>1. Registering' \subseteq Registering \ {c} /\ c \in Registering
    BY <1>5, Moved DEF Registering, At
  <2>2. /\ IsFiniteSet(Registering \ {c})
        /\ Cardinality(Registering \ {c}) = Cardinality(Registering) - 1
    BY <1>1, <2>1, FS_RemoveElement
  <2>3. Cardinality(Registering') <= Cardinality(Registering \ {c})
    BY <2>1, <2>2, FS_Subset
  <2> QED
    BY <1>2, <2>2, <2>3
<1> QED
  BY <1>2, <1>3, <1>4, <1>5

\* A request that registers a run has a number for it.
LEMMA NextNumber ==
  ASSUME TypeOK, NEW c \in Clients, At(c, "register")
  PROVE  created + 1 \in Runs
<1>1. IsFiniteSet(Registering) /\ c \in Registering
  BY FS_Subset, HealingAssumption DEF Registering
<1>2. Cardinality(Registering) \in Nat /\ Cardinality(Registering) # 0
  BY <1>1, FS_CardinalityType, FS_EmptySet
<1> QED
  BY <1>2, HealingAssumption DEF TypeOK, Runs

LEMMA InitIInv == Init => IInv
<1> SUFFICES ASSUME Init PROVE IInv
  OBVIOUS
<1>1. DataOK
  <2>1. Blank \in Contents
    BY DEF Blank, Contents, Files, PRs
  <2> QED
    BY <2>1, HealingAssumption DEF Init, DataOK, Files, Places, Verdicts, PRs
<1>2. client \in [Clients -> States] /\ \A c \in Clients : client[c].at = "idle"
  BY DEF Init, States, Idle
<1>3. Registering = {}
  BY <1>2 DEF Registering, At
<1>4. created = 0 /\ Cardinality(Registering) = 0
  BY <1>3, FS_EmptySet DEF Init
<1>5. TypeOK
  BY <1>1, <1>2, <1>4, HealingAssumption DEF TypeOK
<1>6. FreshInv /\ LoopInv /\ ReportInv
  BY DEF Init, FreshInv, LoopInv, ReportInv, Honest, Working, Blank
<1>7. SweepInv /\ ClientInv
  BY <1>2 DEF SweepInv, ClientInv, ClientOK, At, Decisive, Owning
<1>8. LockInv
  BY <1>2 DEF LockInv, Locks, Live, Swept, Working, Init, At
<1> QED
  BY <1>5, <1>6, <1>7, <1>8 DEF IInv

-----------------------------------------------------------------------------
(* Types.                                                                  *)

LEMMA TypeGo ==
  ASSUME TypeOK, DataOK', NEW c \in Clients, NEW k \in States, Go(c, k), created' = created,
         k.at = "register" => Room
  PROVE  TypeOK'
<1>1. client' \in [Clients -> States]
  BY DEF Go, TypeOK
<1>2. k.at = "register" => created + Cardinality(Registering) < MaxRuns
  BY DEF Room, Registering
<1>3. created' + Cardinality(Registering') <= MaxRuns
  BY <1>2, Numbers, HealingAssumption DEF TypeOK
<1> QED
  BY <1>1, <1>3 DEF TypeOK

LEMMA TypeStay ==
  ASSUME TypeOK, DataOK', UNCHANGED <<created, client>>
  PROVE  TypeOK'
<1>1. Registering' = Registering
  BY DEF Registering, At
<1> QED
  BY <1>1 DEF TypeOK

LEMMA FilesHold ==
  /\ Statuses \subseteq Files /\ "absent" \in Files /\ Active \subseteq Files
  /\ {"queued", "preparing", "verifying", "reverifying", "analyzing", "fixing", "failed",
      "cancelled", "succeeded", "no_defects", "awaiting_human"} \subseteq Files
  BY DEF Files, Statuses, Active, Terminal

\* The thread is no request, and neither is nobody.
LEMMA ObjectNames ==
  /\ Thread \in Objects /\ Thread # Nobody /\ Nobody \notin Objects
  /\ \A c \in Clients : c \in Objects /\ c # Thread /\ c # Nobody
<1>1. Thread # Nobody
  BY DEF Thread, Nobody
<1>2. \A c \in Clients : c # Thread /\ c # Nobody
  BY HealingAssumption
<1> QED
  BY <1>1, <1>2 DEF Objects

\* A change of an object's status leaves its pull request, and conversely.
LEMMA ContentsHold ==
  ASSUME NEW x \in Contents
  PROVE  /\ x.status \in Files /\ x.pr \in PRs
         /\ \A new \in Files :
              /\ [x EXCEPT !.status = new] \in Contents
              /\ [x EXCEPT !.status = new].status = new
              /\ [x EXCEPT !.status = new].pr = x.pr
         /\ \A new \in PRs :
              /\ [x EXCEPT !.pr = new] \in Contents
              /\ [x EXCEPT !.pr = new].status = x.status
              /\ [x EXCEPT !.pr = new].pr = new
  BY DEF Contents

LEMMA KnownType ==
  ASSUME DataOK, NEW r \in Runs
  PROVE  /\ held[r] # Nobody => held[r] \in Objects
         /\ file[r] \in Contents
         /\ \A o \in Objects : object[r][o] \in Contents
         /\ Known(r) \in Contents
  BY DEF Known, DataOK

\* What goes to _RUNS and to the file.
LEMMA HoldFacts ==
  ASSUME DataOK, NEW r \in Runs, NEW o \in Objects, NEW new \in Contents, Hold(r, o, new)
  PROVE  /\ held' \in [Runs -> {Nobody} \cup Objects]
         /\ object' \in [Runs -> [Objects -> Contents]]
         /\ held'[r] = o /\ object'[r][o] = new
         /\ \A p \in Objects : p # o => object'[r][p] = object[r][p]
         /\ \A q \in Runs : q # r => held'[q] = held[q] /\ object'[q] = object[q]
<1>1. /\ held' = [held EXCEPT ![r] = o]
      /\ object' = [object EXCEPT ![r][o] = new]
  BY DEF Hold
<1>2. object' \in [Runs -> [Objects -> Contents]]
  BY <1>1 DEF DataOK
<1> QED
  BY <1>1, <1>2 DEF DataOK

LEMMA PutFacts ==
  ASSUME DataOK, NEW r \in Runs, NEW o \in Objects, NEW new \in Contents, Put(r, o, new)
  PROVE  /\ Hold(r, o, new)
         /\ held' \in [Runs -> {Nobody} \cup Objects]
         /\ object' \in [Runs -> [Objects -> Contents]]
         /\ file' \in [Runs -> Contents]
         /\ file'[r] = new
         /\ \A q \in Runs : q # r => file'[q] = file[q]
  BY HoldFacts DEF DataOK, Put

\* The status of a cancelled object stays, its pull request anyhow.
LEMMA UpdateFacts ==
  ASSUME DataOK, NEW r \in Runs, NEW o \in Objects, NEW new \in Files, Update(r, o, new)
  PROVE  \E x \in Contents :
           /\ Put(r, o, x)
           /\ x.pr = object[r][o].pr
           /\ x.status = IF object[r][o].status = "cancelled" THEN "cancelled" ELSE new
<1>1. object[r][o] \in Contents
  BY KnownType
<1>2. CASE object[r][o].status = "cancelled"
  <2> DEFINE x == [object[r][o] EXCEPT !.status = "cancelled"]
  <2>1. Put(r, o, x)
    BY <1>2 DEF Update
  <2>2. x \in Contents /\ x.pr = object[r][o].pr /\ x.status = "cancelled"
    BY <1>1, ContentsHold, FilesHold
  <2> HIDE DEF x
  <2> QED
    BY <1>2, <2>1, <2>2
<1>3. CASE object[r][o].status # "cancelled"
  <2> DEFINE x == [object[r][o] EXCEPT !.status = new]
  <2>1. Put(r, o, x)
    BY <1>3 DEF Update
  <2>2. x \in Contents /\ x.pr = object[r][o].pr /\ x.status = new
    BY <1>1, ContentsHold
  <2> HIDE DEF x
  <2> QED
    BY <1>3, <2>1, <2>2
<1> QED
  BY <1>2, <1>3

LEMMA AssignFacts ==
  ASSUME DataOK, NEW r \in Runs, NEW new \in Files, Assign(r, new)
  PROVE  \E x \in Contents :
           /\ Put(r, Thread, x)
           /\ x.pr = object[r][Thread].pr
           /\ x.status = new
<1> DEFINE x == [object[r][Thread] EXCEPT !.status = new]
<1>1. object[r][Thread] \in Contents
  BY KnownType, ObjectNames
<1>2. x \in Contents /\ x.pr = object[r][Thread].pr /\ x.status = new
  BY <1>1, ContentsHold
<1>3. Put(r, Thread, x)
  BY DEF Assign
<1> HIDE DEF x
<1> QED
  BY <1>2, <1>3

LEMMA ReapedType ==
  ASSUME DataOK
  PROVE  /\ Reaped \in [Runs -> Contents]
         /\ \A r \in Runs :
              /\ Reaped[r].pr = file[r].pr
              /\ Reaped[r] # file[r] => held[r] = Nobody /\ file[r].status \in Active
<1>1. \A r \in Runs : /\ [file[r] EXCEPT !.status = "failed"] \in Contents
                      /\ [file[r] EXCEPT !.status = "failed"].pr = file[r].pr
                      /\ file[r] \in Contents
  BY KnownType, ContentsHold, FilesHold
<1> QED
  BY <1>1 DEF Reaped, Orphans

LEMMA MarkType ==
  ASSUME DataOK, NEW r \in Runs, NEW some, NEW verdict \in Verdicts, Mark(r, some, verdict)
  PROVE  report' \in [Runs -> [Defects -> Verdicts]]
  BY DEF DataOK, Mark

\* What was put keeps the types.
RunOK ==
  /\ held \in [Runs -> {Nobody} \cup Objects]
  /\ object \in [Runs -> [Objects -> Contents]]
  /\ file \in [Runs -> Contents]

LEMMA TellType ==
  ASSUME DataOK, NEW r \in Runs, NEW new \in Files, Tell(r, new) \/ Assign(r, new)
  PROVE  RunOK'
<1>1. \E x \in Contents : Put(r, Thread, x)
  BY UpdateFacts, AssignFacts, ObjectNames DEF Tell
<1> QED
  BY <1>1, PutFacts, ObjectNames DEF RunOK

\* A thread keeps the types.
LEMMA LoopTypes ==
  ASSUME TypeOK, NEW r \in Runs, RunLoop(r)
  PROVE  TypeOK'
<1> USE DEF Step, LoopRest, run, work, repository, counts, RunOK
<1>1. DataOK
  BY DEF TypeOK
<1>2. UNCHANGED <<created, client>>
  BY DEF RunLoop, Prepare, PrepareFails, Branch, Stop, Verify, Green, Red, Unexplained,
         TestsOnly, Locate, BeginFix, Fix, FixNothing, Reverify, Checked, HandOver, Exception,
         End, EndFails
<1> SUFFICES DataOK'
  BY <1>2, TypeStay
<1>3. CASE Prepare(r)
  BY <1>1, <1>3, TellType, FilesHold DEF Prepare, DataOK, Places
<1>4. CASE PrepareFails(r)
  BY <1>1, <1>4, TellType, FilesHold DEF PrepareFails, DataOK, Places
<1>5. CASE Branch(r)
  BY <1>1, <1>5 DEF Branch, DataOK, Places
<1>6. CASE Stop(r)
  BY <1>1, <1>6, TellType, FilesHold DEF Stop, DataOK, Places
<1>7. CASE Verify(r)
  BY <1>1, <1>7, TellType, FilesHold DEF Verify, DataOK, Places
<1>8. CASE Green(r)
  BY <1>1, <1>8, TellType, FilesHold DEF Green, DataOK, Places
<1>9. CASE Red(r)
  BY <1>1, <1>9, TellType, FilesHold DEF Red, DataOK, Places
<1>10. CASE Unexplained(r)
  BY <1>1, <1>10, TellType, FilesHold DEF Unexplained, DataOK, Places
<1>11. CASE TestsOnly(r)
  BY <1>1, <1>11, TellType, FilesHold DEF TestsOnly, Record, DataOK, Places
<1>12. CASE Locate(r)
  BY <1>1, <1>12 DEF Locate, Record, DataOK, Places
<1>13. CASE BeginFix(r)
  BY <1>1, <1>13, TellType, FilesHold DEF BeginFix, DataOK, Places
<1>14. CASE Fix(r)
  <2>1. applied' \in [Runs -> SUBSET Defects]
    BY <1>1, <1>14 DEF Fix, DataOK
  <2>2. round' \in [Runs -> 1..MaxIterations]
    <3>1. round[r] \in 1..MaxIterations
      BY <1>1 DEF DataOK
    <3>2. round[r] # MaxIterations => round[r] + 1 \in 1..MaxIterations
      BY <3>1, HealingAssumption
    <3>3. (IF round[r] = MaxIterations THEN round[r] ELSE round[r] + 1) \in 1..MaxIterations
      BY <3>1, <3>2
    <3> QED
      BY <1>1, <1>14, <3>3 DEF Fix, DataOK
  <2>3. loop' \in [Runs -> Places]
    BY <1>1, <1>14 DEF Fix, DataOK, Places
  <2> QED
    BY <1>1, <1>14, <2>1, <2>2, <2>3 DEF Fix, DataOK
<1>15. CASE FixNothing(r)
  BY <1>1, <1>15, TellType, FilesHold DEF FixNothing, DataOK, Places
<1>16. CASE Reverify(r)
  BY <1>1, <1>16, TellType, FilesHold DEF Reverify, DataOK, Places
<1>17. CASE Checked(r)
  BY <1>1, <1>17, TellType, FilesHold DEF Checked, DataOK, Places
<1>18. CASE HandOver(r)
  BY <1>1, <1>18, TellType, FilesHold DEF HandOver, DataOK, Places
<1>19. CASE Exception(r)
  <2> DEFINE new == [object[r][Thread] EXCEPT !.status = "failed"]
  <2>1. new \in Contents
    BY <1>1, KnownType, ContentsHold, ObjectNames, FilesHold
  <2>2. Hold(r, Thread, new) /\ file' \in {file, [file EXCEPT ![r] = new]}
    BY <1>19 DEF Exception
  <2> HIDE DEF new
  <2>3. /\ held' \in [Runs -> {Nobody} \cup Objects]
        /\ object' \in [Runs -> [Objects -> Contents]]
    BY <1>1, <2>1, <2>2, HoldFacts, ObjectNames
  <2>4. file' \in [Runs -> Contents]
    BY <1>1, <2>1, <2>2 DEF DataOK
  <2>5. faults' \in 0..MaxFaults
    BY <1>1, <1>19, HealingAssumption DEF Exception, DataOK
  <2> QED
    BY <1>1, <1>19, <2>3, <2>4, <2>5 DEF Exception, DataOK, Places
<1>20. CASE End(r)
  <2>1. file' \in [Runs -> Contents]
    BY <1>1, <1>20, KnownType, ObjectNames DEF End, DataOK
  <2>2. report' \in [Runs -> [Defects -> Verdicts]]
    BY <1>1, <1>20 DEF End, DataOK, Verdicts
  <2> QED
    BY <1>1, <1>20, <2>1, <2>2 DEF End, DataOK, Places
<1>21. CASE EndFails(r)
  BY <1>1, <1>21, HealingAssumption DEF EndFails, DataOK, Places
<1> QED
  BY <1>3, <1>4, <1>5, <1>6, <1>7, <1>8, <1>9, <1>10, <1>11, <1>12, <1>13, <1>14, <1>15,
     <1>16, <1>17, <1>18, <1>19, <1>20, <1>21 DEF RunLoop

LEMMA StatesHold ==
  /\ Idle \in States /\ Idle.at = "idle"
  /\ \A k \in Starts \cup Sweeps \cup Marks \cup Owners \cup Decisions : k \in States
  /\ \A l \in BOOLEAN, p \in Reports : [at |-> "register", locked |-> l, report |-> p] \in Starts
  /\ \A r \in Runs, s \in SUBSET Defects, a \in Decisive :
       /\ Decide(r, s, a) \in Decisions
       /\ Decide(r, s, a).at = "decide" /\ Decide(r, s, a).run = r
       /\ Decide(r, s, a).defect = s /\ Decide(r, s, a).action = a
  /\ \A a \in Owning, r \in Runs, s \in SUBSET Defects, o \in Objects :
       [at |-> a, run |-> r, defect |-> s, own |-> o] \in Owners
  /\ \A k \in Owners, a \in Owning :
       /\ [k EXCEPT !.at = a] \in Owners
       /\ [k EXCEPT !.at = a].at = a /\ [k EXCEPT !.at = a].run = k.run
       /\ [k EXCEPT !.at = a].defect = k.defect /\ [k EXCEPT !.at = a].own = k.own
<1>1. Idle \in States /\ Idle.at = "idle"
  BY DEF Idle, States
<1>2. \A k \in Starts \cup Sweeps \cup Marks \cup Owners \cup Decisions : k \in States
  BY DEF States
<1>3. \A l \in BOOLEAN, p \in Reports :
        [at |-> "register", locked |-> l, report |-> p] \in Starts
  BY DEF Starts
<1>4. \A r \in Runs, s \in SUBSET Defects, a \in Decisive :
        /\ Decide(r, s, a) \in Decisions
        /\ Decide(r, s, a).at = "decide" /\ Decide(r, s, a).run = r
        /\ Decide(r, s, a).defect = s /\ Decide(r, s, a).action = a
  BY DEF Decisions, Decide
<1>5. \A a \in Owning, r \in Runs, s \in SUBSET Defects, o \in Objects :
        [at |-> a, run |-> r, defect |-> s, own |-> o] \in Owners
  BY DEF Owners
<1>6. ASSUME NEW k \in Owners, NEW a \in Owning
      PROVE  /\ [k EXCEPT !.at = a] \in Owners
             /\ [k EXCEPT !.at = a].at = a /\ [k EXCEPT !.at = a].run = k.run
             /\ [k EXCEPT !.at = a].defect = k.defect /\ [k EXCEPT !.at = a].own = k.own
  BY DEF Owners
<1> QED
  BY <1>1, <1>2, <1>3, <1>4, <1>5, <1>6

-----------------------------------------------------------------------------
(* What stays: a run that is past stays past, one that takes decisions goes *)
(* on taking them.                                                         *)

LEMMA Stays ==
  ASSUME IInv, NEW r \in Runs, created \in Nat, created' \in Nat, created <= created',
         Live(r)' => Live(r),
         loop'[r] = "handover" => loop[r] = "handover" \/ Working(r)
  PROVE  /\ Past(r) => Past(r)'
         /\ Settled(r) => Settled(r)'
<1>1. r \in Nat
  BY DEF Runs
<1>2. r <= created => r <= created'
  BY <1>1
<1> QED
  BY <1>2 DEF Past, Settled, Live

\* A run that is not known by its thread's object has no thread and nobody who is about
\* to start one.
LEMMA FileSettles ==
  ASSUME IInv, NEW r \in Runs, held[r] # Thread, held[r] # Nobody \/ file[r].status # "absent"
  PROVE  Settled(r) /\ loop[r] = "none"
<1>1. loop[r] = "none"
  BY DEF IInv, LoopInv
<1>2. r <= created
  BY DEF IInv, FreshInv, TypeOK, Runs
<1>3. ~Swept(r)
  BY DEF Swept, IInv, SweepInv
<1> QED
  BY <1>1, <1>2, <1>3 DEF Settled, Past, Working

\* What a request may do to a run: nothing, reap it, save it as it is in memory, or
\* anything if it takes decisions; its thread's object stays.
Touch(q) ==
  /\ held'[q] = Thread <=> held[q] = Thread
  /\ held'[q] = Nobody => held[q] = Nobody
  /\ \/ held'[q] = held[q] /\ Memory(q)' = Memory(q) /\ file'[q].status = file[q].status
     \/ held[q] = Nobody /\ held'[q] = Nobody /\ file[q].status # "absent"
     \/ held[q] # Nobody /\ Memory(q)' = Memory(q) /\ file'[q].status = Memory(q)
     \/ Settled(q)

\* What a request leaves of a run to the others.
Shares(q) ==
  /\ held'[q] = Thread <=> held[q] = Thread
  /\ held'[q] = Nobody => held[q] = Nobody

\* A request that does not move goes on as before.
LEMMA OthersStay ==
  ASSUME IInv, NEW b \in Clients, client'[b] = client[b],
         \A q \in Runs : Settled(q) =>
           /\ Settled(q)' /\ applied'[q] = applied[q]
           /\ Sent(q) => Sent(q)',
         \A q \in Runs : github[q] # "none" => github'[q] # "none",
         client[b].at \in Owning => Shares(client[b].run)
  PROVE  ClientOK(b)'
<1>1. ClientOK(b) /\ TypeOK
  BY DEF IInv, ClientInv
<1>2. client[b].at \in Owning \cup Decisive \cup {"decide", "record", "push"} =>
        client[b].run \in Runs
  BY <1>1, ClientFields DEF Owning
<1>3. client[b].at \in {"register", "sweep", "mark"} /\ client[b].report # NoReport =>
        client[b].report[1] \in Runs
  BY <1>1, ClientFields DEF Reports
<1>4. client[b].at \in Owning => Owns(client[b])'
  <2> SUFFICES ASSUME client[b].at \in Owning PROVE Owns(client[b])'
    OBVIOUS
  <2>1. Owns(client[b]) /\ client[b].run \in Runs
    BY <1>1, <1>2 DEF ClientOK
  <2>2. client[b].own # Thread => Settled(client[b].run)'
    BY <2>1 DEF Owns
  <2> QED
    BY <2>1, <2>2 DEF Owns, Shares
<1>5. client[b].at \in Decisive \cup {"decide"} => Settled(client[b].run)'
  BY <1>1, <1>2 DEF ClientOK
<1>6. client[b].at \in {"push", "record"} /\ client[b].defect # {} => Settled(client[b].run)'
  BY <1>1, <1>2 DEF ClientOK
<1>7. client[b].at \in {"register", "sweep", "mark"} /\ client[b].report # NoReport =>
        Settled(client[b].report[1])'
  BY <1>1, <1>3 DEF ClientOK
<1>8. client[b].at = "record" => github'[client[b].run] # "none"
  BY <1>1, <1>2 DEF ClientOK, At
<1>9. client[b].at = "approve" \/ (client[b].at = "decide" /\ client[b].action = "approve") =>
        \A d \in client[b].defect \cap applied'[client[b].run] : Sent(client[b].run)'
  BY <1>1, <1>2 DEF ClientOK, At, Decisive
<1> QED
  BY <1>4, <1>5, <1>6, <1>7, <1>8, <1>9 DEF ClientOK, At

\* Every step of a request but those that register a run and start its thread.
LEMMA RequestIInv ==
  ASSUME IInv, DataOK', NEW c \in Clients, NEW k \in States, Go(c, k),
         k.at = "register" => Room,
         client[c].at \notin {"register", "sweep"}, k.at # "sweep",
         UNCHANGED <<created, byHand, loop, applied>>,
         \A q \in Runs : Touch(q),
         \A q \in Runs : (Kept(q) => Kept(q)') /\ (github[q] # "none" => github'[q] # "none"),
         \A q \in Runs : Honest(q)' /\ (github'[q] # "none" => github[q] # "none" \/ q <= created),
         \A q \in Runs, d \in Defects :
           /\ report'[q][d] # "none" => report[q][d] # "none" \/ Settled(q)
           /\ report'[q][d] = "approved" /\ d \in applied[q] =>
                report[q][d] = "approved" \/ Sent(q)',
         k.at = "register" /\ k.locked =>
           /\ \A b \in Clients : ~Locks(b)
           /\ \A q \in Runs : ~Live(q),
         k.at \in {"register", "mark"} /\ k.report # NoReport => Settled(k.report[1]),
         k.at \in Owning => Owns(k)',
         k.at \in Decisive \cup {"decide"} => Settled(k.run),
         k.at \in {"push", "record"} /\ k.defect # {} => Settled(k.run),
         k.at = "record" => github'[k.run] # "none",
         k.at = "approve" \/ (k.at = "decide" /\ k.action = "approve") =>
           \A d \in k.defect \cap applied[k.run] : Sent(k.run)'
  PROVE  IInv'
<1> USE DEF IInv
<1>0. TypeOK' /\ TypeOK /\ DataOK
  BY TypeGo DEF TypeOK
<1>1. client'[c] = k /\ \A b \in Clients : b # c => client'[b] = client[b]
  BY Moved
<1>2. \A b \in Clients : At(b, "sweep")' <=> At(b, "sweep")
  BY <1>1 DEF At
<1>3. \A b \in Clients : At(b, "sweep") => b # c /\ client'[b] = client[b]
  BY <1>1 DEF At
<1>4. \A q \in Runs : /\ Working(q)' <=> Working(q)
                      /\ Swept(q)' <=> Swept(q)
                      /\ Live(q)' <=> Live(q)
                      /\ Past(q)' <=> Past(q)
                      /\ Settled(q)' <=> Settled(q)
  <2>1. \A q \in Runs : Working(q)' <=> Working(q)
    BY DEF Working
  <2>2. \A q \in Runs : Swept(q)' <=> Swept(q)
    BY <1>2, <1>3 DEF Swept
  <2> QED
    BY <2>1, <2>2 DEF Live, Past, Settled
<1>5. FreshInv'
  <2> SUFFICES ASSUME NEW q \in Runs, q > created
               PROVE  /\ held'[q] = Nobody /\ file'[q].status = "absent" /\ loop[q] = "none"
                      /\ github'[q] = "none"
    BY DEF FreshInv
  <2>1. /\ held[q] = Nobody /\ file[q].status = "absent" /\ loop[q] = "none"
        /\ github[q] = "none"
    BY DEF FreshInv
  <2>2. ~Settled(q) /\ ~(q <= created)
    BY DEF Settled, Past, Runs, TypeOK
  <2>3. held'[q] = Nobody /\ file'[q].status = "absent"
    BY <2>1, <2>2 DEF Touch
  <2> QED
    BY <2>1, <2>2, <2>3
<1>6. LoopInv'
  <2> SUFFICES ASSUME NEW q \in Runs
               PROVE  /\ loop[q] # "none" => held'[q] = Thread
                      /\ Working(q) => Memory(q)' \in Active /\ file'[q].status = Memory(q)'
                      /\ loop[q] = "handover" => Memory(q)' = "succeeded"
    BY <1>4 DEF LoopInv
  <2>1. /\ loop[q] # "none" => held[q] = Thread
        /\ Working(q) => Memory(q) \in Active /\ file[q].status = Memory(q)
        /\ loop[q] = "handover" => Memory(q) = "succeeded"
    BY DEF LoopInv
  <2>2. Working(q) \/ loop[q] = "handover" => loop[q] # "none" /\ ~Settled(q)
    BY DEF Working, Settled, Past
  <2>3. loop[q] # "none" => held'[q] = Thread /\ held[q] # Nobody
    BY <2>1, ObjectNames DEF Touch
  <2> QED
    BY <2>1, <2>2, <2>3 DEF Touch
<1>7. SweepInv'
  <2> SUFFICES ASSUME NEW b \in Clients, At(b, "sweep")
               PROVE  /\ client[b].run <= created /\ loop[client[b].run] = "none"
                      /\ held'[client[b].run] = Thread
                      /\ Memory(client[b].run)' = "queued" /\ file'[client[b].run].status = "queued"
                      /\ \A a \in Clients :
                           At(a, "sweep") /\ client[a].run = client[b].run => a = b
                      /\ \A r \in client[b].stale : Past(r)' /\ created - r >= Keep
    BY <1>2, <1>3 DEF SweepInv, Memory
  <2>1. client[b].run \in Runs /\ client[b].stale \subseteq Runs
    BY <1>0, ClientFields DEF At
  <2>2. Swept(client[b].run) /\ ~Settled(client[b].run)
    BY DEF Swept, Settled, Past
  <2>3. /\ held[client[b].run] = Thread
        /\ Memory(client[b].run) = "queued" /\ file[client[b].run].status = "queued"
    BY DEF SweepInv
  <2>4. /\ held'[client[b].run] = Thread
        /\ Memory(client[b].run)' = "queued" /\ file'[client[b].run].status = "queued"
    <3>1. Touch(client[b].run)
      BY <2>1
    <3>2. held[client[b].run] # Nobody
      BY <2>3, ObjectNames
    <3> QED
      BY <2>2, <2>3, <3>1, <3>2 DEF Touch
  <2>5. /\ client[b].run <= created /\ loop[client[b].run] = "none"
        /\ \A a \in Clients : At(a, "sweep") /\ client[a].run = client[b].run => a = b
        /\ \A r \in client[b].stale : Past(r) /\ created - r >= Keep
    BY DEF SweepInv
  <2>6. \A r \in client[b].stale : Past(r)' /\ created - r >= Keep
    BY <1>4, <2>1, <2>5
  <2> QED
    BY <2>4, <2>5, <2>6
<1>8. ClientInv'
  <2>1. ASSUME NEW b \in Clients, b # c PROVE ClientOK(b)'
    <3>1. client'[b] = client[b]
      BY <1>1, <2>1
    <3>2. \A q \in Runs : Shares(q)
      BY <2>1 DEF Touch, Shares
    <3>3. client[b].at \in Owning => client[b].run \in Runs
      BY <1>0, ClientFields
    <3>4. \A q \in Runs : Sent(q) => Sent(q)'
      BY DEF Sent
    <3> QED
      BY <1>4, <3>1, <3>2, <3>3, <3>4, OthersStay
  <2>2. k.at \in Owning \cup Decisive \cup {"decide"} => k.run \in Runs
    BY StateFields DEF Decisions, Owners, Owning
  <2>3. k.at \in {"register", "mark"} /\ k.report # NoReport => k.report[1] \in Runs
    BY StateFields DEF Starts, Marks, Reports
  <2>4. /\ k.at \in Decisive \cup {"decide"} => Settled(k.run)'
        /\ k.at \in {"push", "record"} /\ k.defect # {} => Settled(k.run)'
        /\ k.at \in {"register", "sweep", "mark"} /\ k.report # NoReport => Settled(k.report[1])'
    BY <1>4, <2>2, <2>3 DEF Owning
  <2>5. ClientOK(c)'
    <3>1. client[c]' = k
      BY <1>1
    <3>2. k.at \in Owning => Owns(client[c])'
      BY <3>1 DEF Owns
    <3>3. k.at = "approve" \/ (k.at = "decide" /\ k.action = "approve") =>
            \A d \in k.defect \cap applied'[k.run] : Sent(k.run)'
      OBVIOUS
    <3>4. \A q : q = k.run => (Sent(q)' => Sent(client[c].run)')
      BY <3>1
    <3>5. /\ \A q : q = k.run => (Settled(q)' => Settled(client[c].run)')
          /\ \A q : q = k.report[1] => (Settled(q)' => Settled(client[c].report[1])')
      BY <3>1
    <3> QED
      BY <2>4, <3>1, <3>2, <3>3, <3>4, <3>5 DEF ClientOK, At
  <2> QED
    BY <2>1, <2>5 DEF ClientInv
<1>9. LockInv'
  <2>1. \A b \in Clients : b # c => (Locks(b)' <=> Locks(b)) /\ (At(b, "register")' <=> At(b, "register"))
    BY <1>1 DEF Locks, At
  <2>2. Locks(c)' => k.at = "register" /\ k.locked
    BY <1>1 DEF Locks
  <2> QED
    BY <1>4, <2>1, <2>2 DEF LockInv
<1>10. ReportInv'
  <2>1. \A q \in Runs : Sent(q) => Sent(q)'
    BY DEF Sent
  <2> QED
    BY <1>4, <2>1 DEF ReportInv, Honest
<1> QED
  BY <1>0, <1>5, <1>6, <1>7, <1>8, <1>9, <1>10

\* A request that is answered.
LEMMA FinishIInv ==
  ASSUME IInv, DataOK', NEW c \in Clients, Go(c, Idle),
         client[c].at \notin {"register", "sweep"},
         UNCHANGED <<created, byHand, loop, applied>>,
         \A q \in Runs : Touch(q),
         \A q \in Runs : (Kept(q) => Kept(q)') /\ (github[q] # "none" => github'[q] # "none"),
         \A q \in Runs : Honest(q)' /\ (github'[q] # "none" => github[q] # "none" \/ q <= created),
         \A q \in Runs, d \in Defects :
           /\ report'[q][d] # "none" => report[q][d] # "none" \/ Settled(q)
           /\ report'[q][d] = "approved" /\ d \in applied[q] =>
                report[q][d] = "approved" \/ Sent(q)'
  PROVE  IInv'
<1>1. Idle \in States /\ Idle.at = "idle"
  BY StatesHold
<1> QED
  BY <1>1, RequestIInv DEF Decisive, Owning

\* A request puts the object it works on into _RUNS, and the file is left or written.
LEMMA HoldTouches ==
  ASSUME IInv, NEW c \in Clients, client[c].at \in Owning,
         NEW r, r = client[c].run, NEW o, o = client[c].own, NEW new \in Contents,
         Hold(r, o, new), file'[r] \in {file[r], new}, file' \in [Runs -> Contents],
         \A q \in Runs : q # r => file'[q] = file[q],
         Settled(r) \/ (new.status = object[r][o].status /\ file'[r] = new),
         new.pr = object[r][o].pr \/ new.pr # "none",
         \A q \in Runs : github[q] # "none" => github'[q] # "none",
         new.pr # "none" => github'[r] # "none"
  PROVE  /\ RunOK'
         /\ \A q \in Runs : Touch(q)
         /\ \A q \in Runs : Kept(q) => Kept(q)'
         /\ \A q \in Runs : Honest(q)'
<1>0. TypeOK /\ DataOK /\ r \in Runs /\ o \in Objects /\ o # Nobody
  BY ClientFields, ObjectNames DEF IInv, TypeOK
<1>1. /\ held' \in [Runs -> {Nobody} \cup Objects]
      /\ object' \in [Runs -> [Objects -> Contents]]
      /\ held'[r] = o /\ object'[r][o] = new
      /\ \A p \in Objects : p # o => object'[r][p] = object[r][p]
      /\ \A q \in Runs : q # r => held'[q] = held[q] /\ object'[q] = object[q]
  BY <1>0, HoldFacts
<1>2. /\ o = Thread <=> held[r] = Thread
      /\ o # Thread => Settled(r)
  BY DEF IInv, ClientInv, ClientOK, Owns
<1>3. /\ Known(r)' = new
      /\ \A q \in Runs : q # r => Known(q)' = Known(q) /\ Memory(q)' = Memory(q)
      /\ Memory(r)' = new.status
  BY <1>0, <1>1 DEF Known, Memory
<1>4. \A q \in Runs : Touch(q)
  <2>1. ASSUME NEW q \in Runs, q # r PROVE Touch(q)
    BY <1>1, <1>3, <2>1 DEF Touch
  <2>2. Touch(r)
    <3>1. CASE Settled(r)
      BY <1>0, <1>1, <1>2, <3>1 DEF Touch
    <3>2. CASE ~Settled(r)
      <4>1. o = Thread /\ held[r] = Thread /\ held[r] # Nobody
        BY <1>0, <1>2, <3>2
      <4>2. Memory(r) = new.status /\ file'[r].status = new.status
        BY <3>2, <4>1 DEF Memory
      <4> QED
        BY <1>1, <1>3, <4>1, <4>2 DEF Touch
    <3> QED
      BY <3>1, <3>2
  <2> QED
    BY <2>1, <2>2
<1>5. ASSUME NEW q \in Runs, Kept(q) PROVE Kept(q)'
  <2>1. CASE q # r
    BY <1>1, <1>3, <1>5, <2>1 DEF Kept
  <2>2. CASE q = r
    <3>1. o = Thread => object[r][o].pr # "none"
      BY <1>0, <1>2, <1>5, <2>2 DEF Kept, Known
    <3> QED
      BY <1>1, <1>3, <2>2, <3>1 DEF Kept
  <2> QED
    BY <2>1, <2>2
<1>6. ASSUME NEW q \in Runs PROVE Honest(q)'
  <2>1. /\ file[q].pr # "none" => github[q] # "none"
        /\ \A p \in Objects : object[q][p].pr # "none" => github[q] # "none"
    BY DEF IInv, ReportInv, Honest
  <2>2. CASE q # r
    BY <1>1, <2>1, <2>2 DEF Honest
  <2>3. CASE q = r
    <3>1. \A p \in Objects : object'[r][p].pr # "none" => github'[r] # "none"
      BY <1>0, <1>1, <2>1, <2>3
    <3> QED
      BY <1>0, <2>1, <2>3, <3>1 DEF Honest
  <2> QED
    BY <2>2, <2>3
<1> QED
  BY <1>1, <1>4, <1>5, <1>6 DEF RunOK

LEMMA PutTouches ==
  ASSUME IInv, NEW c \in Clients, client[c].at \in Owning,
         NEW r, r = client[c].run, NEW o, o = client[c].own, NEW new \in Contents,
         Put(r, o, new),
         Settled(r) \/ new.status = object[r][o].status,
         new.pr = object[r][o].pr \/ new.pr # "none",
         \A q \in Runs : github[q] # "none" => github'[q] # "none",
         new.pr # "none" => github'[r] # "none"
  PROVE  /\ RunOK'
         /\ \A q \in Runs : Touch(q)
         /\ \A q \in Runs : Kept(q) => Kept(q)'
         /\ \A q \in Runs : Honest(q)'
<1>1. DataOK /\ r \in Runs /\ o \in Objects
  BY ClientFields DEF IInv, TypeOK
<1>2. /\ Hold(r, o, new) /\ file'[r] = new /\ file' \in [Runs -> Contents]
      /\ \A q \in Runs : q # r => file'[q] = file[q]
  BY <1>1, PutFacts
<1> QED
  BY <1>2, HoldTouches

\* A status that a request sets on a run which takes decisions.
LEMMA UpdateTouches ==
  ASSUME IInv, NEW c \in Clients, client[c].at \in Owning,
         NEW r, r = client[c].run, NEW o, o = client[c].own, NEW new \in Files,
         Update(r, o, new), Settled(r), UNCHANGED github
  PROVE  /\ RunOK'
         /\ \A q \in Runs : Touch(q)
         /\ \A q \in Runs : Kept(q) => Kept(q)'
         /\ \A q \in Runs : Honest(q)'
<1>1. DataOK /\ r \in Runs /\ o \in Objects
  BY ClientFields DEF IInv, TypeOK
<1>2. PICK x \in Contents : Put(r, o, x) /\ x.pr = object[r][o].pr
  BY <1>1, UpdateFacts
<1>3. x.pr # "none" => github'[r] # "none"
  BY <1>1, <1>2 DEF IInv, ReportInv, Honest
<1> QED
  BY <1>2, <1>3, PutTouches

\* The runs stay as they are.
LEMMA RunStays ==
  ASSUME IInv, NEW c \in Clients, UNCHANGED <<held, object, file>>,
         \A q \in Runs : github[q] # "none" => github'[q] # "none"
  PROVE  /\ RunOK'
         /\ \A q \in Runs : Touch(q)
         /\ \A q \in Runs : Kept(q) => Kept(q)'
         /\ \A q \in Runs : Honest(q)'
<1>1. \A q \in Runs : Known(q)' = Known(q) /\ Memory(q)' = Memory(q)
  BY DEF Known, Memory
<1>2. \A q \in Runs : Touch(q)
  BY <1>1 DEF Touch
<1>3. \A q \in Runs : Kept(q) => Kept(q)'
  BY <1>1 DEF Kept
<1>4. \A q \in Runs : Honest(q)'
  BY <1>1 DEF IInv, ReportInv, Honest
<1>5. RunOK'
  BY DEF IInv, TypeOK, DataOK, RunOK
<1> QED
  BY <1>2, <1>3, <1>4, <1>5

\* get_run gives a request the object in memory or a copy that it alone has.
LEMMA LoadTouches ==
  ASSUME IInv, NEW c \in Clients, NEW r \in Runs, Load(c, r), client[c].at \notin Owning,
         UNCHANGED github
  PROVE  /\ RunOK'
         /\ \A q \in Runs : Touch(q)
         /\ \A q \in Runs : Kept(q) => Kept(q)'
         /\ \A q \in Runs : Honest(q)'
         /\ UNCHANGED <<held, file>>
         /\ Own(c, r) \in Objects
         /\ held[r] = Nobody => Own(c, r) = c /\ object'[r][c] = file[r]
         /\ held[r] # Nobody => Own(c, r) = held[r]
<1>0. DataOK
  BY DEF IInv, TypeOK
<1>1. UNCHANGED <<held, file>>
  BY DEF Load
<1>2. /\ held[r] = Nobody => object'[r][c] = file[r]
      /\ \A q \in Runs, o \in Objects : q # r \/ o # c \/ held[r] # Nobody =>
           object'[q][o] = object[q][o]
      /\ object' \in [Runs -> [Objects -> Contents]]
  <2>1. c \in Objects /\ file[r] \in Contents
    BY <1>0, ObjectNames, KnownType
  <2>2. CASE held[r] = Nobody
    <3>1. object' = [object EXCEPT ![r][c] = file[r]]
      BY <2>2 DEF Load
    <3> QED
      BY <1>0, <2>1, <2>2, <3>1 DEF DataOK
  <2>3. CASE held[r] # Nobody
    BY <1>0, <2>3 DEF Load, DataOK
  <2> QED
    BY <2>2, <2>3
<1>3. \A q \in Runs : held[q] # Nobody => object'[q][held[q]] = object[q][held[q]]
  BY <1>0, <1>2, KnownType
<1>4. \A q \in Runs : Known(q)' = Known(q) /\ Memory(q)' = Memory(q)
  BY <1>1, <1>3 DEF Known, Memory
<1>5. ASSUME NEW q \in Runs PROVE Touch(q)
  <2>1. \A b \in Clients : b # c => object'[q][b] = object[q][b]
    BY <1>2, ObjectNames
  <2> QED
    BY <1>1, <1>4, <2>1 DEF Touch
<1>6. \A q \in Runs : Kept(q) => Kept(q)'
  BY <1>1, <1>4 DEF Kept
<1>7. ASSUME NEW q \in Runs PROVE Honest(q)'
  <2>1. /\ file[q].pr # "none" => github[q] # "none"
        /\ \A o \in Objects : object[q][o].pr # "none" => github[q] # "none"
    BY DEF IInv, ReportInv, Honest
  <2>2. \A o \in Objects : object'[q][o] \in {object[q][o], file[q]}
    BY <1>2
  <2> QED
    BY <1>1, <1>4, <2>1, <2>2 DEF Honest
<1>8. RunOK'
  BY <1>0, <1>1, <1>2 DEF DataOK, RunOK
<1>9. Own(c, r) \in Objects
  BY <1>0, ObjectNames, KnownType DEF Own
<1> QED
  BY <1>1, <1>2, <1>5, <1>6, <1>7, <1>8, <1>9 DEF Own

\* What get_run gave belongs to the request, for a run that may take decisions.
LEMMA LoadOwns ==
  ASSUME IInv, NEW c \in Clients, NEW r \in Runs, Load(c, r), client[c].at \notin Owning,
         UNCHANGED github,
         NEW k, k.run = r, k.own = Own(c, r), held[r] # Thread => Settled(r)', held[r] # Nobody \/ Settled(r)'
  PROVE  Owns(k)'
<1>1. /\ UNCHANGED <<held, file>>
      /\ held[r] = Nobody => Own(c, r) = c /\ object'[r][c] = file[r]
      /\ held[r] # Nobody => Own(c, r) = held[r]
  BY LoadTouches
<1>2. c # Thread /\ Thread # Nobody
  BY ObjectNames
<1> QED
  BY <1>1, <1>2 DEF Owns

\* A request that does not start a thread leaves who takes decisions.
LEMMA SettledStays ==
  ASSUME TypeOK, NEW c \in Clients, NEW k, Go(c, k), client[c].at # "sweep", k.at # "sweep",
         UNCHANGED <<created, loop>>
  PROVE  \A q \in Runs : Settled(q)' <=> Settled(q)
<1>1. client'[c] = k /\ \A b \in Clients : b # c => client'[b] = client[b]
  BY Moved
<1>2. \A q \in Runs : Swept(q)' <=> Swept(q)
  BY <1>1 DEF Swept, At
<1> QED
  BY <1>2 DEF Settled, Past, Working

\* A request goes on with the object that it put into _RUNS.
LEMMA PutOwns ==
  ASSUME IInv, NEW c \in Clients, client[c].at \in Owning, NEW k \in Owners, Go(c, k),
         k.run = client[c].run, k.own = client[c].own, k.at # "sweep",
         UNCHANGED <<created, loop>>,
         held'[k.run] = k.own
  PROVE  Owns(k)'
<1>1. TypeOK /\ k.run \in Runs /\ k.own \in Objects /\ k.own # Nobody /\ client[c].at # "sweep"
  BY ClientFields, ObjectNames DEF IInv, Owning, Decisive
<1>2. k.own # Thread => Settled(k.run)'
  BY <1>1, SettledStays DEF IInv, ClientInv, ClientOK, Owns
<1> QED
  BY <1>1, <1>2 DEF Owns

LEMMA MarkReports ==
  ASSUME TypeOK, NEW r \in Runs, NEW some, NEW verdict \in Verdicts, Mark(r, some, verdict)
  PROVE  \A q \in Runs, d \in Defects :
           report'[q][d] = IF q = r /\ d \in some THEN verdict ELSE report[q][d]
  BY DEF TypeOK, DataOK, Mark

LEMMA ApproveIInv ==
  ASSUME IInv, NEW c \in Clients, Approve(c)
  PROVE  IInv'
<1> DEFINE r == client[c].run
           o == client[c].own
           new == object[r][o]
<1>0. TypeOK /\ DataOK
  BY DEF IInv, TypeOK
<1>1. /\ client[c].at = "approve" /\ client[c].at \in Owning
      /\ Put(r, o, new) /\ Mark(r, client[c].defect, "approved") /\ Go(c, Idle)
      /\ UNCHANGED <<created, byHand, loop, applied, github>>
      /\ UNCHANGED <<round, found, asked, branch, trees, decisions, faults, crashes>>
  BY DEF Approve, At, Keeping, work, repository, counts, Owning, Decisive
<1>2. r \in Runs /\ o \in Objects /\ new \in Contents /\ Settled(r)
  BY <1>0, <1>1, ClientFields, KnownType DEF IInv, ClientInv, ClientOK, Decisive
<1>3. \A d \in client[c].defect : d \in applied[r] => Sent(r)
  BY <1>1 DEF IInv, ClientInv, ClientOK, At
<1>4. /\ RunOK'
      /\ \A q \in Runs : Touch(q)
      /\ \A q \in Runs : Kept(q) => Kept(q)'
      /\ \A q \in Runs : Honest(q)'
  <2>1. new.pr # "none" => github'[r] # "none"
    BY <1>1, <1>2 DEF IInv, ReportInv, Honest
  <2> HIDE DEF r, o, new
  <2>2. r = client[c].run /\ o = client[c].own
    BY DEF r, o
  <2>3. new.pr = object[r][o].pr
    BY DEF new
  <2> QED
    BY <1>1, <1>2, <2>1, <2>2, <2>3, PutTouches
<1>5. DataOK'
  <2>1. report' \in [Runs -> [Defects -> Verdicts]]
    BY <1>0, <1>1, <1>2, MarkType DEF Verdicts
  <2> QED
    BY <1>0, <1>1, <1>4, <2>1 DEF DataOK, RunOK
<1>6. \A q \in Runs, d \in Defects :
        report'[q][d] = IF q = r /\ d \in client[c].defect THEN "approved" ELSE report[q][d]
  BY <1>0, <1>1, <1>2, MarkReports DEF Verdicts
<1>7. \A q \in Runs : Sent(q) => Sent(q)'
  BY <1>1, <1>4 DEF Sent
<1> HIDE DEF r, o, new
<1> QED
  BY <1>1, <1>2, <1>3, <1>4, <1>5, <1>6, <1>7, FinishIInv

LEMMA RejectIInv ==
  ASSUME IInv, NEW c \in Clients, Reject(c)
  PROVE  IInv'
<1> DEFINE r == client[c].run
           o == client[c].own
<1>0. TypeOK /\ DataOK
  BY DEF IInv, TypeOK
<1>1. /\ client[c].at = "reject" /\ client[c].at \in Owning
      /\ Update(r, o, "cancelled") /\ Mark(r, client[c].defect, "rejected") /\ Go(c, Idle)
      /\ asked' \in {asked, asked \cup {r}}
      /\ UNCHANGED <<created, byHand, loop, applied, github>>
      /\ UNCHANGED <<round, found, branch, trees, decisions, faults, crashes>>
  BY DEF Reject, At, Keeping, work, repository, counts, Owning, Decisive
<1>2. r \in Runs /\ Settled(r)
  BY <1>0, <1>1, ClientFields DEF IInv, ClientInv, ClientOK, Decisive
<1>3. /\ RunOK'
      /\ \A q \in Runs : Touch(q)
      /\ \A q \in Runs : Kept(q) => Kept(q)'
      /\ \A q \in Runs : Honest(q)'
  BY <1>1, <1>2, FilesHold, UpdateTouches
<1>4. DataOK'
  <2>1. report' \in [Runs -> [Defects -> Verdicts]]
    BY <1>0, <1>1, <1>2, MarkType DEF Verdicts
  <2> QED
    BY <1>0, <1>1, <1>2, <1>3, <2>1 DEF DataOK, RunOK
<1>5. \A q \in Runs, d \in Defects :
        report'[q][d] = IF q = r /\ d \in client[c].defect THEN "rejected" ELSE report[q][d]
  BY <1>0, <1>1, <1>2, MarkReports DEF Verdicts
<1> HIDE DEF r, o
<1> QED
  BY <1>1, <1>2, <1>3, <1>4, <1>5, FinishIInv

LEMMA ReturnedIInv ==
  ASSUME IInv, NEW c \in Clients, Returned(c)
  PROVE  IInv'
<1> DEFINE r == client[c].report[1]
<1>0. TypeOK /\ DataOK
  BY DEF IInv, TypeOK
<1>1. /\ client[c].at = "mark"
      /\ Mark(r, {client[c].report[2]}, "returned") /\ Go(c, Idle)
      /\ UNCHANGED <<created, byHand, loop, applied, github>>
      /\ UNCHANGED <<held, object, file>>
      /\ UNCHANGED <<round, found, asked, branch, trees, decisions, faults, crashes>>
  BY DEF Returned, At, Keeping, run, work, repository, counts
<1>2. client[c].report \in Runs \X Defects
  BY <1>0, <1>1, ClientFields
<1>3. r \in Runs /\ client[c].report # NoReport
  BY <1>2 DEF NoReport
<1>4. Settled(r)
  BY <1>1, <1>3 DEF IInv, ClientInv, ClientOK
<1>5. /\ RunOK'
      /\ \A q \in Runs : Touch(q)
      /\ \A q \in Runs : Kept(q) => Kept(q)'
      /\ \A q \in Runs : Honest(q)'
  BY <1>1, RunStays
<1>6. DataOK'
  <2>1. report' \in [Runs -> [Defects -> Verdicts]]
    BY <1>0, <1>1, <1>3, MarkType DEF Verdicts
  <2> QED
    BY <1>0, <1>1, <1>5, <2>1 DEF DataOK, RunOK
<1>7. \A q \in Runs, d \in Defects :
        report'[q][d] = IF q = r /\ d = client[c].report[2] THEN "returned" ELSE report[q][d]
  BY <1>0, <1>1, <1>3, MarkReports DEF Verdicts
<1> HIDE DEF r
<1> QED
  BY <1>1, <1>4, <1>5, <1>6, <1>7, FinishIInv

-----------------------------------------------------------------------------
(* Pull requests, verifications and merges.                                *)

LEMMA OpenIInv ==
  ASSUME IInv, NEW c \in Clients, OpenPullRequest(c)
  PROVE  IInv'
<1>0. TypeOK /\ DataOK
  BY DEF IInv, TypeOK
<1>1. PICK r, k : /\ r = client[c].run /\ k = [client[c] EXCEPT !.at = "record"]
                  /\ client[c].at = "push" /\ client[c].at \in Owning /\ Go(c, k)
                  /\ github' = [github EXCEPT ![r] = "open"]
  BY DEF OpenPullRequest, At, Owning
<1>2. /\ UNCHANGED <<created, byHand, loop, applied>>
      /\ UNCHANGED <<held, object, file>>
      /\ UNCHANGED <<round, found, asked, branch, trees, report, decisions, faults, crashes>>
  BY DEF OpenPullRequest, Keeping, run, work, repository, counts
<1>3. r \in Runs /\ client[c] \in Owners
  BY <1>0, <1>1, ClientFields
<1>4. /\ k \in Owners /\ k.at = "record"
      /\ k.run = r /\ k.defect = client[c].defect /\ k.own = client[c].own
  BY <1>1, <1>3, StatesHold DEF Owning
<1>5. k \in States
  BY <1>4, StatesHold
<1>6. (k.defect # {} => Settled(r)) /\ Owns(client[c])
  BY <1>1, <1>4 DEF IInv, ClientInv, ClientOK
<1>7. github'[r] # "none" /\ \A q \in Runs : github[q] # "none" => github'[q] # "none"
  BY <1>0, <1>1, <1>3 DEF DataOK
<1>8. /\ RunOK'
      /\ \A q \in Runs : Touch(q)
      /\ \A q \in Runs : Kept(q) => Kept(q)'
      /\ \A q \in Runs : Honest(q)'
  BY <1>2, <1>7, RunStays
<1>11. \A q \in Runs : github'[q] # "none" => github[q] # "none" \/ q <= created
  <2>1. r <= created
    <3>1. held[r] # Nobody \/ Settled(r)
      BY <1>1, <1>6, ObjectNames DEF Owns
    <3> QED
      BY <1>3, <3>1 DEF IInv, FreshInv, TypeOK, Runs, Settled, Past
  <2> QED
    BY <1>0, <1>1, <1>3, <2>1 DEF DataOK
<1>9. DataOK'
  BY <1>0, <1>1, <1>2, <1>8 DEF DataOK, RunOK, PRs
<1>10. Owns(k)'
  <2>1. k.own # Thread => Settled(r)'
    BY <1>0, <1>1, <1>2, <1>3, <1>4, <1>6, SettledStays DEF Owns
  <2> QED
    BY <1>1, <1>2, <1>4, <1>6, <2>1 DEF Owns
<1> QED
  BY <1>1, <1>2, <1>4, <1>5, <1>6, <1>7, <1>8, <1>9, <1>10, <1>11, RequestIInv
  DEF Decisive

\* The decision that a request for a pull request comes to.
LEMMA ConcludingState ==
  ASSUME TypeOK, NEW c \in Clients, client[c].at \in Owning
  PROVE  /\ Concluding(c) \in States
         /\ \/ Concluding(c).at = "idle"
            \/ /\ Concluding(c).at = "decide" /\ Concluding(c).run = client[c].run
               /\ client[c].defect # {}
<1>1. client[c].run \in Runs /\ client[c].defect \subseteq Defects
  BY ClientFields
<1>2. Idle \in States /\ Idle.at = "idle"
  BY StatesHold
<1>3. /\ Decide(client[c].run, client[c].defect, "approve") \in States
      /\ Decide(client[c].run, client[c].defect, "approve").at = "decide"
      /\ Decide(client[c].run, client[c].defect, "approve").run = client[c].run
  BY <1>1, StatesHold DEF Decisive
<1> QED
  BY <1>2, <1>3 DEF Concluding

LEMMA PushFailsIInv ==
  ASSUME IInv, NEW c \in Clients, PushFails(c)
  PROVE  IInv'
<1>0. TypeOK /\ DataOK
  BY DEF IInv, TypeOK
<1>1. /\ client[c].at = "push" /\ Go(c, Idle)
      /\ UNCHANGED <<created, byHand, loop, applied, github>>
      /\ UNCHANGED <<held, object, file>>
      /\ UNCHANGED <<round, found, asked, branch, trees, report, decisions, faults, crashes>>
  BY DEF PushFails, At, Keeping, run, work, repository, counts
<1>2. /\ RunOK'
      /\ \A q \in Runs : Touch(q)
      /\ \A q \in Runs : Kept(q) => Kept(q)'
      /\ \A q \in Runs : Honest(q)'
  BY <1>1, RunStays
<1>3. DataOK'
  BY <1>0, <1>1, <1>2 DEF DataOK, RunOK
<1> QED
  BY <1>1, <1>2, <1>3, FinishIInv

LEMMA RecordIInv ==
  ASSUME IInv, NEW c \in Clients, RecordPullRequest(c)
  PROVE  IInv'
<1>0. TypeOK /\ DataOK
  BY DEF IInv, TypeOK
<1>1. PICK r, o, new, k :
        /\ r = client[c].run /\ o = client[c].own /\ k = Concluding(c)
        /\ new = [object[r][o] EXCEPT !.pr = "open"]
        /\ client[c].at = "record" /\ client[c].at \in Owning /\ Go(c, k) /\ Put(r, o, new)
  BY DEF RecordPullRequest, At, Owning
<1>2. /\ UNCHANGED <<created, byHand, loop, applied, github>>
      /\ UNCHANGED <<round, found, asked, branch, trees, report, decisions, faults, crashes>>
  BY DEF RecordPullRequest, Keeping, work, repository, counts
<1>3. r \in Runs /\ o \in Objects
  BY <1>0, <1>1, ClientFields
<1>4. (client[c].defect # {} => Settled(r)) /\ github'[r] # "none"
  BY <1>1, <1>2 DEF IInv, ClientInv, ClientOK, At
<1>5. k \in States /\ (k.at = "idle" \/ (k.at = "decide" /\ k.run = r /\ client[c].defect # {}))
  BY <1>0, <1>1, ConcludingState
<1>6. new \in Contents /\ new.pr # "none" /\ new.status = object[r][o].status
  <2>1. "open" \in PRs /\ "open" # "none"
    BY DEF PRs
  <2> QED
    BY <1>0, <1>1, <1>3, <2>1, KnownType, ContentsHold
<1>7. /\ RunOK'
      /\ \A q \in Runs : Touch(q)
      /\ \A q \in Runs : Kept(q) => Kept(q)'
      /\ \A q \in Runs : Honest(q)'
  BY <1>1, <1>2, <1>4, <1>6, PutTouches
<1>8. DataOK'
  BY <1>0, <1>1, <1>2, <1>7 DEF DataOK, RunOK
<1>9. Sent(r)'
  <2>1. held'[r] = o /\ object'[r][o] = new /\ file'[r] = new /\ o # Nobody
    BY <1>0, <1>1, <1>3, <1>6, PutFacts, HoldFacts, ObjectNames
  <2> QED
    BY <1>4, <1>6, <2>1 DEF Sent, Kept, Known
<1>10. k.at = "decide" => Settled(k.run) /\ Sent(k.run)'
  BY <1>4, <1>5, <1>9
<1> QED
  BY <1>1, <1>2, <1>5, <1>7, <1>8, <1>10, RequestIInv DEF Decisive, Owning

\* What record_decision takes is what get_run knows.
LEMMA TakeIInv ==
  ASSUME IInv, NEW c \in Clients, Take(c)
  PROVE  IInv'
<1>0. TypeOK /\ DataOK
  BY DEF IInv, TypeOK
<1>1. PICK r, o, k :
        /\ r = client[c].run /\ o = Own(c, r) /\ client[c].at = "decide"
        /\ k = [at |-> client[c].action, run |-> r, defect |-> client[c].defect, own |-> o]
        /\ Load(c, r) /\ Go(c, k)
  BY DEF Take, At
<1>2. /\ UNCHANGED <<created, byHand, loop, applied, github>>
      /\ UNCHANGED <<round, found, asked, branch, trees, report, decisions, faults, crashes>>
  BY DEF Take, Keeping, work, repository, counts
<1>3. /\ r \in Runs /\ client[c].defect \in SUBSET Defects /\ client[c].action \in Decisive
      /\ client[c].at \notin Owning
  BY <1>0, <1>1, ClientFields DEF Owning, Decisive
<1>4. Settled(r)
  BY <1>1 DEF IInv, ClientInv, ClientOK
<1>5. /\ RunOK'
      /\ \A q \in Runs : Touch(q)
      /\ \A q \in Runs : Kept(q) => Kept(q)'
      /\ \A q \in Runs : Honest(q)'
      /\ o \in Objects
  BY <1>1, <1>2, <1>3, LoadTouches
<1>6. /\ k \in Owners /\ k.at = client[c].action /\ k.at \in Owning /\ k.at \in Decisive
      /\ k.run = r /\ k.own = o /\ k.defect = client[c].defect
  <2>1. client[c].action \in Owning
    BY <1>3 DEF Owning
  <2> QED
    BY <1>1, <1>3, <1>5, <2>1, StatesHold
<1>7. k \in States
  BY <1>6, StatesHold
<1>8. DataOK'
  BY <1>0, <1>2, <1>5 DEF DataOK, RunOK
<1>9. Owns(k)'
  <2>1. Settled(r)'
    BY <1>0, <1>1, <1>2, <1>3, <1>4, <1>6, SettledStays DEF Decisive
  <2> QED
    BY <1>1, <1>2, <1>3, <1>6, <2>1, LoadOwns
<1>10. k.at = "approve" => \A d \in k.defect \cap applied[r] : Sent(r)'
  <2>1. k.at = "approve" => \A d \in k.defect \cap applied[r] : Sent(r)
    BY <1>1, <1>6 DEF IInv, ClientInv, ClientOK, At
  <2> QED
    BY <1>2, <1>3, <1>5, <2>1 DEF Sent
<1>11. k.at \notin {"register", "sweep", "mark", "push", "record", "decide"}
       /\ client[c].at \notin {"register", "sweep"}
  BY <1>1, <1>6 DEF Decisive
<1> QED
  BY <1>1, <1>2, <1>4, <1>5, <1>6, <1>7, <1>8, <1>9, <1>10, <1>11, RequestIInv

\* A decision that goes on with the object it put into _RUNS.
LEMMA DecisiveGoes ==
  ASSUME IInv, NEW c \in Clients, client[c].at \in Decisive,
         NEW k, k = [client[c] EXCEPT !.at = "verifying"] \/ k = [client[c] EXCEPT !.at = "merging"],
         Go(c, k), RunOK', held'[client[c].run] = client[c].own,
         UNCHANGED <<created, byHand, loop, applied, github, report>>,
         UNCHANGED <<round, found, asked, branch, trees, decisions, faults, crashes>>,
         \A q \in Runs : Touch(q),
         \A q \in Runs : Kept(q) => Kept(q)',
         \A q \in Runs : Honest(q)'
  PROVE  IInv'
<1>0. TypeOK /\ DataOK /\ client[c].at \in Owning /\ client[c] \in Owners /\ client[c].run \in Runs
  BY ClientFields DEF IInv, TypeOK, Owning
<1>1. /\ k \in Owners /\ k.at \in {"verifying", "merging"}
      /\ k.run = client[c].run /\ k.own = client[c].own
  <2>1. "verifying" \in Owning /\ "merging" \in Owning
    BY DEF Owning, Decisive
  <2>2. \A a \in Owning : /\ [client[c] EXCEPT !.at = a] \in Owners
                          /\ [client[c] EXCEPT !.at = a].at = a
                          /\ [client[c] EXCEPT !.at = a].run = client[c].run
                          /\ [client[c] EXCEPT !.at = a].own = client[c].own
    BY <1>0, StatesHold
  <2> QED
    BY <2>1, <2>2
<1>2. k \in States /\ k.at \in Decisive
  BY <1>1, StatesHold DEF Decisive
<1>3. Settled(k.run)
  BY <1>1 DEF IInv, ClientInv, ClientOK
<1>4. DataOK'
  BY <1>0 DEF DataOK, RunOK
<1>5. Owns(k)'
  BY <1>0, <1>1, PutOwns
<1>6. client[c].at \notin {"register", "sweep"}
  BY DEF Decisive
<1> QED
  BY <1>1, <1>2, <1>3, <1>4, <1>5, <1>6, RequestIInv

\* A decision that only puts the run into _RUNS.
LEMMA PlainHold ==
  ASSUME IInv, NEW c \in Clients, client[c].at \in Decisive, UNCHANGED <<file, github>>,
         Hold(client[c].run, client[c].own, object[client[c].run][client[c].own])
  PROVE  /\ RunOK'
         /\ \A q \in Runs : Touch(q)
         /\ \A q \in Runs : Kept(q) => Kept(q)'
         /\ \A q \in Runs : Honest(q)'
         /\ held'[client[c].run] = client[c].own
<1>1. PICK r, o, new : r = client[c].run /\ o = client[c].own /\ new = object[r][o]
  OBVIOUS
<1>2. /\ DataOK /\ client[c].at \in Owning /\ r \in Runs /\ o \in Objects
      /\ new \in Contents /\ Settled(r) /\ file \in [Runs -> Contents]
  BY <1>1, ClientFields, KnownType DEF IInv, TypeOK, DataOK, Owning, ClientInv, ClientOK
<1>3. Hold(r, o, new) /\ held'[r] = o
  BY <1>1, <1>2, HoldFacts
<1>4. new.pr # "none" => github'[r] # "none"
  BY <1>1, <1>2 DEF IInv, ReportInv, Honest
<1> QED
  BY <1>1, <1>2, <1>3, <1>4, HoldTouches

LEMMA RerunIInv ==
  ASSUME IInv, NEW c \in Clients, Rerun(c)
  PROVE  IInv'
<1>0. TypeOK /\ DataOK
  BY DEF IInv, TypeOK
<1>1. PICK r, o, k :
        /\ r = client[c].run /\ o = client[c].own /\ k = [client[c] EXCEPT !.at = "verifying"]
        /\ client[c].at = "rerun" /\ client[c].at \in Decisive /\ client[c].at \in Owning
        /\ \/ Update(r, o, "verifying") /\ Go(c, k)
           \/ Hold(r, o, object[r][o]) /\ Go(c, Idle) /\ UNCHANGED file
  BY DEF Rerun, At, Owning, Decisive
<1>2. /\ UNCHANGED <<created, byHand, loop, applied, github, report>>
      /\ UNCHANGED <<round, found, asked, branch, trees, decisions, faults, crashes>>
  BY DEF Rerun, Keeping, work, repository, counts
<1>3. r \in Runs /\ o \in Objects /\ Settled(r)
  BY <1>0, <1>1, ClientFields DEF IInv, ClientInv, ClientOK
<1>4. CASE Update(r, o, "verifying") /\ Go(c, k)
  <2>1. /\ RunOK'
        /\ \A q \in Runs : Touch(q)
        /\ \A q \in Runs : Kept(q) => Kept(q)'
        /\ \A q \in Runs : Honest(q)'
    BY <1>1, <1>2, <1>3, <1>4, FilesHold, UpdateTouches
  <2>2. held'[r] = o
    BY <1>0, <1>3, <1>4, FilesHold, UpdateFacts, PutFacts, HoldFacts
  <2> QED
    BY <1>1, <1>2, <1>4, <2>1, <2>2, DecisiveGoes
<1>5. CASE Hold(r, o, object[r][o]) /\ Go(c, Idle) /\ UNCHANGED file
  <2>1. /\ RunOK'
        /\ \A q \in Runs : Touch(q)
        /\ \A q \in Runs : Kept(q) => Kept(q)'
        /\ \A q \in Runs : Honest(q)'
    BY <1>1, <1>2, <1>5, PlainHold
  <2>2. DataOK'
    BY <1>0, <1>2, <2>1 DEF DataOK, RunOK
  <2> QED
    BY <1>1, <1>2, <1>5, <2>1, <2>2, FinishIInv
<1> QED
  BY <1>1, <1>4, <1>5

LEMMA RerunEndsIInv ==
  ASSUME IInv, NEW c \in Clients, RerunEnds(c) \/ RerunFails(c)
  PROVE  IInv'
<1>0. TypeOK /\ DataOK
  BY DEF IInv, TypeOK
<1>1. /\ client[c].at = "verifying" /\ client[c].at \in Owning /\ Go(c, Idle)
      /\ UNCHANGED <<created, byHand, loop, applied, github, report>>
      /\ UNCHANGED <<round, found, asked, branch, trees, decisions, crashes>>
  BY DEF RerunEnds, RerunFails, At, Keeping, work, repository, counts, Owning, Decisive
<1>2. Settled(client[c].run)
  BY <1>1 DEF IInv, ClientInv, ClientOK, Decisive
<1>3. faults' \in 0..MaxFaults
  BY <1>0, HealingAssumption DEF DataOK, RerunEnds, RerunFails, Keeping, counts
<1>4. /\ RunOK'
      /\ \A q \in Runs : Touch(q)
      /\ \A q \in Runs : Kept(q) => Kept(q)'
      /\ \A q \in Runs : Honest(q)'
  <2>1. CASE RerunEnds(c)
    <3>1. PICK new \in {"succeeded", "awaiting_human"} : Update(client[c].run, client[c].own, new)
      BY <2>1 DEF RerunEnds
    <3>2. PICK r, o : r = client[c].run /\ o = client[c].own
      OBVIOUS
    <3> QED
      BY <1>1, <1>2, <3>1, <3>2, FilesHold, UpdateTouches
  <2>2. CASE RerunFails(c)
    <3>1. UNCHANGED <<held, object, file>>
      BY <2>2 DEF RerunFails, run
    <3> QED
      BY <1>1, <3>1, RunStays
  <2> QED
    BY <2>1, <2>2
<1>5. DataOK'
  BY <1>0, <1>1, <1>3, <1>4 DEF DataOK, RunOK
<1> QED
  BY <1>1, <1>4, <1>5, FinishIInv

LEMMA BeginMergeIInv ==
  ASSUME IInv, NEW c \in Clients, BeginMerge(c)
  PROVE  IInv'
<1>0. TypeOK /\ DataOK
  BY DEF IInv, TypeOK
<1>1. PICK k :
        /\ k = [client[c] EXCEPT !.at = "merging"]
        /\ client[c].at = "merge" /\ client[c].at \in Decisive
        /\ Go(c, k) \/ Go(c, Idle)
        /\ Hold(client[c].run, client[c].own, object[client[c].run][client[c].own])
  BY DEF BeginMerge, At, Decisive
<1>2. /\ UNCHANGED <<created, byHand, loop, applied, github, report, file>>
      /\ UNCHANGED <<round, found, asked, branch, trees, decisions, faults, crashes>>
  BY DEF BeginMerge, Keeping, work, repository, counts
<1>3. /\ RunOK'
      /\ \A q \in Runs : Touch(q)
      /\ \A q \in Runs : Kept(q) => Kept(q)'
      /\ \A q \in Runs : Honest(q)'
      /\ held'[client[c].run] = client[c].own
  BY <1>1, <1>2, PlainHold
<1>4. DataOK'
  BY <1>0, <1>2, <1>3 DEF DataOK, RunOK
<1>5. CASE Go(c, k)
  BY <1>1, <1>2, <1>3, <1>5, DecisiveGoes
<1>6. CASE Go(c, Idle)
  BY <1>1, <1>2, <1>3, <1>4, <1>6, FinishIInv
<1> QED
  BY <1>1, <1>5, <1>6

LEMMA MergeIInv ==
  ASSUME IInv, NEW c \in Clients, Merge(c)
  PROVE  IInv'
<1>0. TypeOK /\ DataOK
  BY DEF IInv, TypeOK
<1>1. /\ client[c].at = "merging" /\ client[c].at \in Owning /\ Go(c, Idle)
      /\ UNCHANGED <<created, byHand, loop, applied, report>>
      /\ UNCHANGED <<round, found, asked, branch, trees, decisions, faults, crashes>>
  BY DEF Merge, At, Keeping, work, repository, counts, Owning, Decisive
<1>2. PICK r, o, new :
        /\ r = client[c].run /\ o = client[c].own
        /\ new = [status |-> IF object[r][o].status = "cancelled" THEN "cancelled" ELSE "succeeded",
                  pr |-> "merged"]
        /\ \/ github' = [github EXCEPT ![r] = "merged"] /\ Put(r, o, new)
           \/ UNCHANGED <<github, run>>
  BY DEF Merge
<1>3. r \in Runs /\ o \in Objects /\ Settled(r)
  BY <1>0, <1>1, <1>2, ClientFields DEF IInv, ClientInv, ClientOK, Decisive
<1>4. /\ github' \in [Runs -> PRs]
      /\ \A q \in Runs : github[q] # "none" => github'[q] # "none"
  BY <1>0, <1>2 DEF DataOK, PRs
<1>5. /\ RunOK'
      /\ \A q \in Runs : Touch(q)
      /\ \A q \in Runs : Kept(q) => Kept(q)'
      /\ \A q \in Runs : Honest(q)'
  <2>1. CASE github' = [github EXCEPT ![r] = "merged"] /\ Put(r, o, new)
    <3>1. new \in Contents /\ new.pr # "none"
      BY <1>2 DEF Contents, Files, Statuses, Terminal, PRs
    <3>2. github'[r] # "none"
      BY <1>0, <1>3, <2>1 DEF DataOK
    <3> QED
      BY <1>1, <1>2, <1>3, <1>4, <2>1, <3>1, <3>2, PutTouches
  <2>2. CASE UNCHANGED <<github, run>>
    <3>1. UNCHANGED <<held, object, file>>
      BY <2>2 DEF run
    <3> QED
      BY <1>4, <3>1, RunStays
  <2> QED
    BY <1>2, <2>1, <2>2
<1>6. DataOK'
  BY <1>0, <1>1, <1>4, <1>5 DEF DataOK, RunOK
<1>7. \A q \in Runs : github'[q] # "none" => github[q] # "none" \/ q <= created
  BY <1>0, <1>2, <1>3 DEF DataOK, Settled, Past
<1> QED
  BY <1>1, <1>4, <1>5, <1>6, <1>7, FinishIInv

-----------------------------------------------------------------------------
(* Requests that begin.                                                    *)

LEMMA AwaitingSettles ==
  ASSUME IInv, NEW r \in Runs, NEW d \in Defects, report[r][d] = "awaiting"
  PROVE  Settled(r)
  BY DEF IInv, ReportInv, Honest

\* What stays while a request begins or is turned down.
LEMMA BeginIInv ==
  ASSUME IInv, NEW c \in Clients, NEW k \in States, Begin(c, k), RunOK',
         \A q \in Runs : Touch(q),
         \A q \in Runs : Kept(q) => Kept(q)',
         \A q \in Runs : Honest(q)',
         k.at \in {"register", "push", "decide"},
         k.at = "register" => Room /\ ~k.locked /\ (k.report # NoReport => Settled(k.report[1])),
         k.at = "decide" => Settled(k.run),
         k.at = "push" => Owns(k)' /\ (k.defect # {} => Settled(k.run)),
         k.at = "decide" /\ k.action = "approve" =>
           \A d \in k.defect \cap applied[k.run] : Sent(k.run)'
  PROVE  IInv'
<1>0. TypeOK /\ DataOK
  BY DEF IInv, TypeOK
<1>1. /\ client[c].at = "idle" /\ Go(c, k)
      /\ decisions < MaxDecisions /\ decisions' = decisions + 1
      /\ UNCHANGED <<created, byHand, loop, applied>>
      /\ UNCHANGED <<round, found, asked, branch, trees, github, report, faults, crashes>>
  BY DEF Begin, At, work, repository
<1>2. DataOK'
  BY <1>0, <1>1, HealingAssumption DEF DataOK, RunOK
<1>3. k.at \notin {"sweep", "mark", "record", "approve"} /\ k.at \notin Decisive
  BY DEF Decisive
<1>4. k.at \in Owning => k.at = "push"
  BY <1>3 DEF Owning
<1> QED
  BY <1>1, <1>2, <1>3, <1>4, RequestIInv

\* A decision on a run that takes decisions.
LEMMA DecideIInv ==
  ASSUME IInv, NEW c \in Clients, NEW r \in Runs, NEW some \in SUBSET Defects,
         NEW action \in {"approve", "reject", "rerun", "merge"},
         Begin(c, Decide(r, some, action)), UNCHANGED run, Settled(r),
         action = "approve" => \A d \in some \cap applied[r] : Sent(r)
  PROVE  IInv'
<1>1. PICK k : k = Decide(r, some, action)
  OBVIOUS
<1>2. /\ k \in States /\ k.at = "decide" /\ k.run = r /\ k.defect = some /\ k.action = action
  <2>1. action \in Decisive
    BY DEF Decisive
  <2> QED
    BY <1>1, <2>1, StatesHold
<1>3. UNCHANGED <<held, object, file>> /\ UNCHANGED github
  BY DEF run, Begin
<1>4. /\ RunOK'
      /\ \A q \in Runs : Touch(q)
      /\ \A q \in Runs : Kept(q) => Kept(q)'
      /\ \A q \in Runs : Honest(q)'
  BY <1>3, RunStays
<1>5. Sent(r) => Sent(r)'
  BY <1>3, <1>4 DEF Sent
<1> QED
  BY <1>1, <1>2, <1>4, <1>5, BeginIInv

\* A push begins on the object that get_run gave.
LEMMA PushIInv ==
  ASSUME IInv, NEW c \in Clients, NEW r \in Runs, NEW some \in SUBSET Defects,
         BeginPush(c, r, some), some # {} => Settled(r),
         Status(r) # "absent" \/ Settled(r)
  PROVE  IInv'
<1>0. TypeOK
  BY DEF IInv
<1>1. PICK o, k :
        /\ o = Own(c, r) /\ k = [at |-> "push", run |-> r, defect |-> some, own |-> o]
        /\ Begin(c, k) /\ Load(c, r)
  BY DEF BeginPush
<1>2. /\ client[c].at = "idle" /\ client[c].at \notin Owning /\ Go(c, k)
      /\ UNCHANGED <<created, loop, github>>
  BY <1>1 DEF Begin, At, work, Owning, Decisive
<1>3. /\ RunOK'
      /\ \A q \in Runs : Touch(q)
      /\ \A q \in Runs : Kept(q) => Kept(q)'
      /\ \A q \in Runs : Honest(q)'
      /\ o \in Objects
  BY <1>1, <1>2, LoadTouches
<1>4. k \in Owners /\ k.at = "push" /\ k.run = r /\ k.defect = some /\ k.own = o
  <2>1. "push" \in Owning
    BY DEF Owning
  <2> QED
    BY <1>1, <1>3, <2>1, StatesHold
<1>5. k \in States
  BY <1>4, StatesHold
<1>6. held[r] # Thread => Settled(r)
  BY FileSettles DEF Status, Known
<1>7. Owns(k)'
  <2>1. Settled(r)' <=> Settled(r)
    BY <1>0, <1>2, <1>4, SettledStays
  <2>2. held[r] # Nobody \/ Settled(r)
    BY <1>6, ObjectNames
  <2> QED
    BY <1>1, <1>2, <1>4, <1>6, <2>1, <2>2, LoadOwns
<1> QED
  BY <1>1, <1>3, <1>4, <1>5, <1>7, BeginIInv

LEMMA AskIInv ==
  ASSUME IInv, NEW c \in Clients, Ask(c)
  PROVE  IInv'
<1>0. TypeOK /\ DataOK /\ NoReport \in Reports
  BY DEF IInv, TypeOK, Reports
<1>1. CASE StartByHand(c)
  <2> DEFINE k == [at |-> "register", locked |-> FALSE, report |-> NoReport]
  <2>1. /\ client[c].at = "idle" /\ Room /\ Go(c, k)
        /\ UNCHANGED <<created, byHand, loop, applied, github>>
        /\ UNCHANGED <<held, object, file>>
        /\ UNCHANGED <<round, found, asked, branch, trees, report, decisions, faults, crashes>>
    BY <1>1 DEF StartByHand, At, run, work, repository, counts
  <2>2. k \in Starts /\ k \in States
    BY <1>0, StatesHold
  <2>3. /\ RunOK'
        /\ \A q \in Runs : Touch(q)
        /\ \A q \in Runs : Kept(q) => Kept(q)'
        /\ \A q \in Runs : Honest(q)'
    BY <2>1, RunStays
  <2>4. DataOK'
    BY <1>0, <2>1, <2>3 DEF DataOK, RunOK
  <2>5. k.at = "register" /\ ~k.locked /\ k.report = NoReport
    OBVIOUS
  <2> HIDE DEF k
  <2> QED
    BY <2>1, <2>2, <2>3, <2>4, <2>5, RequestIInv DEF Decisive, Owning
<1>2. ASSUME NEW r \in Runs, BeginPullRequest(c, r) PROVE IInv'
  BY <1>2, PushIInv DEF BeginPullRequest
<1>3. ASSUME NEW r \in Runs, BeginDecision(c, r) PROVE IInv'
  <2>1. PICK action \in {"approve", "reject", "rerun", "merge"} :
          Begin(c, Decide(r, {}, action)) /\ UNCHANGED run
    BY <1>3 DEF BeginDecision
  <2>2. Status(r) = "awaiting_human"
    BY <1>3 DEF BeginDecision
  <2>3. Settled(r)
    <3>1. CASE held[r] # Thread
      BY <2>2, <3>1, FileSettles DEF Status, Known
    <3>2. CASE held[r] = Thread
      <4>1. Memory(r) = "awaiting_human" /\ held[r] # Nobody
        BY <2>2, <3>2, ObjectNames DEF Status, Known, Memory
      <4>2. ~Working(r) /\ loop[r] # "handover"
        BY <4>1 DEF IInv, LoopInv, Active
      <4>3. ~Swept(r)
        BY <4>1 DEF Swept, IInv, SweepInv
      <4>4. r <= created
        BY <4>1 DEF IInv, FreshInv, TypeOK, Runs
      <4> QED
        BY <4>2, <4>3, <4>4 DEF Settled, Past
    <3> QED
      BY <3>1, <3>2
  <2> QED
    BY <2>1, <2>3, DecideIInv
<1>4. ASSUME NEW r \in Runs, NEW d \in Defects, BeginApprove(c, r, d) PROVE IInv'
  <2>1. Settled(r) /\ {d} \in SUBSET Defects
    BY <1>4, AwaitingSettles DEF BeginApprove
  <2>2. CASE d \in applied[r] /\ Known(r).pr = "none"
    BY <1>4, <2>1, <2>2, PushIInv DEF BeginApprove
  <2>3. CASE ~(d \in applied[r] /\ Known(r).pr = "none")
    <3>1. Begin(c, Decide(r, {d}, "approve")) /\ UNCHANGED run
      BY <1>4, <2>3 DEF BeginApprove
    <3>2. d \in applied[r] => Sent(r)
      <4> SUFFICES ASSUME d \in applied[r] PROVE Sent(r)
        OBVIOUS
      <4>1. Known(r).pr # "none"
        BY <2>3
      <4>2. github[r] # "none"
        BY <1>0, <4>1, KnownType DEF Known, IInv, ReportInv, Honest
      <4> QED
        BY <4>1, <4>2 DEF Sent, Kept
    <3> QED
      BY <2>1, <3>1, <3>2, DecideIInv
  <2> QED
    BY <2>2, <2>3
<1>5. ASSUME NEW r \in Runs, NEW d \in Defects, BeginReject(c, r, d) PROVE IInv'
  <2>1. Settled(r) /\ {d} \in SUBSET Defects
    BY <1>5, AwaitingSettles DEF BeginReject
  <2> QED
    BY <1>5, <2>1, DecideIInv DEF BeginReject
<1>6. ASSUME NEW r \in Runs, NEW d \in Defects, BeginReturn(c, r, d) PROVE IInv'
  <2> DEFINE k == [at |-> "register", locked |-> FALSE, report |-> <<r, d>>]
  <2>1. Settled(r) /\ Room /\ Begin(c, k) /\ UNCHANGED run
    BY <1>6, AwaitingSettles DEF BeginReturn
  <2>2. k \in Starts /\ k \in States
    <3>1. <<r, d>> \in Reports
      BY DEF Reports
    <3> QED
      BY <3>1, StatesHold
  <2>3. k.at = "register" /\ ~k.locked /\ k.report[1] = r
    OBVIOUS
  <2> HIDE DEF k
  <2>4. /\ RunOK'
        /\ \A q \in Runs : Touch(q)
        /\ \A q \in Runs : Kept(q) => Kept(q)'
        /\ \A q \in Runs : Honest(q)'
    <3>1. UNCHANGED <<held, object, file>> /\ UNCHANGED github
      BY <2>1 DEF run, Begin
    <3> QED
      BY <3>1, RunStays
  <2> QED
    BY <2>1, <2>2, <2>3, <2>4, BeginIInv
<1> QED
  BY <1>1, <1>2, <1>3, <1>4, <1>5, <1>6 DEF Ask

\* A run that is live is active for whoever asks.
LEMMA LiveActive ==
  ASSUME IInv, NEW r \in Runs, Live(r)
  PROVE  /\ held[r] = Thread /\ Memory(r) \in Active /\ file[r].status = Memory(r)
         /\ r <= created
<1>1. CASE Working(r)
  <2>1. held[r] = Thread /\ Memory(r) \in Active /\ file[r].status = Memory(r)
    BY <1>1 DEF IInv, LoopInv, Working
  <2>2. r <= created
    BY <1>1 DEF IInv, FreshInv, TypeOK, Runs, Working
  <2> QED
    BY <2>1, <2>2
<1>2. CASE Swept(r)
  BY <1>2 DEF Swept, IInv, SweepInv, Active
<1> QED
  BY <1>1, <1>2 DEF Live

LEMMA StartIInv ==
  ASSUME IInv, NEW c \in Clients, StartIfIdle(c)
  PROVE  IInv'
<1> DEFINE k == [at |-> "register", locked |-> TRUE, report |-> NoReport]
<1>0. TypeOK /\ DataOK /\ NoReport \in Reports
  BY DEF IInv, TypeOK, Reports
<1>1. /\ client[c].at = "idle" /\ file' = Reaped
      /\ \A b \in Clients : ~Locks(b)
      /\ UNCHANGED <<created, byHand, loop, applied, github>>
      /\ UNCHANGED <<held, object>>
      /\ UNCHANGED <<round, found, asked, branch, trees, report, decisions, faults, crashes>>
  BY DEF StartIfIdle, At, Locks, work, repository, counts
<1>2. /\ file' \in [Runs -> Contents]
      /\ \A q \in Runs : file'[q].pr = file[q].pr
                         /\ (file'[q] # file[q] => held[q] = Nobody /\ file[q].status \in Active)
  BY <1>0, <1>1, ReapedType
<1>3. DataOK'
  BY <1>0, <1>1, <1>2 DEF DataOK
<1>4. \A q \in Runs : Touch(q)
  <2>1. "absent" \notin Active
    BY DEF Active
  <2>2. \A q \in Runs : Memory(q)' = Memory(q)
    BY <1>1 DEF Memory
  <2> QED
    BY <1>1, <1>2, <2>1, <2>2 DEF Touch
<1>5. \A q \in Runs : Kept(q) => Kept(q)'
  <2>1. \A q \in Runs : Known(q)'.pr = Known(q).pr
    BY <1>1, <1>2 DEF Known
  <2> QED
    BY <1>1, <1>2, <2>1 DEF Kept
<1>6. \A q \in Runs : Honest(q)'
  <2>1. \A q \in Runs : Known(q)'.pr = Known(q).pr
    BY <1>1, <1>2 DEF Known
  <2> QED
    BY <1>1, <1>2, <2>1 DEF IInv, ReportInv, Honest
<1>7. CASE Room /\ Quiet /\ Go(c, k)
  <2>1. k \in Starts /\ k \in States
    BY <1>0, StatesHold
  <2>2. k.at = "register" /\ k.report = NoReport
    OBVIOUS
  <2>3. \A q \in Runs : ~Live(q)
    BY <1>7, LiveActive, ObjectNames DEF Quiet
  <2> HIDE DEF k
  <2> QED
    BY <1>1, <1>3, <1>4, <1>5, <1>6, <1>7, <2>1, <2>2, <2>3, RequestIInv DEF Decisive, Owning
<1>8. CASE UNCHANGED client
  <2>1. client[c] \in States /\ Go(c, client[c])
    BY <1>0, <1>8 DEF TypeOK, Go
  <2> QED
    BY <1>1, <1>3, <1>4, <1>5, <1>6, <2>1, RequestIInv DEF Decisive, Owning
<1> QED
  BY <1>7, <1>8 DEF StartIfIdle


\* What the cleanup will take away is past and old: the files say so.
LEMMA StaleIsPast ==
  ASSUME IInv, NEW n \in Runs, n = created + 1,
         NEW files \in [Runs -> Contents], files[n].status = "queued",
         \A q \in Runs : q # n => files[q] = file[q],
         NEW r \in Stale(files)
  PROVE  r \in Runs /\ Past(r) /\ n - r >= Keep
<1> DEFINE newer == {q \in Runs : q > r /\ files[q].status # "absent"}
<1>1. /\ r \in Runs /\ files[r].status \notin Active \cup {"absent"}
      /\ Cardinality(newer) >= Keep
  BY DEF Stale
<1>2. TypeOK /\ DataOK
  BY DEF IInv, TypeOK
<1>3. r # n /\ files[r] = file[r]
  BY <1>1, <1>2 DEF Active
<1>4. r \in Int /\ n \in Int /\ created \in Nat
  <2>1. created \in Nat
    BY <1>2 DEF TypeOK
  <2>2. \A q \in Runs : q \in Int
    BY DEF Runs
  <2> QED
    BY <1>1, <2>1, <2>2
<1>5. r <= created
  BY <1>1, <1>3, <1>4 DEF IInv, FreshInv
<1>6. ~Live(r)
  BY <1>1, <1>3, LiveActive
<1>7. newer \subseteq (r + 1)..n
  <2> SUFFICES ASSUME NEW q \in newer PROVE q \in (r + 1)..n
    OBVIOUS
  <2>1. q \in Runs /\ q > r /\ files[q].status # "absent" /\ q \in Int
    BY DEF Runs
  <2>2. q # n => files[q] = file[q]
    BY <2>1
  <2>3. ~(q > n)
    BY <1>4, <2>1, <2>2 DEF IInv, FreshInv
  <2> QED
    BY <1>4, <2>1, <2>3
<1>8. IsFiniteSet((r + 1)..n) /\ Cardinality((r + 1)..n) = n - r
  <2>1. r + 1 \in Int /\ ~(r + 1 > n) /\ n - (r + 1) + 1 = n - r
    BY <1>4, <1>5
  <2>2. \A a, b \in Int : ~(a > b) => IsFiniteSet(a..b) /\ Cardinality(a..b) = b - a + 1
    BY FS_Interval
  <2>3. Cardinality((r + 1)..n) = n - (r + 1) + 1 /\ IsFiniteSet((r + 1)..n)
    BY <1>4, <2>1, <2>2
  <2> QED
    BY <2>1, <2>3
<1>9. IsFiniteSet(newer) /\ Cardinality(newer) <= Cardinality((r + 1)..n)
  BY <1>7, <1>8, FS_Subset
<1>10. Cardinality(newer) \in Nat
  BY <1>9, FS_CardinalityType
<1> HIDE DEF newer
<1> QED
  BY <1>1, <1>4, <1>5, <1>6, <1>8, <1>9, <1>10, HealingAssumption DEF Past, Live

\* A request at work on a run that is started keeps off it.
LEMMA OwnersKeepOff ==
  ASSUME IInv, NEW b \in Clients, client[b].at \in Owning, NEW r \in Runs,
         held[r] # Thread, ~Settled(r)
  PROVE  client[b].run # r
<1>1. Owns(client[b])
  BY DEF IInv, ClientInv, ClientOK
<1> QED
  BY <1>1 DEF Owns

LEMMA RegisterIInv ==
  ASSUME IInv, NEW c \in Clients, Register(c)
  PROVE  IInv'
<1> USE DEF IInv
<1>0. TypeOK /\ DataOK /\ created \in Nat
  BY DEF TypeOK
<1>20. PICK r, new, k :
         /\ r = created + 1 /\ new = [Blank EXCEPT !.status = "queued"]
         /\ k = [at |-> "sweep", locked |-> client[c].locked, report |-> client[c].report,
                 run |-> r, stale |-> Stale(file'),
                 open |-> {o \in Runs : file[o].pr = "open"}]
  OBVIOUS
<1>1. /\ client[c].at = "register" /\ created' = r /\ Put(r, Thread, new) /\ Go(c, k)
      /\ byHand' = IF client[c].locked THEN byHand ELSE byHand \cup {r}
      /\ UNCHANGED <<loop, applied>>
      /\ UNCHANGED <<round, found, asked, branch, trees, github, report,
                     decisions, faults, crashes>>
  BY <1>20 DEF Register, At, work, repository, counts
<1>2. r \in Runs
  BY <1>0, <1>1, <1>20, NextNumber DEF At
<1>3. client[c].locked \in BOOLEAN /\ client[c].report \in Reports
  BY <1>0, <1>1, ClientFields
<1>4. new \in Contents /\ new.status = "queued" /\ new.pr = "none"
  BY <1>20 DEF Blank, Contents, Files, Statuses, Active, PRs
<1>5. k \in Sweeps /\ k \in States
  <2>1. Stale(file') \subseteq Runs
    BY DEF Stale
  <2>2. k \in Sweeps
    BY <1>2, <1>3, <1>20, <2>1 DEF Sweeps
  <2> QED
    BY <2>2, StatesHold
<1>6. /\ k.at = "sweep" /\ k.locked = client[c].locked /\ k.report = client[c].report
      /\ k.run = r /\ k.stale = Stale(file')
  BY <1>20
<1>10. /\ held[r] = Nobody /\ file[r].status = "absent" /\ loop[r] = "none" /\ github[r] = "none"
       /\ ~Working(r) /\ ~Swept(r) /\ ~Live(r) /\ ~Past(r) /\ ~Settled(r)
  <2>1. r > created /\ ~(r <= created)
    BY <1>0, <1>20
  <2>2. held[r] = Nobody /\ file[r].status = "absent" /\ loop[r] = "none" /\ github[r] = "none"
    BY <1>2, <2>1 DEF FreshInv
  <2>3. ~Live(r)
    BY <1>2, <2>2, LiveActive, ObjectNames
  <2> QED
    BY <2>1, <2>2, <2>3 DEF Live, Past, Settled
<1>7. /\ held' \in [Runs -> {Nobody} \cup Objects]
      /\ object' \in [Runs -> [Objects -> Contents]]
      /\ file' \in [Runs -> Contents]
      /\ held'[r] = Thread /\ object'[r][Thread] = new /\ file'[r] = new
      /\ \A o \in Objects : o # Thread => object'[r][o] = object[r][o]
      /\ \A q \in Runs : q # r =>
           held'[q] = held[q] /\ object'[q] = object[q] /\ file'[q] = file[q]
  BY <1>0, <1>1, <1>2, <1>4, ObjectNames, PutFacts, HoldFacts
<1>21. /\ Known(r)' = new /\ Memory(r)' = "queued" /\ file'[r].status = "queued"
       /\ \A q \in Runs : q # r => Known(q)' = Known(q) /\ Memory(q)' = Memory(q)
  BY <1>2, <1>4, <1>7, ObjectNames DEF Known, Memory
<1>8. TypeOK'
  <2>1. client' \in [Clients -> States]
    BY <1>0, <1>1, <1>5 DEF TypeOK, Go
  <2>2. DataOK'
    BY <1>0, <1>1, <1>2, <1>7 DEF DataOK
  <2>3. created' + Cardinality(Registering') <= MaxRuns
    BY <1>0, <1>1, <1>6, <1>20, Numbers, HealingAssumption DEF TypeOK, At
  <2> QED
    BY <1>0, <1>1, <1>20, <2>1, <2>2, <2>3 DEF TypeOK
<1>9. client'[c] = k /\ \A b \in Clients : b # c => client'[b] = client[b]
  BY <1>0, <1>1, Moved
<1>11. \A q \in Runs : Swept(q)' => Swept(q) \/ q = r
  BY <1>1, <1>6, <1>9 DEF Swept, At
<1>12. \A q \in Runs : Live(q)' => Live(q) \/ q = r
  BY <1>1, <1>11 DEF Live, Working
<1>13. \A q \in Runs : (Past(q) => Past(q)') /\ (Settled(q) => Settled(q)')
  <2>1. created \in Nat /\ created' \in Nat /\ created <= created'
    BY <1>0, <1>1, <1>20
  <2>2. ASSUME NEW q \in Runs, q # r PROVE (Past(q) => Past(q)') /\ (Settled(q) => Settled(q)')
    BY <1>1, <1>12, <2>1, <2>2, Stays
  <2> QED
    BY <1>10, <2>2
<1>14. FreshInv'
  <2> SUFFICES ASSUME NEW q \in Runs, q > created'
               PROVE  /\ held'[q] = Nobody /\ file'[q].status = "absent" /\ loop'[q] = "none"
                      /\ github'[q] = "none"
    BY DEF FreshInv
  <2>1. q > created /\ q # r
    BY <1>0, <1>1, <1>20 DEF Runs
  <2> QED
    BY <1>1, <1>7, <2>1 DEF FreshInv
<1>15. LoopInv'
  <2> SUFFICES ASSUME NEW q \in Runs
               PROVE  /\ loop'[q] # "none" => held'[q] = Thread
                      /\ Working(q)' => Memory(q)' \in Active /\ file'[q].status = Memory(q)'
                      /\ loop'[q] = "handover" => Memory(q)' = "succeeded"
    BY DEF LoopInv
  <2>1. CASE q = r
    BY <1>1, <1>10, <2>1 DEF Working
  <2>2. CASE q # r
    BY <1>1, <1>7, <1>21, <2>2 DEF Working, LoopInv
  <2> QED
    BY <2>1, <2>2
<1>16. SweepInv'
  <2>1. ASSUME NEW b \in Clients, At(b, "sweep")
        PROVE  /\ b # c /\ client'[b] = client[b] /\ client[b].run \in Runs
               /\ client[b].run # r /\ client[b].stale \subseteq Runs
    BY <1>0, <1>1, <1>9, <1>10, <2>1, ClientFields DEF At, Swept
  <2>2. \A b \in Clients : At(b, "sweep")' => At(b, "sweep") \/ b = c
    BY <1>9 DEF At
  <2>3. ASSUME NEW b \in Clients, At(b, "sweep"), NEW q \in Runs, q = client[b].run
        PROVE  /\ q <= created' /\ loop'[q] = "none" /\ held'[q] = Thread
               /\ Memory(q)' = "queued" /\ file'[q].status = "queued"
               /\ \A a \in Clients : At(a, "sweep")' /\ client'[a].run = q => a = b
               /\ \A p \in client'[b].stale : Past(p)' /\ created' - p >= Keep
    <3>1. /\ q <= created /\ loop[q] = "none" /\ held[q] = Thread
          /\ Memory(q) = "queued" /\ file[q].status = "queued"
          /\ \A a \in Clients : At(a, "sweep") /\ client[a].run = q => a = b
          /\ \A p \in client[b].stale : Past(p) /\ created - p >= Keep
      BY <2>3 DEF SweepInv
    <3>2. \A p \in client[b].stale : created' - p >= Keep
      BY <1>0, <1>1, <1>20, <2>1, <2>3, <3>1, HealingAssumption DEF Runs
    <3>3. q <= created'
      BY <1>0, <1>1, <1>20, <2>1, <2>3, <3>1 DEF Runs
    <3>4. \A a \in Clients : At(a, "sweep")' /\ client'[a].run = q => a = b
      BY <1>6, <1>9, <2>1, <2>2, <2>3, <3>1
    <3>5. q # r /\ client'[b] = client[b] /\ client[b].stale \subseteq Runs
      BY <2>1, <2>3
    <3> QED
      BY <1>1, <1>7, <1>13, <1>21, <3>1, <3>2, <3>3, <3>4, <3>5
  <2>4. /\ r <= created' /\ loop'[r] = "none"
        /\ \A a \in Clients : At(a, "sweep")' /\ client'[a].run = r => a = c
    BY <1>0, <1>1, <1>10, <1>20, <2>1, <2>2
  <2>5. \A q \in k.stale : Past(q)' /\ created' - q >= Keep
    <3> SUFFICES ASSUME NEW q \in Stale(file') PROVE Past(q)' /\ r - q >= Keep
      BY <1>1, <1>6
    <3>1. q \in Runs /\ Past(q) /\ r - q >= Keep
      BY <1>2, <1>7, <1>20, <1>21, StaleIsPast
    <3> QED
      BY <1>13, <3>1
  <2>6. ASSUME NEW b \in Clients, At(b, "sweep")'
        PROVE  /\ client'[b].run <= created' /\ loop'[client'[b].run] = "none"
               /\ held'[client'[b].run] = Thread
               /\ Memory(client[b].run)' = "queued" /\ file'[client'[b].run].status = "queued"
               /\ \A a \in Clients : At(a, "sweep")' /\ client'[a].run = client'[b].run => a = b
               /\ \A q \in client'[b].stale : Past(q)' /\ created' - q >= Keep
    <3>1. CASE b = c
      <4>1. client'[b].run = r /\ client'[b].stale = k.stale
        BY <1>6, <1>9, <3>1
      <4>2. Memory(client[b].run)' = Memory(r)'
        BY <4>1 DEF Memory
      <4> QED
        BY <1>7, <1>21, <2>4, <2>5, <3>1, <4>1, <4>2
    <3>2. CASE b # c
      <4>1. At(b, "sweep") /\ client'[b] = client[b] /\ client[b].run \in Runs
        BY <2>1, <2>2, <2>6, <3>2
      <4>2. PICK q \in Runs : q = client[b].run
        BY <4>1
      <4>3. Memory(client[b].run)' = Memory(q)'
        BY <4>1, <4>2 DEF Memory
      <4> QED
        BY <2>3, <4>1, <4>2, <4>3
    <3> QED
      BY <3>1, <3>2
  <2> QED
    BY <2>6 DEF SweepInv
<1>17. ClientInv'
  <2>1. ASSUME NEW b \in Clients, b # c PROVE ClientOK(b)'
    <3>1. client'[b] = client[b]
      BY <1>9, <2>1
    <3>2. client[b].at \in Owning => client[b].run \in Runs /\ client[b].run # r
      BY <1>0, <1>2, <1>10, ClientFields, OwnersKeepOff, ObjectNames
    <3>3. client[b].at \in Owning => Shares(client[b].run)
      BY <1>7, <3>2 DEF Shares
    <3>4. \A q \in Runs : Settled(q) =>
            Settled(q)' /\ applied'[q] = applied[q] /\ (Sent(q) => Sent(q)')
      BY <1>1, <1>7, <1>10, <1>13, <1>21 DEF Sent, Kept
    <3> QED
      BY <1>1, <3>1, <3>3, <3>4, OthersStay
  <2>2. ClientOK(c)'
    <3>1. client'[c] = k
      BY <1>9
    <3>2. k.report # NoReport => Settled(client[c].report[1])'
      <4>1. k.report # NoReport => client[c].report[1] \in Runs
        BY <1>3, <1>6 DEF Reports
      <4>2. k.report # NoReport => Settled(client[c].report[1])
        BY <1>1, <1>6 DEF ClientInv, ClientOK
      <4>3. \A q \in Runs : q = client[c].report[1] /\ Settled(q)' =>
              (k.report # NoReport => Settled(client[c].report[1])')
        BY <1>6, <3>1
      <4> QED
        BY <1>13, <4>1, <4>2, <4>3
    <3> QED
      BY <1>6, <3>1, <3>2 DEF ClientOK, At, Decisive, Owning
  <2> QED
    BY <2>1, <2>2 DEF ClientInv
<1>18. LockInv'
  <2>1. \A b \in Clients : Locks(b)' <=> Locks(b)
    BY <1>1, <1>6, <1>9 DEF Locks
  <2>2. \A b \in Clients : At(b, "register")' => b # c /\ At(b, "register")
    BY <1>6, <1>9 DEF At
  <2>3. byHand \subseteq byHand' /\ (~client[c].locked => r \in byHand')
    BY <1>1
  <2>4. ASSUME NEW b \in Clients, NEW q \in Runs, At(b, "register")', Locks(b)', Live(q)'
        PROVE  q \in byHand'
    <3>1. b # c /\ At(b, "register") /\ Locks(b)
      BY <2>1, <2>2, <2>4
    <3>2. ~client[c].locked
      BY <1>1, <3>1 DEF LockInv, Locks
    <3> QED
      BY <1>12, <2>3, <2>4, <3>1, <3>2 DEF LockInv
  <2>5. ASSUME NEW p \in Runs, NEW q \in Runs, p # q, Live(p)', Live(q)'
        PROVE  p \in byHand' \/ q \in byHand'
    <3>1. CASE p # r /\ q # r
      BY <1>12, <2>3, <2>5, <3>1 DEF LockInv
    <3>2. ASSUME NEW o \in Runs, o # r, Live(o) PROVE o \in byHand' \/ r \in byHand'
      BY <1>1, <2>3, <3>2 DEF LockInv, Locks, At
    <3> QED
      BY <1>2, <1>12, <2>5, <3>1, <3>2
  <2> QED
    BY <2>1, <2>4, <2>5 DEF LockInv
<1>19. ReportInv'
  <2>1. Honest(r)'
    <3>1. \A o \in Objects : object[r][o].pr = "none"
      BY <1>2, <1>10 DEF ReportInv, Honest
    <3>2. \A o \in Objects : object'[r][o].pr = "none"
      BY <1>4, <1>7, <3>1
    <3> QED
      BY <1>4, <1>7, <1>21, <3>2 DEF Honest
  <2>2. ASSUME NEW q \in Runs, q # r PROVE Honest(q)'
    BY <1>1, <1>7, <1>21, <2>2 DEF ReportInv, Honest
  <2>3. ASSUME NEW q \in Runs, NEW d \in Defects
        PROVE  /\ report'[q][d] # "none" => Settled(q)'
               /\ d \in applied'[q] /\ report'[q][d] = "approved" => Sent(q)'
    <3>1. Settled(q) /\ Sent(q) => Sent(q)'
      BY <1>1, <1>7, <1>10, <1>21 DEF Sent, Kept
    <3> QED
      BY <1>1, <1>13, <3>1 DEF ReportInv
  <2> QED
    BY <2>1, <2>2, <2>3 DEF ReportInv
<1> QED
  BY <1>8, <1>14, <1>15, <1>16, <1>17, <1>18, <1>19

LEMMA RegisterFailsIInv ==
  ASSUME IInv, NEW c \in Clients, RegisterFails(c)
  PROVE  IInv'
<1> USE DEF IInv
<1>0. TypeOK /\ DataOK /\ created \in Nat
  BY DEF TypeOK
<1>20. PICK r, new : r = created + 1 /\ new = [Blank EXCEPT !.status = "queued"]
  OBVIOUS
<1>1. /\ client[c].at = "register" /\ created' = r /\ Hold(r, Thread, new) /\ Go(c, Idle)
      /\ byHand' = IF client[c].locked THEN byHand ELSE byHand \cup {r}
      /\ faults < MaxFaults /\ faults' = faults + 1
      /\ UNCHANGED <<file, loop, applied>>
      /\ UNCHANGED <<round, found, asked, branch, trees, github, report,
                     decisions, crashes>>
  BY <1>20 DEF RegisterFails, At, work, repository
<1>2. r \in Runs
  BY <1>0, <1>1, <1>20, NextNumber DEF At
<1>4. new \in Contents /\ new.status = "queued" /\ new.pr = "none"
  BY <1>20 DEF Blank, Contents, Files, Statuses, Active, PRs
<1>5. Idle \in States /\ Idle.at = "idle"
  BY DEF States, Idle
<1>10. /\ held[r] = Nobody /\ file[r].status = "absent" /\ loop[r] = "none" /\ github[r] = "none"
       /\ ~Working(r) /\ ~Swept(r) /\ ~Live(r) /\ ~Past(r) /\ ~Settled(r)
  <2>1. r > created /\ ~(r <= created)
    BY <1>0, <1>20
  <2>2. held[r] = Nobody /\ file[r].status = "absent" /\ loop[r] = "none" /\ github[r] = "none"
    BY <1>2, <2>1 DEF FreshInv
  <2>3. ~Live(r)
    BY <1>2, <2>2, LiveActive, ObjectNames
  <2> QED
    BY <2>1, <2>2, <2>3 DEF Live, Past, Settled
<1>7. /\ held' \in [Runs -> {Nobody} \cup Objects]
      /\ object' \in [Runs -> [Objects -> Contents]]
      /\ held'[r] = Thread /\ object'[r][Thread] = new
      /\ \A o \in Objects : o # Thread => object'[r][o] = object[r][o]
      /\ \A q \in Runs : q # r => held'[q] = held[q] /\ object'[q] = object[q]
  BY <1>0, <1>1, <1>2, <1>4, ObjectNames, HoldFacts
<1>21. /\ Known(r)' = new /\ Memory(r)' = "queued"
       /\ \A q \in Runs : q # r => Known(q)' = Known(q) /\ Memory(q)' = Memory(q)
  BY <1>1, <1>2, <1>4, <1>7, ObjectNames DEF Known, Memory
<1>8. TypeOK'
  <2>1. client' \in [Clients -> States]
    BY <1>0, <1>1, <1>5 DEF TypeOK, Go
  <2>2. DataOK'
    <3>1. faults' \in 0..MaxFaults
      BY <1>0, <1>1, HealingAssumption DEF DataOK
    <3> QED
      BY <1>0, <1>1, <1>2, <1>7, <3>1 DEF DataOK
  <2>3. created' + Cardinality(Registering') <= MaxRuns
    BY <1>0, <1>1, <1>5, <1>20, Numbers, HealingAssumption DEF TypeOK, At
  <2> QED
    BY <1>0, <1>1, <1>20, <2>1, <2>2, <2>3 DEF TypeOK
<1>9. client'[c] = Idle /\ \A b \in Clients : b # c => client'[b] = client[b]
  BY <1>0, <1>1, Moved
<1>11. \A q \in Runs : Swept(q)' => Swept(q)
  BY <1>1, <1>5, <1>9 DEF Swept, At
<1>12. \A q \in Runs : Live(q)' => Live(q)
  BY <1>1, <1>11 DEF Live, Working
<1>13. \A q \in Runs : (Past(q) => Past(q)') /\ (Settled(q) => Settled(q)')
  <2>1. created \in Nat /\ created' \in Nat /\ created <= created'
    BY <1>0, <1>1, <1>20
  <2>2. ASSUME NEW q \in Runs, q # r PROVE (Past(q) => Past(q)') /\ (Settled(q) => Settled(q)')
    BY <1>1, <1>12, <2>1, <2>2, Stays
  <2> QED
    BY <1>10, <2>2
<1>14. FreshInv'
  <2> SUFFICES ASSUME NEW q \in Runs, q > created'
               PROVE  /\ held'[q] = Nobody /\ file'[q].status = "absent" /\ loop'[q] = "none"
                      /\ github'[q] = "none"
    BY DEF FreshInv
  <2>1. q > created /\ q # r
    BY <1>0, <1>1, <1>20 DEF Runs
  <2> QED
    BY <1>1, <1>7, <2>1 DEF FreshInv
<1>15. LoopInv'
  <2> SUFFICES ASSUME NEW q \in Runs
               PROVE  /\ loop'[q] # "none" => held'[q] = Thread
                      /\ Working(q)' => Memory(q)' \in Active /\ file'[q].status = Memory(q)'
                      /\ loop'[q] = "handover" => Memory(q)' = "succeeded"
    BY DEF LoopInv
  <2>1. CASE q = r
    BY <1>1, <1>10, <2>1 DEF Working
  <2>2. CASE q # r
    BY <1>1, <1>7, <1>21, <2>2 DEF Working, LoopInv
  <2> QED
    BY <2>1, <2>2
<1>16. SweepInv'
  <2> SUFFICES ASSUME NEW b \in Clients, At(b, "sweep")'
               PROVE  /\ client'[b].run <= created' /\ loop'[client'[b].run] = "none"
                      /\ held'[client'[b].run] = Thread
                      /\ Memory(client[b].run)' = "queued"
                      /\ file'[client'[b].run].status = "queued"
                      /\ \A a \in Clients :
                           At(a, "sweep")' /\ client'[a].run = client'[b].run => a = b
                      /\ \A q \in client'[b].stale : Past(q)' /\ created' - q >= Keep
    BY DEF SweepInv
  <2>1. \A a \in Clients : At(a, "sweep")' => a # c /\ At(a, "sweep") /\ client'[a] = client[a]
    BY <1>5, <1>9 DEF At
  <2>2. PICK q \in Runs : q = client[b].run /\ client[b].stale \subseteq Runs
    BY <1>0, <2>1, ClientFields DEF At
  <2>3. /\ q <= created /\ loop[q] = "none" /\ held[q] = Thread
        /\ Memory(q) = "queued" /\ file[q].status = "queued"
        /\ \A a \in Clients : At(a, "sweep") /\ client[a].run = q => a = b
        /\ \A p \in client[b].stale : Past(p) /\ created - p >= Keep
    BY <2>1, <2>2 DEF SweepInv
  <2>4. q # r
    BY <1>10, <2>3
  <2>5. \A p \in client[b].stale : created' - p >= Keep
    BY <1>0, <1>1, <1>20, <2>2, <2>3, HealingAssumption DEF Runs
  <2>6. q <= created'
    BY <1>0, <1>1, <1>20, <2>2, <2>3 DEF Runs
  <2>7. \A a \in Clients : At(a, "sweep")' /\ client'[a].run = q => a = b
    BY <2>1, <2>3
  <2>8. Memory(client[b].run)' = Memory(q)'
    BY <2>1, <2>2 DEF Memory
  <2> QED
    BY <1>1, <1>7, <1>13, <1>21, <2>1, <2>2, <2>3, <2>4, <2>5, <2>6, <2>7, <2>8
<1>17. ClientInv'
  <2>1. ASSUME NEW b \in Clients, b # c PROVE ClientOK(b)'
    <3>1. client'[b] = client[b]
      BY <1>9, <2>1
    <3>2. client[b].at \in Owning => client[b].run \in Runs /\ client[b].run # r
      BY <1>0, <1>2, <1>10, ClientFields, OwnersKeepOff, ObjectNames
    <3>3. client[b].at \in Owning => Shares(client[b].run)
      BY <1>1, <1>7, <3>2 DEF Shares
    <3>4. \A q \in Runs : Settled(q) =>
            Settled(q)' /\ applied'[q] = applied[q] /\ (Sent(q) => Sent(q)')
      BY <1>1, <1>7, <1>10, <1>13, <1>21 DEF Sent, Kept
    <3> QED
      BY <1>1, <3>1, <3>3, <3>4, OthersStay
  <2>2. ClientOK(c)'
    BY <1>5, <1>9 DEF ClientOK, At, Decisive, Owning
  <2> QED
    BY <2>1, <2>2 DEF ClientInv
<1>18. LockInv'
  <2>1. \A b \in Clients : (Locks(b)' => Locks(b)) /\ (At(b, "register")' => At(b, "register"))
    BY <1>5, <1>9 DEF Locks, At
  <2>2. byHand \subseteq byHand'
    BY <1>1
  <2> QED
    BY <1>12, <2>1, <2>2 DEF LockInv
<1>19. ReportInv'
  <2>1. Honest(r)'
    <3>1. \A o \in Objects : object[r][o].pr = "none"
      BY <1>2, <1>10 DEF ReportInv, Honest
    <3>2. \A o \in Objects : object'[r][o].pr = "none"
      BY <1>4, <1>7, <3>1
    <3> QED
      BY <1>1, <1>2, <1>7, <1>10, <3>2 DEF ReportInv, Honest
  <2>2. ASSUME NEW q \in Runs, q # r PROVE Honest(q)'
    BY <1>1, <1>7, <1>21, <2>2 DEF ReportInv, Honest
  <2>3. ASSUME NEW q \in Runs, NEW d \in Defects
        PROVE  /\ report'[q][d] # "none" => Settled(q)'
               /\ d \in applied'[q] /\ report'[q][d] = "approved" => Sent(q)'
    <3>1. Settled(q) /\ Sent(q) => Sent(q)'
      BY <1>1, <1>7, <1>10, <1>21 DEF Sent, Kept
    <3> QED
      BY <1>1, <1>13, <3>1 DEF ReportInv
  <2> QED
    BY <2>1, <2>2, <2>3 DEF ReportInv
<1> QED
  BY <1>8, <1>14, <1>15, <1>16, <1>17, <1>18, <1>19

LEMMA SweepIInv ==
  ASSUME IInv, NEW c \in Clients, Sweep(c)
  PROVE  IInv'
<1> USE DEF IInv
<1>0. TypeOK /\ DataOK
  BY DEF TypeOK
<1>19. PICK r, k :
         /\ r = client[c].run
         /\ k = IF client[c].report = NoReport THEN Idle
                ELSE [at |-> "mark", report |-> client[c].report]
  OBVIOUS
<1>1. /\ client[c].at = "sweep" /\ Go(c, k)
      /\ trees' = trees \ client[c].stale
      /\ branch' = [q \in Runs |-> IF q \in Unwanted(c) /\ branch[q] = "there"
                                   THEN "gone" ELSE branch[q]]
      /\ loop' = [loop EXCEPT ![r] = "queued"]
      /\ UNCHANGED <<created, byHand, applied>>
      /\ UNCHANGED <<held, object, file, round, found, asked, github, report,
                     decisions, faults, crashes>>
  BY <1>19 DEF Sweep, CleanUp, At, run, counts
<1>2. r \in Runs /\ client[c].report \in Reports
  BY <1>0, <1>1, <1>19, ClientFields
<1>3. /\ k \in States
      /\ \/ k.at = "idle"
         \/ k.at = "mark" /\ k.report = client[c].report
  <2>1. client[c].report # NoReport => client[c].report \in Runs \X Defects
    BY <1>2 DEF Reports
  <2>2. client[c].report # NoReport => k \in Marks
    BY <1>19, <2>1 DEF Marks
  <2> QED
    BY <1>19, <2>2, StatesHold DEF Idle
<1>4. /\ r <= created /\ loop[r] = "none" /\ held[r] = Thread
      /\ Memory(r) = "queued" /\ file[r].status = "queued"
      /\ \A b \in Clients : At(b, "sweep") /\ client[b].run = r => b = c
      /\ Swept(r)
  BY <1>1, <1>2, <1>19 DEF SweepInv, Swept, At
<1>5. client'[c] = k /\ \A b \in Clients : b # c => client'[b] = client[b]
  BY <1>0, <1>1, Moved
<1>6. r \in Runs /\ loop'[r] = "queued" /\ \A q \in Runs : q # r => loop'[q] = loop[q]
  BY <1>0, <1>1, <1>2 DEF DataOK
<1>7. TypeOK'
  <2>1. DataOK'
    BY <1>0, <1>1 DEF DataOK, Places
  <2> QED
    BY <1>0, <1>1, <1>3, <2>1, TypeGo
<1>8. \A b \in Clients : At(b, "sweep")' => b # c /\ At(b, "sweep")
  BY <1>3, <1>5 DEF At
<1>21. \A q \in Runs : Memory(q)' = Memory(q) /\ Known(q)' = Known(q)
  BY <1>1 DEF Memory, Known
<1>9. \A q \in Runs : (Swept(q)' => Swept(q)) /\ (Live(q)' => Live(q))
  <2>1. \A q \in Runs : Swept(q)' => Swept(q)
    BY <1>5, <1>8 DEF Swept
  <2> QED
    BY <1>4, <1>6, <2>1 DEF Live, Working
<1>10. \A q \in Runs : (Past(q) => Past(q)') /\ (Settled(q) => Settled(q)')
  BY <1>0, <1>1, <1>6, <1>9, Stays DEF TypeOK
<1>11. FreshInv'
  BY <1>0, <1>1, <1>2, <1>4, <1>6 DEF FreshInv, Runs, TypeOK
<1>12. LoopInv'
  <2> SUFFICES ASSUME NEW q \in Runs
               PROVE  /\ loop'[q] # "none" => held'[q] = Thread
                      /\ Working(q)' => Memory(q)' \in Active /\ file'[q].status = Memory(q)'
                      /\ loop'[q] = "handover" => Memory(q)' = "succeeded"
    BY DEF LoopInv
  <2>1. CASE q = r
    BY <1>1, <1>4, <1>6, <1>21, <2>1 DEF Active
  <2>2. CASE q # r
    BY <1>1, <1>6, <1>21, <2>2 DEF LoopInv, Working
  <2> QED
    BY <2>1, <2>2
<1>13. SweepInv'
  <2> SUFFICES ASSUME NEW b \in Clients, At(b, "sweep")'
               PROVE  /\ client'[b].run <= created' /\ loop'[client'[b].run] = "none"
                      /\ held'[client'[b].run] = Thread
                      /\ Memory(client[b].run)' = "queued"
                      /\ file'[client'[b].run].status = "queued"
                      /\ \A a \in Clients :
                           At(a, "sweep")' /\ client'[a].run = client'[b].run => a = b
                      /\ \A q \in client'[b].stale : Past(q)' /\ created' - q >= Keep
    BY DEF SweepInv
  <2>1. b # c /\ At(b, "sweep") /\ client'[b] = client[b]
    BY <1>5, <1>8
  <2>2. client[b].run \in Runs /\ client[b].run # r /\ client[b].stale \subseteq Runs
    BY <1>0, <1>4, <2>1, ClientFields DEF At
  <2>3. /\ client[b].run <= created /\ loop[client[b].run] = "none"
        /\ held[client[b].run] = Thread
        /\ Memory(client[b].run) = "queued" /\ file[client[b].run].status = "queued"
        /\ \A a \in Clients : At(a, "sweep") /\ client[a].run = client[b].run => a = b
        /\ \A q \in client[b].stale : Past(q) /\ created - q >= Keep
    BY <2>1 DEF SweepInv
  <2>4. \A a \in Clients : At(a, "sweep")' /\ client'[a].run = client'[b].run => a = b
    BY <1>5, <1>8, <2>1, <2>3
  <2>5. Memory(client[b].run)' = "queued"
    BY <1>1, <2>1, <2>3 DEF Memory
  <2> QED
    BY <1>1, <1>6, <1>10, <2>1, <2>2, <2>3, <2>4, <2>5
<1>14. ClientInv'
  <2>1. ASSUME NEW b \in Clients, b # c PROVE ClientOK(b)'
    <3>1. client'[b] = client[b]
      BY <1>5, <2>1
    <3>2. client[b].at \in Owning => Shares(client[b].run)
      BY <1>1 DEF Shares
    <3>3. \A q \in Runs : Settled(q) =>
            Settled(q)' /\ applied'[q] = applied[q] /\ (Sent(q) => Sent(q)')
      BY <1>1, <1>10, <1>21 DEF Sent, Kept
    <3> QED
      BY <1>1, <3>1, <3>2, <3>3, OthersStay
  <2>2. ClientOK(c)'
    <3>1. client'[c] = k
      BY <1>5
    <3>3. Settled(k.report[1])' => Settled(client[c].report[1])'
      BY <3>1
    <3>2. k.at = "mark" /\ k.report # NoReport => Settled(k.report[1])'
      <4>1. k.at = "mark" /\ k.report # NoReport => k.report[1] \in Runs
        BY <1>2, <1>3 DEF Reports
      <4>2. k.at = "mark" /\ k.report # NoReport => Settled(client[c].report[1])
        BY <1>1, <1>3 DEF ClientInv, ClientOK
      <4> QED
        BY <1>3, <1>10, <4>1, <4>2
    <3> QED
      BY <1>3, <3>1, <3>2, <3>3 DEF ClientOK, At, Decisive, Owning
  <2> QED
    BY <2>1, <2>2 DEF ClientInv
<1>15. LockInv'
  <2>1. \A b \in Clients : (Locks(b)' => Locks(b)) /\ (At(b, "register")' => At(b, "register"))
    BY <1>3, <1>5 DEF Locks, At
  <2> QED
    BY <1>1, <1>9, <2>1 DEF LockInv
<1>16. ReportInv'
  <2>1. \A q \in Runs : Honest(q)' /\ (Sent(q) => Sent(q)')
    BY <1>1, <1>21 DEF ReportInv, Honest, Sent, Kept
  <2> QED
    BY <1>1, <1>10, <2>1 DEF ReportInv
<1> QED
  BY <1>7, <1>11, <1>12, <1>13, <1>14, <1>15, <1>16

LEMMA SweepFailsIInv ==
  ASSUME IInv, NEW c \in Clients, SweepFails(c)
  PROVE  IInv'
<1> USE DEF IInv
<1>0. TypeOK /\ DataOK
  BY DEF TypeOK
<1>1. /\ client[c].at = "sweep" /\ Go(c, Idle)
      /\ trees' = trees \ client[c].stale
      /\ branch' = [q \in Runs |-> IF q \in Unwanted(c) /\ branch[q] = "there"
                                   THEN "gone" ELSE branch[q]]
      /\ faults < MaxFaults /\ faults' = faults + 1
      /\ UNCHANGED <<created, byHand, loop, applied>>
      /\ UNCHANGED <<held, object, file, round, found, asked, github, report,
                     decisions, crashes>>
  BY DEF SweepFails, CleanUp, At, run, work
<1>3. Idle \in States /\ Idle.at = "idle"
  BY DEF States, Idle
<1>5. client'[c] = Idle /\ \A b \in Clients : b # c => client'[b] = client[b]
  BY <1>0, <1>1, Moved
<1>7. TypeOK'
  <2>1. faults' \in 0..MaxFaults
    BY <1>0, <1>1, HealingAssumption DEF DataOK
  <2>2. DataOK'
    BY <1>0, <1>1, <2>1 DEF DataOK
  <2> QED
    BY <1>0, <1>1, <1>3, <2>2, TypeGo
<1>8. \A b \in Clients : At(b, "sweep")' => b # c /\ At(b, "sweep")
  BY <1>3, <1>5 DEF At
<1>21. \A q \in Runs : Memory(q)' = Memory(q) /\ Known(q)' = Known(q)
  BY <1>1 DEF Memory, Known
<1>9. \A q \in Runs : (Swept(q)' => Swept(q)) /\ (Live(q)' => Live(q))
  <2>1. \A q \in Runs : Swept(q)' => Swept(q)
    BY <1>5, <1>8 DEF Swept
  <2> QED
    BY <1>1, <2>1 DEF Live, Working
<1>10. \A q \in Runs : (Past(q) => Past(q)') /\ (Settled(q) => Settled(q)')
  BY <1>0, <1>1, <1>9, Stays DEF TypeOK
<1>11. FreshInv' /\ LoopInv'
  BY <1>1, <1>21 DEF FreshInv, LoopInv, Working
<1>13. SweepInv'
  <2> SUFFICES ASSUME NEW b \in Clients, At(b, "sweep")'
               PROVE  /\ client'[b].run <= created' /\ loop'[client'[b].run] = "none"
                      /\ held'[client'[b].run] = Thread
                      /\ Memory(client[b].run)' = "queued"
                      /\ file'[client'[b].run].status = "queued"
                      /\ \A a \in Clients :
                           At(a, "sweep")' /\ client'[a].run = client'[b].run => a = b
                      /\ \A q \in client'[b].stale : Past(q)' /\ created' - q >= Keep
    BY DEF SweepInv
  <2>1. b # c /\ At(b, "sweep") /\ client'[b] = client[b]
    BY <1>5, <1>8
  <2>2. client[b].run \in Runs /\ client[b].stale \subseteq Runs
    BY <1>0, <2>1, ClientFields DEF At
  <2>3. /\ client[b].run <= created /\ loop[client[b].run] = "none"
        /\ held[client[b].run] = Thread
        /\ Memory(client[b].run) = "queued" /\ file[client[b].run].status = "queued"
        /\ \A a \in Clients : At(a, "sweep") /\ client[a].run = client[b].run => a = b
        /\ \A q \in client[b].stale : Past(q) /\ created - q >= Keep
    BY <2>1 DEF SweepInv
  <2>4. \A a \in Clients : At(a, "sweep")' /\ client'[a].run = client'[b].run => a = b
    BY <1>5, <1>8, <2>1, <2>3
  <2>5. Memory(client[b].run)' = "queued"
    BY <1>1, <2>1, <2>3 DEF Memory
  <2> QED
    BY <1>1, <1>10, <2>1, <2>2, <2>3, <2>4, <2>5
<1>14. ClientInv'
  <2>1. ASSUME NEW b \in Clients, b # c PROVE ClientOK(b)'
    <3>1. client'[b] = client[b]
      BY <1>5, <2>1
    <3>2. client[b].at \in Owning => Shares(client[b].run)
      BY <1>1 DEF Shares
    <3>3. \A q \in Runs : Settled(q) =>
            Settled(q)' /\ applied'[q] = applied[q] /\ (Sent(q) => Sent(q)')
      BY <1>1, <1>10, <1>21 DEF Sent, Kept
    <3> QED
      BY <1>1, <3>1, <3>2, <3>3, OthersStay
  <2>2. ClientOK(c)'
    BY <1>3, <1>5 DEF ClientOK, At, Decisive, Owning
  <2> QED
    BY <2>1, <2>2 DEF ClientInv
<1>15. LockInv'
  <2>1. \A b \in Clients : (Locks(b)' => Locks(b)) /\ (At(b, "register")' => At(b, "register"))
    BY <1>3, <1>5 DEF Locks, At
  <2> QED
    BY <1>1, <1>9, <2>1 DEF LockInv
<1>16. ReportInv'
  <2>1. \A q \in Runs : Honest(q)' /\ (Sent(q) => Sent(q)')
    BY <1>1, <1>21 DEF ReportInv, Honest, Sent, Kept
  <2> QED
    BY <1>1, <1>10, <2>1 DEF ReportInv
<1> QED
  BY <1>7, <1>11, <1>13, <1>14, <1>15, <1>16

-----------------------------------------------------------------------------
(* The threads.                                                            *)

\* What a thread may do to the run: it works on its own object, which is the one in
\* memory, and the pull request in it stays.
RunMove(r) ==
  /\ held[r] = Thread /\ held' = held
  /\ \A q \in Runs : q # r =>
       object'[q] = object[q] /\ file'[q] = file[q] /\ Memory(q)' = Memory(q)
  /\ \A b \in Clients : object'[r][b] = object[r][b]
  /\ object'[r][Thread].pr = object[r][Thread].pr
  /\ file'[r].pr \in {file[r].pr, object[r][Thread].pr}

\* And to the rest, seen from outside.
LoopMove(r) ==
  /\ UNCHANGED <<created, byHand, client, github, crashes>>
  /\ loop[r] \notin {"none", "over"} /\ loop'[r] # "none"
  /\ RunMove(r)
  /\ \A q \in Runs : q # r =>
       loop'[q] = loop[q] /\ applied'[q] = applied[q] /\ report'[q] = report[q]
  /\ Working(r)' => Working(r) /\ Memory(r)' \in Active /\ file'[r].status = Memory(r)'
  /\ loop'[r] = "handover" => Working(r) /\ Memory(r)' = "succeeded"
  /\ Memory(r) = "cancelled" => Memory(r)' = "cancelled"
  /\ Memory(r)' \in Active /\ loop'[r] \in {"end", "over"} =>
       (Memory(r)' = Memory(r) /\ loop[r] = "end") \/ faults' # faults
  /\ Working(r) \/ applied'[r] = applied[r]
  /\ \A d \in Defects : report'[r][d] # report[r][d] =>
       report'[r][d] = "awaiting" /\ loop'[r] = "over"
  /\ trees \subseteq trees'
  /\ \A q \in Runs : branch'[q] = "gone" => branch[q] = "gone"

\* A status that a thread sets.
LEMMA LoopPuts ==
  ASSUME DataOK, NEW r \in Runs, held[r] = Thread, NEW x \in Contents,
         Hold(r, Thread, x), x.pr = object[r][Thread].pr,
         file' = file \/ file' = [file EXCEPT ![r] = x]
  PROVE  RunMove(r) /\ Memory(r)' = x.status
<1>1. Thread \in Objects /\ Thread # Nobody /\ \A b \in Clients : b \in Objects /\ b # Thread
  BY ObjectNames
<1>2. /\ held'[r] = Thread /\ object'[r][Thread] = x
      /\ \A p \in Objects : p # Thread => object'[r][p] = object[r][p]
      /\ \A q \in Runs : q # r => held'[q] = held[q] /\ object'[q] = object[q]
  BY <1>1, HoldFacts
<1>3. held' = held
  BY DEF Hold, DataOK
<1>4. /\ file'[r].pr \in {file[r].pr, object[r][Thread].pr}
      /\ \A q \in Runs : q # r => file'[q] = file[q]
  BY DEF DataOK
<1>5. Memory(r)' = x.status /\ \A q \in Runs : q # r => Memory(q)' = Memory(q)
  BY <1>1, <1>2 DEF Memory
<1> QED
  BY <1>1, <1>2, <1>3, <1>4, <1>5 DEF RunMove

LEMMA LoopTells ==
  ASSUME DataOK, NEW r \in Runs, held[r] = Thread, NEW new \in Files,
         Tell(r, new) \/ Assign(r, new)
  PROVE  /\ RunMove(r) /\ file'[r].status = Memory(r)'
         /\ Memory(r)' = new \/ (Memory(r) = "cancelled" /\ Memory(r)' = "cancelled" /\ Tell(r, new))
<1>1. Thread \in Objects /\ Memory(r) = object[r][Thread].status
  BY ObjectNames DEF Memory
<1>2. CASE Tell(r, new)
  <2>1. PICK x \in Contents :
          /\ Put(r, Thread, x) /\ x.pr = object[r][Thread].pr
          /\ x.status = IF object[r][Thread].status = "cancelled" THEN "cancelled" ELSE new
    BY <1>1, <1>2, UpdateFacts DEF Tell
  <2>2. RunMove(r) /\ Memory(r)' = x.status
    BY <2>1, LoopPuts DEF Put
  <2>3. file'[r] = x
    BY <1>1, <2>1, PutFacts
  <2> QED
    BY <1>1, <1>2, <2>1, <2>2, <2>3
<1>3. CASE Assign(r, new)
  <2>1. PICK x \in Contents :
          Put(r, Thread, x) /\ x.pr = object[r][Thread].pr /\ x.status = new
    BY <1>3, AssignFacts
  <2>2. RunMove(r) /\ Memory(r)' = x.status
    BY <2>1, LoopPuts DEF Put
  <2>3. file'[r] = x
    BY <1>1, <2>1, PutFacts
  <2> QED
    BY <2>1, <2>2, <2>3
<1> QED
  BY <1>2, <1>3

LEMMA LoopStays ==
  ASSUME NEW r \in Runs, held[r] = Thread, UNCHANGED run
  PROVE  RunMove(r) /\ Memory(r)' = Memory(r) /\ file' = file
  BY DEF run, RunMove, Memory

LEMMA LoopMoves ==
  ASSUME IInv, NEW r \in Runs, RunLoop(r)
  PROVE  LoopMove(r)
<1> USE DEF Step, LoopRest, work, repository, counts
<1>0. DataOK
  BY DEF IInv, TypeOK
<1>1. loop[r] \notin {"none", "over"}
  BY DEF RunLoop, Prepare, PrepareFails, Branch, Stop, Verify, Green, Red, Unexplained,
         TestsOnly, Locate, BeginFix, Fix, FixNothing, Reverify, Checked, HandOver, Exception,
         End, EndFails
<1>2. /\ held[r] = Thread
      /\ Working(r) => Memory(r) \in Active /\ file[r].status = Memory(r)
                       /\ Memory(r) # "cancelled"
      /\ loop[r] = "handover" => Memory(r) = "succeeded"
  BY <1>1 DEF IInv, LoopInv, Active
<1>3. ASSUME NEW new \in Files, Tell(r, new) \/ Assign(r, new)
      PROVE  /\ RunMove(r) /\ file'[r].status = Memory(r)'
             /\ Memory(r)' = new \/ (Memory(r) = "cancelled" /\ Memory(r)' = "cancelled" /\ Tell(r, new))
  BY <1>0, <1>2, <1>3, LoopTells
<1>4. UNCHANGED run => RunMove(r) /\ Memory(r)' = Memory(r) /\ file' = file
  BY <1>2, LoopStays
<1>5. {"queued", "preparing", "verifying", "reverifying", "analyzing", "fixing", "failed",
       "cancelled", "succeeded", "no_defects", "awaiting_human"} \subseteq Files
  BY FilesHold
<1>6. CASE Prepare(r)
  BY <1>0, <1>2, <1>3, <1>4, <1>5, <1>6 DEF Prepare, LoopMove, DataOK, Working, Active
<1>7. CASE PrepareFails(r)
  BY <1>0, <1>2, <1>3, <1>4, <1>5, <1>7 DEF PrepareFails, LoopMove, DataOK, Working, Active
<1>8. CASE Branch(r)
  BY <1>0, <1>2, <1>3, <1>4, <1>5, <1>8 DEF Branch, LoopMove, DataOK, Working, Active
<1>9. CASE Stop(r)
  BY <1>0, <1>2, <1>3, <1>4, <1>5, <1>9 DEF Stop, LoopMove, DataOK, Working, Active
<1>10. CASE Verify(r)
  BY <1>0, <1>2, <1>3, <1>4, <1>5, <1>10 DEF Verify, LoopMove, DataOK, Working, Active
<1>11. CASE Green(r)
  BY <1>0, <1>2, <1>3, <1>4, <1>5, <1>11 DEF Green, LoopMove, DataOK, Working, Active
<1>12. CASE Red(r)
  BY <1>0, <1>2, <1>3, <1>4, <1>5, <1>12 DEF Red, LoopMove, DataOK, Working, Active
<1>13. CASE Unexplained(r)
  BY <1>0, <1>2, <1>3, <1>4, <1>5, <1>13 DEF Unexplained, LoopMove, DataOK, Working, Active
<1>14. CASE TestsOnly(r)
  BY <1>0, <1>2, <1>3, <1>4, <1>5, <1>14 DEF TestsOnly, Record, LoopMove, DataOK, Working, Active
<1>15. CASE Locate(r)
  BY <1>0, <1>2, <1>3, <1>4, <1>5, <1>15 DEF Locate, Record, LoopMove, DataOK, Working, Active
<1>16. CASE BeginFix(r)
  BY <1>0, <1>2, <1>3, <1>4, <1>5, <1>16 DEF BeginFix, LoopMove, DataOK, Working, Active
<1>17. CASE Fix(r)
  BY <1>0, <1>2, <1>3, <1>4, <1>5, <1>17 DEF Fix, LoopMove, DataOK, Working, Active
<1>18. CASE FixNothing(r)
  BY <1>0, <1>2, <1>3, <1>4, <1>5, <1>18 DEF FixNothing, LoopMove, DataOK, Working, Active
<1>19. CASE Reverify(r)
  BY <1>0, <1>2, <1>3, <1>4, <1>5, <1>19 DEF Reverify, LoopMove, DataOK, Working, Active
<1>20. CASE Checked(r)
  BY <1>0, <1>2, <1>3, <1>4, <1>5, <1>20 DEF Checked, LoopMove, DataOK, Working, Active
<1>21. CASE HandOver(r)
  BY <1>0, <1>2, <1>3, <1>4, <1>5, <1>21 DEF HandOver, LoopMove, DataOK, Working, Active
<1>22. CASE Exception(r)
  <2> DEFINE x == [object[r][Thread] EXCEPT !.status = "failed"]
  <2>1. x \in Contents /\ x.pr = object[r][Thread].pr /\ x.status = "failed"
    BY <1>0, <1>5, KnownType, ContentsHold, ObjectNames
  <2>2. Hold(r, Thread, x) /\ (file' = file \/ file' = [file EXCEPT ![r] = x])
    BY <1>22 DEF Exception
  <2> HIDE DEF x
  <2>3. RunMove(r) /\ Memory(r)' = "failed"
    BY <1>0, <1>2, <2>1, <2>2, LoopPuts
  <2>4. faults' # faults
    BY <1>0, <1>22 DEF Exception, DataOK
  <2> QED
    BY <1>0, <1>2, <1>22, <2>3, <2>4 DEF Exception, LoopMove, DataOK, Working, Active
<1>23. CASE End(r)
  <2>1. RunMove(r) /\ Memory(r)' = Memory(r)
    BY <1>0, <1>2, <1>23 DEF End, RunMove, Memory, DataOK
  <2> QED
    BY <1>0, <1>2, <1>23, <2>1 DEF End, LoopMove, DataOK, Working, Active
<1>24. CASE EndFails(r)
  BY <1>0, <1>2, <1>4, <1>24 DEF EndFails, LoopMove, DataOK, Working, Active
<1> QED
  BY <1>6, <1>7, <1>8, <1>9, <1>10, <1>11, <1>12, <1>13, <1>14, <1>15, <1>16, <1>17,
     <1>18, <1>19, <1>20, <1>21, <1>22, <1>23, <1>24 DEF RunLoop

LEMMA LoopIInv ==
  ASSUME IInv, NEW r \in Runs, RunLoop(r)
  PROVE  IInv'
<1> USE DEF IInv
<1>0. TypeOK /\ DataOK /\ TypeOK'
  BY LoopTypes DEF TypeOK
<1>1. LoopMove(r)
  BY LoopMoves
<1>2. /\ UNCHANGED <<created, byHand, client, github>>
      /\ loop[r] \notin {"none", "over"} /\ loop'[r] # "none"
      /\ \A q \in Runs : q # r =>
           loop'[q] = loop[q] /\ applied'[q] = applied[q] /\ report'[q] = report[q]
      /\ Working(r)' => Working(r) /\ Memory(r)' \in Active /\ file'[r].status = Memory(r)'
      /\ loop'[r] = "handover" => Working(r) /\ Memory(r)' = "succeeded"
      /\ Working(r) \/ applied'[r] = applied[r]
      /\ \A d \in Defects : report'[r][d] # report[r][d] =>
           report'[r][d] = "awaiting" /\ loop'[r] = "over"
  BY <1>1 DEF LoopMove
<1>12. /\ held[r] = Thread /\ Thread # Nobody /\ held' = held
       /\ \A q \in Runs : q # r =>
            object'[q] = object[q] /\ file'[q] = file[q] /\ Memory(q)' = Memory(q)
       /\ \A b \in Clients : object'[r][b] = object[r][b]
       /\ object'[r][Thread].pr = object[r][Thread].pr
       /\ file'[r].pr \in {file[r].pr, object[r][Thread].pr}
  BY <1>1, ObjectNames DEF LoopMove, RunMove
<1>13. \A q \in Runs : Known(q)'.pr = Known(q).pr
  BY <1>12 DEF Known
<1>14. \A q \in Runs : Sent(q) => Sent(q)'
  BY <1>2, <1>12, <1>13 DEF Sent, Kept, Known
<1>3. r <= created /\ ~Swept(r)
  BY <1>0, <1>2 DEF FreshInv, Swept, SweepInv, Runs, TypeOK
<1>4. \A q \in Runs : /\ Swept(q)' <=> Swept(q)
                      /\ Live(q)' => Live(q)
                      /\ loop'[q] = "handover" => loop[q] = "handover" \/ Working(q)
  <2>1. \A b \in Clients : At(b, "sweep")' <=> At(b, "sweep")
    BY <1>2 DEF At
  <2>2. \A q \in Runs : Swept(q)' <=> Swept(q)
    BY <1>2, <2>1 DEF Swept
  <2>3. \A q \in Runs : Working(q)' => Working(q)
    BY <1>2 DEF Working
  <2>4. \A q \in Runs : loop'[q] = "handover" => loop[q] = "handover" \/ Working(q)
    BY <1>2
  <2> QED
    BY <2>2, <2>3, <2>4 DEF Live
<1>5. \A q \in Runs : (Past(q) => Past(q)') /\ (Settled(q) => Settled(q)')
  BY <1>0, <1>2, <1>4, Stays DEF TypeOK
<1>6. FreshInv'
  BY <1>0, <1>2, <1>3, <1>12 DEF FreshInv, Runs, TypeOK
<1>7. LoopInv'
  BY <1>2, <1>12 DEF LoopInv, Working
<1>8. SweepInv'
  <2> SUFFICES ASSUME NEW b \in Clients, At(b, "sweep")
               PROVE  /\ client[b].run <= created /\ loop'[client[b].run] = "none"
                      /\ held'[client[b].run] = Thread
                      /\ Memory(client[b].run)' = "queued"
                      /\ file'[client[b].run].status = "queued"
                      /\ \A a \in Clients :
                           At(a, "sweep") /\ client[a].run = client[b].run => a = b
                      /\ \A q \in client[b].stale : Past(q)' /\ created - q >= Keep
    BY <1>2 DEF SweepInv, At
  <2>1. client[b].run \in Runs /\ client[b].run # r /\ client[b].stale \subseteq Runs
    BY <1>0, <1>3, ClientFields DEF At, Swept
  <2>2. PICK q \in Runs : q = client[b].run /\ client'[b].run = q
    BY <1>2, <2>1
  <2>3. Memory(client[b].run)' = Memory(q)'
    BY <2>2 DEF Memory
  <2>4. Memory(client[b].run)' = "queued"
    BY <1>12, <2>1, <2>2, <2>3 DEF SweepInv
  <2> QED
    BY <1>2, <1>5, <1>12, <2>1, <2>4 DEF SweepInv
<1>9. ClientInv'
  <2> SUFFICES ASSUME NEW b \in Clients PROVE ClientOK(b)'
    BY DEF ClientInv
  <2>1. \A q \in Runs : Settled(q) =>
          Settled(q)' /\ applied'[q] = applied[q] /\ (Sent(q) => Sent(q)')
    BY <1>2, <1>5, <1>14 DEF Settled, Past
  <2>2. \A q \in Runs : Shares(q)
    BY <1>12 DEF Shares
  <2>3. client[b].at \in Owning => client[b].run \in Runs
    BY <1>0, ClientFields
  <2> QED
    BY <1>2, <2>1, <2>2, <2>3, OthersStay
<1>10. LockInv'
  <2>1. \A b \in Clients : (Locks(b)' <=> Locks(b)) /\ (At(b, "register")' <=> At(b, "register"))
    BY <1>2 DEF Locks, At
  <2> QED
    BY <1>2, <1>4, <2>1 DEF LockInv
<1>11. ReportInv'
  <2>1. ASSUME NEW q \in Runs, NEW d \in Defects
        PROVE  /\ report'[q][d] # "none" => Settled(q)'
               /\ d \in applied'[q] /\ report'[q][d] = "approved" => Sent(q)'
    <3>1. CASE report'[q][d] = report[q][d]
      <4>1. report[q][d] # "none" => Settled(q)
        BY DEF ReportInv
      <4>2. Settled(q) => applied'[q] = applied[q]
        BY <1>2 DEF Settled, Past
      <4> QED
        BY <1>5, <1>14, <3>1, <4>1, <4>2 DEF ReportInv
    <3>2. CASE report'[q][d] # report[q][d]
      <4>1. q = r /\ report'[r][d] = "awaiting" /\ loop'[r] = "over"
        BY <1>2, <3>2
      <4>2. Settled(r)'
        BY <1>2, <1>3, <1>4, <4>1 DEF Settled, Past, Working
      <4> QED
        BY <4>1, <4>2
    <3> QED
      BY <3>1, <3>2
  <2>2. ASSUME NEW q \in Runs PROVE Honest(q)'
    <3>1. Honest(q)
      BY DEF ReportInv
    <3>2. CASE q # r
      BY <1>2, <1>12, <1>13, <3>1, <3>2 DEF Honest
    <3>3. CASE q = r
      <4>1. \A o \in Objects : object'[r][o].pr = object[r][o].pr
        BY <1>12 DEF Objects
      <4>2. Known(r).pr = object[r][Thread].pr /\ Thread \in Objects
        BY <1>12, ObjectNames DEF Known
      <4> QED
        BY <1>2, <1>12, <1>13, <3>1, <3>3, <4>1, <4>2 DEF Honest
    <3> QED
      BY <3>2, <3>3
  <2> QED
    BY <2>1, <2>2 DEF ReportInv
<1> QED
  BY <1>0, <1>6, <1>7, <1>8, <1>9, <1>10, <1>11

\* What is not looked at by the invariant.
LEMMA UntouchedIInv ==
  ASSUME IInv, DataOK',
         UNCHANGED <<created, byHand, held, object, file, loop, applied, client, github,
                     report>>
  PROVE  IInv'
<1>1. TypeOK'
  BY TypeStay DEF IInv
<1>2. \A r \in Runs : /\ Working(r)' <=> Working(r)
                      /\ Swept(r)' <=> Swept(r)
                      /\ Live(r)' <=> Live(r)
                      /\ Past(r)' <=> Past(r)
                      /\ Settled(r)' <=> Settled(r)
                      /\ Known(r)' = Known(r) /\ Memory(r)' = Memory(r)
  BY DEF Working, Swept, Live, Past, Settled, At, Known, Memory
<1>3. FreshInv' /\ LoopInv'
  BY <1>2 DEF IInv, FreshInv, LoopInv
<1>4. ReportInv'
  BY <1>2 DEF IInv, ReportInv, Honest, Sent, Kept
<1>5. SweepInv'
  BY DEF IInv, SweepInv, At, Past, Working, Swept, Memory
<1>6. ClientInv'
  <2> SUFFICES ASSUME NEW b \in Clients PROVE ClientOK(b)'
    BY DEF ClientInv
  <2>1. Shares(client[b].run)
    BY DEF Shares
  <2>2. \A q \in Runs : Settled(q) =>
          Settled(q)' /\ applied'[q] = applied[q] /\ (Sent(q) => Sent(q)')
    BY <1>2 DEF Sent, Kept
  <2> QED
    BY <2>1, <2>2, OthersStay
<1>7. LockInv'
  BY DEF IInv, LockInv, Locks, At, Live, Working, Swept
<1> QED
  BY <1>1, <1>3, <1>4, <1>5, <1>6, <1>7 DEF IInv

LEMMA CancelIInv ==
  ASSUME IInv, NEW r \in Runs, Cancel(r)
  PROVE  IInv'
<1>1. /\ asked' = asked \cup {r}
      /\ UNCHANGED <<created, byHand, held, object, file, loop, applied, client, github,
                     report>>
      /\ UNCHANGED <<round, found, branch, trees, decisions, faults, crashes>>
  BY DEF Cancel, run, work, repository, counts
<1>2. DataOK'
  BY <1>1 DEF IInv, TypeOK, DataOK
<1> QED
  BY <1>1, <1>2, UntouchedIInv

\* After a restart nothing is live; what took decisions goes on taking them, and what a
\* file says of a pull request is all that is known.
LEMMA RestartIInv ==
  ASSUME IInv, Restart
  PROVE  IInv'
<1>0. TypeOK /\ DataOK
  BY DEF IInv, TypeOK
<1>1. /\ held' = [r \in Runs |-> Nobody] /\ loop' = [r \in Runs |-> "none"]
      /\ object' = [r \in Runs |-> [o \in Objects |-> Blank]]
      /\ client' = [c \in Clients |-> Idle] /\ asked' = {}
      /\ branch' = [r \in Runs |-> IF file[r].status = "preparing" THEN "none" ELSE branch[r]]
      /\ crashes < MaxCrashes /\ crashes' = crashes + 1
      /\ UNCHANGED <<created, byHand, file, round, found, applied, trees, github, report,
                     decisions, faults>>
  BY DEF Restart
<1>2. \A c \in Clients : client'[c].at = "idle"
  BY <1>1 DEF Idle
<1>3. TypeOK'
  <2>1. DataOK'
    <3>1. Blank \in Contents
      BY DEF Blank, Contents, Files, PRs
    <3> QED
      BY <1>0, <1>1, <3>1, HealingAssumption DEF DataOK, Places
  <2>2. client' \in [Clients -> States]
    BY <1>1, StatesHold
  <2>3. Registering' = {} /\ Cardinality(Registering') = 0
    BY <1>2, FS_EmptySet DEF Registering, At
  <2>4. Cardinality(Registering) \in Nat
    BY HealingAssumption, FS_Subset, FS_CardinalityType DEF Registering
  <2> QED
    BY <1>0, <1>1, <2>1, <2>2, <2>3, <2>4, HealingAssumption DEF TypeOK
<1>4. \A r \in Runs : ~Working(r)' /\ ~Swept(r)' /\ ~Live(r)'
  BY <1>1, <1>2 DEF Working, Swept, Live, At
<1>5. \A r \in Runs : Settled(r) => Settled(r)'
  BY <1>1, <1>4 DEF Settled, Past
<1>6. FreshInv' /\ LoopInv'
  BY <1>1, <1>4 DEF IInv, FreshInv, LoopInv
<1>7. SweepInv' /\ ClientInv' /\ LockInv'
  BY <1>2, <1>4 DEF SweepInv, ClientInv, ClientOK, LockInv, Locks, At, Decisive, Owning
<1>8. ReportInv'
  <2>1. \A r \in Runs : Kept(r)'
    BY <1>1, ObjectNames DEF Kept
  <2>2. \A r \in Runs, o \in Objects : object'[r][o].pr = "none"
    BY <1>1 DEF Blank
  <2>3. \A r \in Runs : Honest(r)'
    BY <1>1, <2>2 DEF IInv, ReportInv, Honest
  <2> QED
    BY <1>1, <1>5, <2>1, <2>3 DEF IInv, ReportInv, Sent
<1> QED
  BY <1>3, <1>6, <1>7, <1>8 DEF IInv

LEMMA NextIInv ==
  ASSUME IInv, [Next]_vars
  PROVE  IInv'
<1>1. CASE UNCHANGED vars
  <2>1. UNCHANGED <<created, byHand, held, object, file, loop, applied, client, github,
                    report, round, found, asked, branch, trees, decisions, faults, crashes>>
    BY <1>1 DEF vars, run, work, repository, counts
  <2>2. DataOK'
    BY <2>1 DEF IInv, TypeOK, DataOK
  <2> QED
    BY <2>1, <2>2, UntouchedIInv
<1>2. ASSUME NEW c \in Clients, Serve(c) PROVE IInv'
  BY <1>2, RegisterIInv, RegisterFailsIInv, SweepIInv, SweepFailsIInv, OpenIInv, PushFailsIInv,
     RecordIInv, TakeIInv, ApproveIInv, RejectIInv, ReturnedIInv, RerunIInv, RerunEndsIInv,
     BeginMergeIInv, MergeIInv DEF Serve
<1> QED
  BY <1>1, <1>2, StartIInv, AskIInv, LoopIInv, CancelIInv, RestartIInv DEF Next

-----------------------------------------------------------------------------
(* The theorems.                                                           *)

\* The strengthening that the theorems below rest on.
THEOREM Invariant == Spec => []IInv
<1>1. Init => IInv
  BY InitIInv
<1>2. IInv /\ [Next]_vars => IInv'
  BY NextIInv
<1> QED
  BY <1>1, <1>2, PTL DEF Spec

\* Every state is of the types above.
THEOREM TypeCorrect == Spec => []TypeOK
<1>1. IInv => TypeOK
  BY DEF IInv
<1> QED
  BY <1>1, Invariant, PTL

\* AloneUnlessByHand: of two threads at work one belongs to a run started by hand,
\* because whoever holds the start lock found no live run.
THEOREM Alone == Spec => []AloneUnlessByHand
<1>1. IInv => AloneUnlessByHand
  BY DEF IInv, LockInv, Live, AloneUnlessByHand
<1> QED
  BY <1>1, Invariant, PTL

\* ApprovedFixWasSent: the pull request is at GitHub when the report is approved, a run
\* that has reports merges no more repairs, and while the thread's object is in memory
\* every request works on that one.
THEOREM ApprovedSent == Spec => []ApprovedFixWasSent
<1>1. IInv => ApprovedFixWasSent
  BY DEF IInv, TypeOK, DataOK, ReportInv, Sent, Kept, ApprovedFixWasSent
<1> QED
  BY <1>1, Invariant, PTL

-----------------------------------------------------------------------------
(* What a step may never do.                                               *)

\* A step of a request, seen from the status that a run has in memory.
RequestMove(c, q) ==
  /\ \A b \in Clients : b # c => client'[b] = client[b]
  /\ \/ loop' = loop /\ (At(c, "sweep") => faults' # faults)
     \/ loop' = [loop EXCEPT ![client[c].run] = "queued"] /\ At(c, "sweep")
  /\ Memory(q) = "cancelled" => Memory(q)' = "cancelled"
  /\ Memory(q)' \in Active =>
       \/ Memory(q) \in Active
       \/ client'[c].at \in {"sweep", "verifying"} /\ client'[c].run = q
       \/ faults' # faults
  /\ At(c, "verifying") /\ client[c].run = q => Memory(q)' \notin Active \/ faults' # faults

\* No copy takes the place of what a run is known by.
Remains(q) == held'[q] \in Clients => held'[q] = held[q] \/ held[q] = Thread

LEMMA SameMoves ==
  ASSUME IInv, NEW c \in Clients, NEW k, Go(c, k), loop' = loop, NEW q \in Runs,
         Memory(q)' = Memory(q), client[c].at \notin {"sweep", "verifying"}
  PROVE  RequestMove(c, q)
  BY Moved DEF RequestMove, At, IInv

\* A request that puts its object into _RUNS.
LEMMA HoldMoves ==
  ASSUME IInv, NEW c \in Clients, client[c].at \in Owning, NEW k, Go(c, k), loop' = loop,
         NEW r, r = client[c].run, NEW o, o = client[c].own, NEW new \in Contents,
         Hold(r, o, new),
         object[r][o].status = "cancelled" => new.status = "cancelled",
         new.status \in Active =>
           /\ client[c].at # "verifying"
           /\ new.status = object[r][o].status \/ (k.at = "verifying" /\ k.run = r),
         NEW q \in Runs, Remains(q)
  PROVE  RequestMove(c, q)
<1>1. TypeOK /\ DataOK /\ r \in Runs /\ o \in Objects /\ o # Nobody /\ client[c].at # "sweep"
  BY ClientFields, ObjectNames DEF IInv, TypeOK, Owning, Decisive
<1>2. client'[c] = k /\ \A b \in Clients : b # c => client'[b] = client[b]
  BY <1>1, Moved
<1>3. /\ held'[r] = o /\ object'[r][o] = new
      /\ \A p \in Runs : p # r => held'[p] = held[p] /\ object'[p] = object[p]
  BY <1>1, HoldFacts
<1>4. CASE q # r
  <2>1. Memory(q)' = Memory(q)
    BY <1>3, <1>4 DEF Memory
  <2> QED
    BY <1>1, <1>2, <1>4, <2>1 DEF RequestMove, At
<1>5. CASE q = r
  <2>1. Owns(client[c])
    BY DEF IInv, ClientInv, ClientOK
  <2>2. held[r] = o
    BY <1>1, <1>3, <1>5, <2>1 DEF Owns, Remains, Objects
  <2>3. Memory(q) = object[r][o].status /\ Memory(q)' = new.status
    BY <1>1, <1>3, <1>5, <2>2 DEF Memory
  <2> QED
    BY <1>1, <1>2, <1>5, <2>3 DEF RequestMove, At
<1> QED
  BY <1>4, <1>5

LEMMA UpdateMoves ==
  ASSUME IInv, NEW c \in Clients, client[c].at \in Owning, NEW k, Go(c, k), loop' = loop,
         NEW r, r = client[c].run, NEW o, o = client[c].own, NEW new \in Files,
         Update(r, o, new),
         new \notin Active
           \/ (client[c].at # "verifying" /\ k.at = "verifying" /\ k.run = r),
         NEW q \in Runs, Remains(q)
  PROVE  RequestMove(c, q)
<1>1. DataOK /\ r \in Runs /\ o \in Objects
  BY ClientFields DEF IInv, TypeOK
<1>2. PICK x \in Contents :
        /\ Put(r, o, x)
        /\ x.status = IF object[r][o].status = "cancelled" THEN "cancelled" ELSE new
  BY <1>1, UpdateFacts
<1>3. Hold(r, o, x) /\ "cancelled" \notin Active
  BY <1>2 DEF Put, Active
<1> QED
  BY <1>2, <1>3, HoldMoves

LEMMA RequestMoves ==
  ASSUME IInv, NEW c \in Clients, StartIfIdle(c) \/ Ask(c) \/ Serve(c),
         NEW q \in Runs, Remains(q)
  PROVE  RequestMove(c, q)
<1>0. TypeOK /\ DataOK
  BY DEF IInv, TypeOK
<1>1. ASSUME NEW k, Go(c, k), loop' = loop, UNCHANGED <<held, object>>,
             client[c].at \notin {"sweep", "verifying"}
      PROVE  RequestMove(c, q)
  <2>1. Memory(q)' = Memory(q)
    BY <1>1 DEF Memory
  <2> QED
    BY <1>1, <2>1, SameMoves
<1>2. ASSUME NEW k, Go(c, k), loop' = loop, NEW r \in Runs, Load(c, r), UNCHANGED github,
             client[c].at \notin Owning \cup {"sweep"}
      PROVE  RequestMove(c, q)
  <2>1. held' = held /\ (held[q] # Nobody => object'[q][held[q]] = object[q][held[q]])
    BY <1>0, <1>2 DEF Load, DataOK
  <2>2. Memory(q)' = Memory(q)
    BY <2>1 DEF Memory
  <2> QED
    BY <1>2, <2>2, SameMoves DEF Owning, Decisive
<1>3. CASE StartIfIdle(c)
  <2>1. \E k : Go(c, k)
    <3>1. CASE UNCHANGED client
      <4>1. Go(c, client[c])
        BY <1>0, <3>1 DEF TypeOK, Go
      <4> QED
        BY <4>1
    <3> QED
      BY <1>3, <3>1 DEF StartIfIdle
  <2>2. loop' = loop /\ UNCHANGED <<held, object>> /\ client[c].at = "idle"
    BY <1>3 DEF StartIfIdle, At, work
  <2> QED
    BY <1>1, <2>1, <2>2
<1>4. CASE Ask(c)
  <2>1. CASE \E k : Go(c, k) /\ loop' = loop /\ UNCHANGED run /\ client[c].at = "idle"
    BY <1>1, <2>1 DEF run
  <2>2. ASSUME NEW r \in Runs, NEW some, BeginPush(c, r, some) PROVE RequestMove(c, q)
    <3>1. PICK k : Begin(c, k) /\ Load(c, r)
      BY <2>2 DEF BeginPush
    <3> QED
      BY <1>2, <3>1 DEF Begin, At, work, Owning, Decisive
  <2>3. ASSUME NEW k, Begin(c, k), UNCHANGED run PROVE RequestMove(c, q)
    BY <2>1, <2>3 DEF Begin, At, work
  <2>4. CASE StartByHand(c)
    BY <2>1, <2>4 DEF StartByHand, At, work
  <2> QED
    BY <1>4, <2>2, <2>3, <2>4 DEF Ask, BeginPullRequest, BeginDecision, BeginApprove,
       BeginReject, BeginReturn
<1>5. CASE OpenPullRequest(c) \/ PushFails(c) \/ Returned(c)
  <2>1. /\ \E k : Go(c, k) /\ loop' = loop /\ UNCHANGED <<held, object>>
        /\ client[c].at \notin {"sweep", "verifying"}
    BY <1>5 DEF OpenPullRequest, PushFails, Returned, Keeping, At, run, work
  <2> QED
    BY <1>1, <2>1
<1>6. CASE Register(c) \/ RegisterFails(c)
  <2>1. PICK r, new, k :
          /\ r = created + 1 /\ new = [Blank EXCEPT !.status = "queued"]
          /\ (k.at = "sweep" /\ k.run = r) \/ faults' # faults
          /\ client[c].at = "register" /\ Hold(r, Thread, new) /\ Go(c, k) /\ loop' = loop
    <3>1. CASE Register(c)
      BY <3>1 DEF Register, At, work, Put
    <3>2. CASE RegisterFails(c)
      <4>1. faults' # faults
        BY <1>0, <3>2, HealingAssumption DEF RegisterFails, DataOK
      <4> QED
        BY <3>2, <4>1 DEF RegisterFails, At, work
    <3> QED
      BY <1>6, <3>1, <3>2
  <2>2. r \in Runs
    BY <1>0, <2>1, NextNumber DEF At
  <2>3. held[r] = Nobody
    BY <1>0, <2>1, <2>2 DEF IInv, FreshInv, TypeOK
  <2>4. client'[c] = k /\ \A b \in Clients : b # c => client'[b] = client[b]
    BY <1>0, <2>1, Moved
  <2>5. q # r => Memory(q)' = Memory(q)
    <3>1. new \in Contents
      BY <2>1 DEF Blank, Contents, Files, Statuses, Active, PRs
    <3>2. \A p \in Runs : p # r => held'[p] = held[p] /\ object'[p] = object[p]
      BY <1>0, <2>1, <2>2, <3>1, HoldFacts, ObjectNames
    <3> QED
      BY <3>2 DEF Memory
  <2>6. q = r => Memory(q) = "absent"
    BY <2>3 DEF Memory
  <2>7. q # r => RequestMove(c, q)
    BY <2>1, <2>5, SameMoves
  <2>8. q = r => RequestMove(c, q)
    BY <2>1, <2>4, <2>6 DEF RequestMove, At
  <2> QED
    BY <2>7, <2>8
<1>7. CASE Sweep(c) \/ SweepFails(c)
  <2>1. /\ client[c].at = "sweep" /\ UNCHANGED <<held, object>>
        /\ \/ loop' = [loop EXCEPT ![client[c].run] = "queued"]
           \/ loop' = loop /\ faults' # faults
        /\ \E k : Go(c, k)
    <3>1. CASE Sweep(c)
      BY <3>1 DEF Sweep, CleanUp, At, run
    <3>2. CASE SweepFails(c)
      <4>1. faults' # faults
        BY <1>0, <3>2, HealingAssumption DEF SweepFails, DataOK
      <4> QED
        BY <3>2, <4>1 DEF SweepFails, CleanUp, At, run, work
    <3> QED
      BY <1>7, <3>1, <3>2
  <2>2. \A b \in Clients : b # c => client'[b] = client[b]
    BY <1>0, <2>1, Moved
  <2>3. Memory(q)' = Memory(q)
    BY <2>1 DEF Memory
  <2> QED
    BY <2>1, <2>2, <2>3 DEF RequestMove, At
<1>8. CASE RecordPullRequest(c)
  <2>1. PICK r, o, new, k :
          /\ r = client[c].run /\ o = client[c].own /\ new = [object[r][o] EXCEPT !.pr = "open"]
          /\ client[c].at = "record" /\ client[c].at \in Owning
          /\ Put(r, o, new) /\ loop' = loop /\ Go(c, k)
    BY <1>8 DEF RecordPullRequest, Keeping, At, work, Owning
  <2>2. r \in Runs /\ o \in Objects
    BY <1>0, <2>1, ClientFields
  <2>3. new \in Contents /\ new.status = object[r][o].status
    <3>1. "open" \in PRs
      BY DEF PRs
    <3> QED
      BY <1>0, <2>1, <2>2, <3>1, KnownType, ContentsHold
  <2> QED
    BY <2>1, <2>3, HoldMoves DEF Put
<1>9. CASE Take(c)
  <2>1. /\ client[c].at = "decide" /\ Load(c, client[c].run) /\ loop' = loop
        /\ UNCHANGED github /\ \E k : Go(c, k)
    BY <1>9 DEF Take, Keeping, At, work
  <2>2. client[c].run \in Runs /\ client[c].at \notin Owning \cup {"sweep"}
    BY <1>0, <2>1, ClientFields DEF Owning, Decisive
  <2> QED
    BY <1>2, <2>1, <2>2
\* What a decision puts into _RUNS as it is.
<1>10. ASSUME NEW k, Go(c, k), loop' = loop,
              client[c].at \in Decisive, client[c].at # "verifying",
              Hold(client[c].run, client[c].own, object[client[c].run][client[c].own])
       PROVE  RequestMove(c, q)
  <2>1. PICK r, o, new : /\ r = client[c].run /\ o = client[c].own /\ new = object[r][o]
                         /\ Hold(r, o, new) /\ client[c].at \in Owning
    BY <1>10 DEF Owning
  <2>2. new \in Contents
    BY <1>0, <2>1, ClientFields, KnownType
  <2> QED
    BY <1>10, <2>1, <2>2, HoldMoves
<1>11. CASE Approve(c)
  <2>1. /\ client[c].at \in Decisive /\ client[c].at # "verifying" /\ loop' = loop /\ Go(c, Idle)
        /\ Hold(client[c].run, client[c].own, object[client[c].run][client[c].own])
    BY <1>11 DEF Approve, Keeping, At, work, Decisive, Put
  <2> QED
    BY <1>10, <2>1
<1>12. CASE Reject(c)
  <2>1. PICK r, o : /\ r = client[c].run /\ o = client[c].own
                    /\ client[c].at \in Owning /\ loop' = loop /\ Go(c, Idle)
                    /\ Update(r, o, "cancelled") /\ "cancelled" \notin Active
    BY <1>12 DEF Reject, Keeping, At, work, Decisive, Owning, Active
  <2> QED
    BY <2>1, FilesHold, UpdateMoves
<1>13. CASE Rerun(c)
  <2>1. PICK r, o, k :
          /\ r = client[c].run /\ o = client[c].own /\ k = [client[c] EXCEPT !.at = "verifying"]
          /\ client[c].at = "rerun" /\ client[c].at \in Owning /\ client[c].at \in Decisive
          /\ loop' = loop
          /\ \/ Update(r, o, "verifying") /\ Go(c, k)
             \/ Hold(r, o, object[r][o]) /\ Go(c, Idle)
    BY <1>13 DEF Rerun, Keeping, At, work, Decisive, Owning
  <2>2. k.at = "verifying" /\ k.run = r
    <3>1. client[c] \in Owners
      BY <1>0, <2>1, ClientFields
    <3> QED
      BY <2>1, <3>1, StatesHold DEF Owning, Decisive
  <2>3. CASE Update(r, o, "verifying") /\ Go(c, k)
    BY <2>1, <2>2, <2>3, FilesHold, UpdateMoves
  <2>4. CASE Hold(r, o, object[r][o]) /\ Go(c, Idle)
    BY <1>10, <2>1, <2>4
  <2> QED
    BY <2>1, <2>3, <2>4
<1>14. CASE RerunEnds(c)
  <2>1. PICK r, o, new :
          /\ r = client[c].run /\ o = client[c].own
          /\ client[c].at \in Owning /\ loop' = loop /\ Go(c, Idle)
          /\ new \in {"succeeded", "awaiting_human"} /\ Update(r, o, new) /\ new \notin Active
    BY <1>14 DEF RerunEnds, Keeping, At, work, Decisive, Owning, Active
  <2> QED
    BY <2>1, FilesHold, UpdateMoves
<1>15. CASE RerunFails(c)
  <2>1. /\ client[c].at = "verifying" /\ loop' = loop /\ Go(c, Idle)
        /\ UNCHANGED <<held, object>> /\ faults' = faults + 1
    BY <1>15 DEF RerunFails, At, run, work
  <2>2. faults' # faults
    BY <1>0, <2>1, HealingAssumption DEF DataOK
  <2>3. Memory(q)' = Memory(q)
    BY <2>1 DEF Memory
  <2>4. \A b \in Clients : b # c => client'[b] = client[b]
    BY <1>0, <2>1, Moved
  <2> QED
    BY <2>1, <2>2, <2>3, <2>4 DEF RequestMove, At
<1>16. CASE BeginMerge(c)
  <2>1. /\ client[c].at \in Decisive /\ client[c].at # "verifying"
        /\ loop' = loop /\ \E k : Go(c, k)
        /\ Hold(client[c].run, client[c].own, object[client[c].run][client[c].own])
    BY <1>16 DEF BeginMerge, Keeping, At, work, Decisive
  <2> QED
    BY <1>10, <2>1
<1>17. CASE Merge(c)
  <2>1. PICK r, o, new :
          /\ r = client[c].run /\ o = client[c].own
          /\ new = [status |-> IF object[r][o].status = "cancelled" THEN "cancelled"
                               ELSE "succeeded", pr |-> "merged"]
          /\ client[c].at = "merging" /\ client[c].at \in Owning /\ loop' = loop /\ Go(c, Idle)
          /\ Put(r, o, new) \/ UNCHANGED run
    BY <1>17 DEF Merge, Keeping, At, work, Decisive, Owning
  <2>2. CASE Put(r, o, new)
    <3>1. /\ new \in Contents /\ new.status \notin Active
          /\ object[r][o].status = "cancelled" => new.status = "cancelled"
      BY <2>1 DEF Contents, Files, Statuses, Terminal, PRs, Active
    <3> QED
      BY <2>1, <2>2, <3>1, HoldMoves DEF Put
  <2>3. CASE UNCHANGED run
    BY <1>1, <2>1, <2>3 DEF run
  <2> QED
    BY <2>1, <2>2, <2>3
<1> QED
  BY <1>3, <1>4, <1>5, <1>6, <1>7, <1>8, <1>9, <1>11, <1>12, <1>13, <1>14, <1>15, <1>16, <1>17
  DEF Serve

\* CancelStands: only a copy of the file takes the place of a cancellation, because a
\* thread at work and a merge leave it, and a run registered anew was not there.
THEOREM Cancelled == Spec => CancelStands
<1> DEFINE Stands == \A r \in Runs : Memory(r) = "cancelled" /\ Memory(r)' # "cancelled" =>
                       (Adopted(r) /\ held[r] # Thread) \/ crashes' # crashes
<1>1. ASSUME IInv, [Next]_vars PROVE Stands
  <2> SUFFICES ASSUME NEW r \in Runs, Memory(r) = "cancelled",
                      ~(Adopted(r) /\ held[r] # Thread), crashes' = crashes
               PROVE  Memory(r)' = "cancelled"
    OBVIOUS
  <2>1. ASSUME NEW c \in Clients, StartIfIdle(c) \/ Ask(c) \/ Serve(c)
        PROVE  Memory(r)' = "cancelled"
    BY <1>1, <2>1, RequestMoves DEF RequestMove, Adopted, Remains
  <2>2. ASSUME NEW q \in Runs, RunLoop(q) PROVE Memory(r)' = "cancelled"
    BY <1>1, <2>2, LoopMoves DEF LoopMove, RunMove
  <2>3. ASSUME NEW q \in Runs, Cancel(q) PROVE Memory(r)' = "cancelled"
    BY <2>3 DEF Cancel, run, Memory
  <2>4. CASE Restart
    BY <1>1, <2>4, HealingAssumption DEF Restart, IInv, TypeOK, DataOK
  <2>5. CASE UNCHANGED vars
    BY <2>5 DEF vars, run, Memory
  <2> QED
    BY <1>1, <2>1, <2>2, <2>3, <2>4, <2>5 DEF Next
<1>2. IInv /\ [Next]_vars => [Stands]_vars
  BY <1>1
<1> HIDE DEF Stands
<1>3. Spec => [][Stands]_vars
  BY <1>2, Invariant, PTL DEF Spec
<1> QED
  BY <1>3 DEF CancelStands, Stands

\* A request that holds no run at work leaves nobody behind.
LEMMA RequestDrives ==
  ASSUME IInv, NEW c \in Clients, NEW q \in Runs, RequestMove(c, q), faults' = faults,
         Undriven(q)'
  PROVE  Undriven(q)
<1>0. TypeOK /\ DataOK
  BY DEF IInv, TypeOK
<1>1. /\ Memory(q)' \in Active /\ loop'[q] \in {"none", "end", "over"}
      /\ \A b \in Clients : client'[b].at \in {"sweep", "verifying"} => client'[b].run # q
  BY DEF Undriven, Active
<1>2. Memory(q) \in Active
  BY <1>1 DEF RequestMove
<1>3. client[c].at \in {"sweep", "verifying"} => client[c].run # q
  <2>1. CASE At(c, "verifying")
    BY <1>1, <2>1 DEF RequestMove, At
  <2>2. CASE At(c, "sweep") /\ client[c].run = q
    BY <1>0, <1>1, <2>2 DEF RequestMove, DataOK
  <2> QED
    BY <2>1, <2>2 DEF At
<1>4. loop'[q] = loop[q] \/ loop'[q] = "queued"
  BY <1>0 DEF RequestMove, DataOK
<1> QED
  BY <1>1, <1>2, <1>3, <1>4 DEF RequestMove, Undriven

\* DrivenUnlessAdopted: a thread ends with a status that says so, and a request that
\* makes a run active holds it until it ends or raises.
THEOREM Driven == Spec => DrivenUnlessAdopted
<1> DEFINE Drives == \A r \in Runs : ~Undriven(r) /\ Undriven(r)' =>
                                       Adopted(r) \/ faults' # faults
<1>1. ASSUME IInv, [Next]_vars PROVE Drives
  <2> SUFFICES ASSUME NEW r \in Runs, Undriven(r)', ~Adopted(r), faults' = faults
               PROVE  Undriven(r)
    OBVIOUS
  <2>1. /\ Memory(r)' \in Active /\ loop'[r] \in {"none", "end", "over"}
        /\ \A b \in Clients : client'[b].at \in {"sweep", "verifying"} => client'[b].run # r
    BY DEF Undriven, Active
  <2>2. ASSUME NEW c \in Clients, StartIfIdle(c) \/ Ask(c) \/ Serve(c) PROVE Undriven(r)
    <3>1. Remains(r)
      BY DEF Adopted, Remains
    <3> QED
      BY <1>1, <2>2, <3>1, RequestMoves, RequestDrives
  <2>3. ASSUME NEW q \in Runs, RunLoop(q) PROVE Undriven(r)
    <3>1. LoopMove(q)
      BY <1>1, <2>3, LoopMoves
    <3>2. CASE q = r
      BY <2>1, <3>1, <3>2 DEF LoopMove, Undriven
    <3>3. CASE q # r
      BY <2>1, <3>1, <3>3 DEF LoopMove, RunMove, Undriven
    <3> QED
      BY <3>2, <3>3
  <2>4. ASSUME NEW q \in Runs, Cancel(q) PROVE Undriven(r)
    BY <2>1, <2>4 DEF Cancel, run, work, Undriven, Memory
  <2>5. CASE Restart
    <3>1. Memory(r)' = "absent"
      BY <2>5 DEF Restart, Memory
    <3> QED
      BY <2>1, <3>1 DEF Active
  <2>6. CASE UNCHANGED vars
    BY <2>1, <2>6 DEF vars, run, work, Undriven, Memory
  <2> QED
    BY <1>1, <2>2, <2>3, <2>4, <2>5, <2>6 DEF Next
<1>2. IInv /\ [Next]_vars => [Drives]_vars
  BY <1>1
<1> HIDE DEF Drives
<1>3. Spec => [][Drives]_vars
  BY <1>2, Invariant, PTL DEF Spec
<1> QED
  BY <1>3 DEF DrivenUnlessAdopted, Drives

\* SweepIsCareful: what is cleared away was past and old when the files were read, and
\* what is past stays so.
THEOREM Careful == Spec => SweepIsCareful
<1> DEFINE Cleared(r) == r \in trees \ trees' \/ (branch'[r] = "gone" /\ branch[r] # "gone")
           Spares == \A r \in Runs : Cleared(r) =>
             /\ ~Working(r)
             /\ created - r >= Keep
             /\ branch'[r] = "gone" /\ branch[r] # "gone" =>
                  \E c \in Clients : At(c, "sweep") /\ r \notin client[c].open
<1>1. ASSUME IInv, [Next]_vars PROVE Spares
  <2>0. TypeOK /\ DataOK
    BY <1>1 DEF IInv, TypeOK
  <2> SUFFICES ASSUME NEW r \in Runs, Cleared(r)
               PROVE  /\ ~Working(r)
                      /\ created - r >= Keep
                      /\ branch'[r] = "gone" /\ branch[r] # "gone" =>
                           \E c \in Clients : At(c, "sweep") /\ r \notin client[c].open
    OBVIOUS
  <2>1. ~UNCHANGED repository
    BY DEF repository
  <2>2. ASSUME NEW c \in Clients, Sweep(c) \/ SweepFails(c)
        PROVE  /\ ~Working(r)
               /\ created - r >= Keep
               /\ branch'[r] = "gone" /\ branch[r] # "gone" =>
                    \E b \in Clients : At(b, "sweep") /\ r \notin client[b].open
    <3>1. /\ At(c, "sweep") /\ trees' = trees \ client[c].stale
          /\ branch'[r] = IF r \in Unwanted(c) /\ branch[r] = "there" THEN "gone" ELSE branch[r]
      BY <2>2 DEF Sweep, SweepFails, CleanUp
    <3>2. r \in client[c].stale
      BY <3>1 DEF Unwanted
    <3>3. Past(r) /\ created - r >= Keep
      BY <1>1, <3>1, <3>2 DEF IInv, SweepInv
    <3>4. branch'[r] = "gone" /\ branch[r] # "gone" => r \notin client[c].open
      BY <3>1 DEF Unwanted
    <3> QED
      BY <3>1, <3>3, <3>4 DEF Past
  <2>3. ASSUME NEW c \in Clients, StartIfIdle(c) \/ Ask(c) \/ Serve(c), ~Sweep(c),
               ~SweepFails(c)
        PROVE  FALSE
    <3>1. UNCHANGED repository
      BY <2>3 DEF StartIfIdle, Ask, StartByHand, BeginPullRequest, BeginDecision, BeginApprove,
         BeginReject, BeginReturn, BeginPush, Begin, Serve, Register, RegisterFails,
         OpenPullRequest, PushFails, RecordPullRequest, Take, Approve, Reject, Returned, Rerun,
         RerunEnds, RerunFails, BeginMerge, Merge, Keeping
    <3> QED
      BY <2>1, <3>1
  <2>4. ASSUME NEW q \in Runs, RunLoop(q) PROVE FALSE
    BY <1>1, <2>4, LoopMoves DEF LoopMove
  <2>5. ASSUME NEW q \in Runs, Cancel(q) PROVE FALSE
    BY <2>1, <2>5 DEF Cancel
  <2>6. ASSUME Restart PROVE FALSE
    BY <2>0, <2>6 DEF Restart, DataOK
  <2>7. ASSUME UNCHANGED vars PROVE FALSE
    BY <2>1, <2>7 DEF vars
  <2> QED
    BY <1>1, <2>2, <2>3, <2>4, <2>5, <2>6, <2>7 DEF Next
<1>2. IInv /\ [Next]_vars => [Spares]_vars
  BY <1>1
<1> HIDE DEF Spares
<1>3. Spec => [][Spares]_vars
  BY <1>2, Invariant, PTL DEF Spec
<1> QED
  BY <1>3 DEF SweepIsCareful, Spares
=============================================================================
