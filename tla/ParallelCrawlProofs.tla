------------------------ MODULE ParallelCrawlProofs ------------------------
(***************************************************************************)
(* ParallelCrawl for every site, every number of threads, every depth and  *)
(* every page limit: the type invariant, the page budget, that no page is  *)
(* requested twice, that the last checkpoint misses no page, and that the  *)
(* threads together are the traversal of the module Traversal.             *)
(***************************************************************************)
EXTENDS ParallelCrawl, FiniteSetTheorems, SequenceTheorems, TLAPS

\* What a busy worker's reservation guarantees: it was counted, its address is
\* marked, and its index is one nobody else holds or has used.
Reservations ==
  /\ \A w \in Busy : /\ task[w] \in Tasks
                     /\ task[w].url \in visited
                     /\ index[w] \in 1..dispatched
  /\ \A i \in DOMAIN results : results[i].url \in visited

\* The inductive invariant.
IInv == TypeOK /\ PageBudget /\ NoPageTwice /\ Reservations

\* A page's links, one level deeper, are tasks.
LEMMA NextUrlsType ==
  ASSUME NEW t \in Tasks
  PROVE  NextUrls(t) \in Seq(Tasks)
<1>1. CASE t.depth + 1 > Depth
  BY <1>1 DEF NextUrls
<1>2. CASE ~(t.depth + 1 > Depth)
  <2>1. Links[t.url] \in Seq(Urls)
    BY SiteAssumption DEF Tasks
  <2>2. DOMAIN Links[t.url] = 1..Len(Links[t.url]) /\ Len(Links[t.url]) \in Nat
    BY <2>1
  <2>3. t.depth + 1 \in 0..Depth
    BY <1>2, SiteAssumption DEF Tasks
  <2>4. \A i \in 1..Len(Links[t.url]) :
          [url |-> Links[t.url][i], depth |-> t.depth + 1] \in Tasks
    BY <2>1, <2>2, <2>3 DEF Tasks
  <2>5. NextUrls(t) = [i \in 1..Len(Links[t.url]) |->
                         [url |-> Links[t.url][i], depth |-> t.depth + 1]]
    BY <1>2, <2>2 DEF NextUrls
  <2> QED
    BY <2>2, <2>4, <2>5, IsASeq
<1> QED
  BY <1>1, <1>2

LEMMA InitIInv == Init => IInv
<1> SUFFICES ASSUME Init PROVE IInv
  OBVIOUS
<1> USE DEF Init
<1>1. Start \in Tasks
  BY SiteAssumption DEF Start, Tasks
<1>2. Busy = {}
  BY DEF Busy
<1>3. DOMAIN results = {}
  OBVIOUS
<1>4. IsFiniteSet({}) /\ Cardinality({}) = 0
  BY FS_EmptySet
<1>5. TypeOK
  <2>1. frontier \in Seq(Tasks)
    BY <1>1
  <2>2. IsFiniteSet(DOMAIN results) /\ results \in [DOMAIN results -> Tasks]
    BY <1>3, <1>4
  <2>3. /\ DOMAIN results \subseteq 1..dispatched
        /\ snapshot \in [Workers -> SUBSET (1..dispatched)]
        /\ index \in [Workers -> 0..dispatched]
    BY <1>3
  <2> QED
    BY <2>1, <2>2, <2>3 DEF TypeOK, Labels
<1>6. PageBudget
  BY <1>2, <1>3, <1>4, SiteAssumption DEF PageBudget, Count
<1>7. NoPageTwice /\ Reservations
  BY <1>2, <1>3 DEF NoPageTwice, Reservations
<1> QED
  BY <1>5, <1>6, <1>7 DEF IInv

\* A step that reserves nothing and obtains nothing keeps the budget and the
\* reservations; it may free a worker.
LEMMA QuietStep ==
  ASSUME IInv, TypeOK',
         UNCHANGED <<visited, results, inFlight, dispatched, index, task>>,
         Busy' \subseteq Busy
  PROVE  IInv'
<1>1. IsFiniteSet(Busy)
  BY WorkersAssumption, FS_Subset DEF Busy
<1>2. Cardinality(Busy') <= Cardinality(Busy) /\ Cardinality(Busy') \in Nat
  BY <1>1, FS_Subset, FS_CardinalityType
<1>3. PageBudget'
  BY <1>1, <1>2, FS_CardinalityType DEF IInv, PageBudget, Count, TypeOK
<1>4. NoPageTwice'
  BY DEF IInv, NoPageTwice
<1>5. Reservations'
  BY DEF IInv, Reservations
<1> QED
  BY <1>3, <1>4, <1>5 DEF IInv

\* Reserving a page.
LEMMA ReserveIInv ==
  ASSUME IInv, NEW w \in Workers, Reserve(w)
  PROVE  IInv'
<1> USE DEF IInv
<1>1. PICK i \in DOMAIN frontier :
        /\ Admissible(frontier[i], visited)
        /\ frontier' = SubSeq(frontier, i + 1, Len(frontier))
        /\ visited' = visited \cup {frontier[i].url}
        /\ task' = [task EXCEPT ![w] = frontier[i]]
  BY DEF Reserve
<1>2. /\ pc[w] = "reserve" /\ pc' = [pc EXCEPT ![w] = "start"]
      /\ Count + inFlight < MaxPages
      /\ inFlight' = inFlight + 1
      /\ dispatched' = dispatched + 1
      /\ index' = [index EXCEPT ![w] = dispatched + 1]
      /\ UNCHANGED <<results, page, checkpoints, control>>
  BY DEF Reserve, Goto
<1>3. i \in 1..Len(frontier) /\ Len(frontier) \in Nat
  BY <1>1 DEF TypeOK
<1>4. frontier[i] \in Tasks
  BY <1>3, ElementOfSeq DEF TypeOK
<1>5. Busy' = Busy \cup {w} /\ w \notin Busy
  BY <1>2 DEF Busy, TypeOK
<1>6. TypeOK'
  <2>1. frontier' \in Seq(Tasks)
    BY <1>1, <1>3, SubSeqProperties DEF TypeOK
  <2>2. visited' \subseteq Urls
    BY <1>1, <1>4 DEF TypeOK, Tasks
  <2>3. task' \in [Workers -> Tasks \cup {NoTask}] /\ pc' \in [Workers -> Labels]
    BY <1>1, <1>2, <1>4 DEF TypeOK, Labels
  <2>4. /\ dispatched' \in Nat /\ inFlight' \in Nat
        /\ 1..dispatched \subseteq 1..dispatched'
        /\ index' \in [Workers -> 0..dispatched']
    BY <1>2 DEF TypeOK
  <2>5. snapshot' \in [Workers -> SUBSET (1..dispatched')] /\ saved' \subseteq 1..dispatched'
    BY <1>2, <2>4 DEF TypeOK, checkpoints
  <2>6. /\ IsFiniteSet(DOMAIN results)'
        /\ (results \in [DOMAIN results -> Tasks])'
        /\ (DOMAIN results \subseteq 1..dispatched)'
    BY <1>2, <2>4 DEF TypeOK
  <2> QED
    BY <1>2, <2>1, <2>2, <2>3, <2>4, <2>5, <2>6 DEF TypeOK, checkpoints, control
<1>7. PageBudget'
  <2>1. IsFiniteSet(Busy)
    BY WorkersAssumption, FS_Subset DEF Busy
  <2>2. Cardinality(Busy') = Cardinality(Busy) + 1
    BY <1>5, <2>1, FS_AddElement
  <2>3. Count' = Count /\ Count \in Nat /\ Cardinality(Busy) \in Nat
    BY <1>2, <2>1, FS_CardinalityType DEF Count, TypeOK
  <2> QED
    BY <1>2, <2>2, <2>3, SiteAssumption DEF PageBudget, TypeOK
<1>8. frontier[i].url \notin visited
  BY <1>1 DEF Admissible
<1>9. \A v \in Busy : /\ v # w
                     /\ task'[v] = task[v]
                     /\ index'[v] = index[v]
  BY <1>1, <1>2, <1>5 DEF TypeOK, Busy
<1>10. task'[w] = frontier[i] /\ index'[w] = dispatched + 1 /\ dispatched + 1 \notin 1..dispatched
  BY <1>1, <1>2 DEF TypeOK
<1>11. NoPageTwice'
  <2>1. (\A j, k \in DOMAIN results : results[j].url = results[k].url => j = k)'
    BY <1>2 DEF NoPageTwice
  <2>2. ASSUME NEW u \in Busy', NEW v \in Busy',
               task'[u].url = task'[v].url \/ index'[u] = index'[v]
        PROVE  u = v
    BY <1>5, <1>8, <1>9, <1>10, <2>2 DEF NoPageTwice, Reservations
  <2>3. ASSUME NEW v \in Busy'
        PROVE  /\ index'[v] \notin DOMAIN results'
               /\ \A k \in DOMAIN results' : results'[k].url # task'[v].url
    BY <1>2, <1>5, <1>8, <1>9, <1>10 DEF NoPageTwice, Reservations, TypeOK
  <2> QED
    BY <2>1, <2>2, <2>3 DEF NoPageTwice
<1>12. Reservations'
  <2>1. ASSUME NEW v \in Busy'
        PROVE  task'[v] \in Tasks /\ task'[v].url \in visited' /\ index'[v] \in 1..dispatched'
    BY <1>1, <1>2, <1>4, <1>5, <1>9, <1>10 DEF Reservations, TypeOK
  <2>2. \A k \in DOMAIN results' : results'[k].url \in visited'
    BY <1>1, <1>2 DEF Reservations
  <2> QED
    BY <2>1, <2>2 DEF Reservations
<1> QED
  BY <1>6, <1>7, <1>11, <1>12

\* Finishing a page: the reservation becomes a result or is given back.
LEMMA FinishIInv ==
  ASSUME IInv, NEW w \in Workers, FinishTask(w)
  PROVE  IInv'
<1> USE DEF IInv
<1>1. /\ pc[w] = "finish"
      /\ inFlight' = inFlight - 1
      /\ UNCHANGED <<visited, dispatched, local, checkpoints, control>>
  BY DEF FinishTask
<1>2. w \in Busy
  BY <1>1 DEF Busy
<1>3. IsFiniteSet(Busy) /\ Cardinality(Busy) \in Nat /\ Cardinality(Busy) >= 1
  <2>1. IsFiniteSet(Busy)
    BY WorkersAssumption, FS_Subset DEF Busy
  <2>2. Cardinality(Busy) # 0
    BY <1>2, <2>1, FS_EmptySet
  <2> QED
    BY <2>1, <2>2, FS_CardinalityType
<1>4. inFlight' \in Nat
  BY <1>1, <1>3 DEF PageBudget, TypeOK
<1>5. Count \in Nat
  BY FS_CardinalityType DEF Count, TypeOK
<1>6. ASSUME NEW label \in Labels, pc' = [pc EXCEPT ![w] = label],
             label \notin {"start", "crawl", "finish"}
      PROVE  Busy' = Busy \ {w} /\ Cardinality(Busy') = Cardinality(Busy) - 1
  <2>1. Busy' = Busy \ {w}
    BY <1>6 DEF Busy, TypeOK
  <2> QED
    BY <1>2, <1>3, <2>1, FS_RemoveElement
<1>7. CASE page[w] = "page" /\ Count < MaxPages
  <2>1. /\ results' = [k \in DOMAIN results \cup {index[w]} |->
                           IF k = index[w] THEN task[w] ELSE results[k]]
        /\ frontier' = frontier \o NextUrls(task[w])
        /\ pc' = [pc EXCEPT ![w] = "checkpoint"]
    BY <1>7 DEF FinishTask, Goto
  <2>2. Busy' = Busy \ {w} /\ Cardinality(Busy') = Cardinality(Busy) - 1
    BY <1>6, <2>1 DEF Labels
  <2>3. task[w] \in Tasks /\ index[w] \in 1..dispatched /\ index[w] \notin DOMAIN results
        /\ task[w].url \in visited
    BY <1>2 DEF Reservations, NoPageTwice
  <2>4. DOMAIN results' = DOMAIN results \cup {index[w]}
    BY <2>1
  <2>5. IsFiniteSet(DOMAIN results') /\ Cardinality(DOMAIN results') = Count + 1
    <3>1. IsFiniteSet(DOMAIN results)
      BY DEF TypeOK
    <3>2. /\ IsFiniteSet(DOMAIN results \cup {index[w]})
          /\ Cardinality(DOMAIN results \cup {index[w]}) = Cardinality(DOMAIN results) + 1
      BY <2>3, <3>1, FS_AddElement
    <3> QED
      BY <2>4, <3>2 DEF Count
  <2>6. TypeOK'
    <3>1. frontier' \in Seq(Tasks)
      BY <2>1, <2>3, NextUrlsType, ConcatProperties DEF TypeOK
    <3>2. results' \in [DOMAIN results' -> Tasks] /\ DOMAIN results' \subseteq 1..dispatched
      BY <2>1, <2>3, <2>4 DEF TypeOK
    <3>3. pc' \in [Workers -> Labels]
      BY <2>1 DEF TypeOK, Labels
    <3> QED
      BY <1>1, <1>4, <2>5, <3>1, <3>2, <3>3 DEF TypeOK, local, checkpoints, control
  <2>7. PageBudget'
    BY <1>1, <1>3, <1>5, <2>2, <2>5, SiteAssumption DEF PageBudget, Count, TypeOK
  <2>8. results'[index[w]] = task[w] /\ \A k \in DOMAIN results : results'[k] = results[k]
    BY <2>1, <2>3
  <2>9. index' = index /\ task' = task
    BY <1>1 DEF local
  <2>10. NoPageTwice'
    <3>1. ASSUME NEW j \in DOMAIN results', NEW k \in DOMAIN results',
                 results'[j].url = results'[k].url
          PROVE  j = k
      BY <1>2, <2>4, <2>8, <3>1 DEF NoPageTwice
    <3>2. ASSUME NEW u \in Busy', NEW v \in Busy',
                 task'[u].url = task'[v].url \/ index'[u] = index'[v]
          PROVE  u = v
      BY <2>2, <2>9, <3>2 DEF NoPageTwice
    <3>3. ASSUME NEW v \in Busy'
          PROVE  /\ index'[v] \notin DOMAIN results'
                 /\ \A k \in DOMAIN results' : results'[k].url # task'[v].url
      BY <1>2, <2>2, <2>4, <2>8, <2>9 DEF NoPageTwice
    <3> QED
      BY <3>1, <3>2, <3>3 DEF NoPageTwice
  <2>11. Reservations'
    BY <1>1, <2>2, <2>3, <2>4, <2>8, <2>9 DEF Reservations
  <2> QED
    BY <2>6, <2>7, <2>10, <2>11
<1>8. CASE ~(page[w] = "page" /\ Count < MaxPages)
  <2>1. PICK label \in {"except", "reserve"} : pc' = [pc EXCEPT ![w] = label]
    BY <1>8 DEF FinishTask, Goto
  <2>2. UNCHANGED <<results, frontier>>
    BY <1>8 DEF FinishTask
  <2>3. Busy' = Busy \ {w} /\ Cardinality(Busy') = Cardinality(Busy) - 1
    BY <1>6, <2>1 DEF Labels
  <2>4. TypeOK'
    BY <1>1, <1>4, <2>1, <2>2 DEF TypeOK, Labels, local, checkpoints, control
  <2>5. PageBudget'
    BY <1>1, <1>3, <1>5, <2>2, <2>3, SiteAssumption DEF PageBudget, Count, TypeOK
  <2>6. NoPageTwice' /\ Reservations'
    BY <1>1, <2>2, <2>3 DEF NoPageTwice, Reservations, local
  <2> QED
    BY <2>4, <2>5, <2>6
<1> QED
  BY <1>7, <1>8

\* Every other step of a worker is quiet.
LEMMA WorkerIInv ==
  ASSUME IInv, NEW w \in Workers, Step(w)
  PROVE  IInv'
<1> USE DEF IInv
<1>1. CASE OpenBrowser(w)
  <2>1. TypeOK'
    BY <1>1 DEF OpenBrowser, Goto, TypeOK, Labels, shared, local, checkpoints, control
  <2>2. Busy' \subseteq Busy
    BY <1>1 DEF OpenBrowser, Goto, TypeOK, Busy
  <2> QED
    BY <1>1, <2>1, <2>2, QuietStep DEF OpenBrowser, shared, local
<1>2. CASE Reserve(w)
  BY <1>2, ReserveIInv
<1>3. CASE DrainAndWait(w)
  <2>1. TypeOK'
    BY <1>3 DEF DrainAndWait, TypeOK, local, checkpoints, control
  <2>2. Busy' \subseteq Busy
    BY <1>3 DEF DrainAndWait, Busy
  <2> QED
    BY <1>3, <2>1, <2>2, QuietStep DEF DrainAndWait, local
<1>4. CASE NoMoreWork(w)
  <2>1. frontier' \in Seq(Tasks)
    <3>1. frontier' = frontier \/ frontier' = <<>>
      BY <1>4 DEF NoMoreWork
    <3>2. <<>> \in Seq(Tasks)
      BY EmptySeq
    <3> QED
      BY <3>1, <3>2 DEF TypeOK
  <2>2. TypeOK'
    BY <1>4, <2>1 DEF NoMoreWork, Goto, TypeOK, Labels, local, checkpoints, control
  <2>3. Busy' \subseteq Busy
    BY <1>4 DEF NoMoreWork, Goto, TypeOK, Busy
  <2> QED
    BY <1>4, <2>2, <2>3, QuietStep DEF NoMoreWork, local
<1>5. CASE StartPage(w)
  <2>1. TypeOK'
    BY <1>5 DEF StartPage, Goto, TypeOK, Labels, shared, local, checkpoints, control
  <2>2. Busy' \subseteq Busy
    BY <1>5 DEF StartPage, Goto, TypeOK, Busy
  <2> QED
    BY <1>5, <2>1, <2>2, QuietStep DEF StartPage, shared, local
<1>6. CASE CrawlPage(w)
  <2>1. TypeOK'
    BY <1>6 DEF CrawlPage, Goto, TypeOK, Labels, shared, checkpoints, control
  <2>2. Busy' \subseteq Busy
    BY <1>6 DEF CrawlPage, Goto, TypeOK, Busy
  <2> QED
    BY <1>6, <2>1, <2>2, QuietStep DEF CrawlPage, shared
<1>7. CASE FinishTask(w)
  BY <1>7, FinishIInv
<1>8. CASE TakeSnapshot(w)
  <2>1. snapshot' \in [Workers -> SUBSET (1..dispatched')]
    BY <1>8 DEF TakeSnapshot, TypeOK, shared
  <2>2. TypeOK'
    BY <1>8, <2>1 DEF TakeSnapshot, Goto, TypeOK, Labels, shared, local, control
  <2>3. Busy' \subseteq Busy
    BY <1>8 DEF TakeSnapshot, Goto, TypeOK, Busy
  <2> QED
    BY <1>8, <2>2, <2>3, QuietStep DEF TakeSnapshot, shared, local
<1>9. CASE WriteCheckpoint(w)
  <2>1. saved' \subseteq 1..dispatched'
    BY <1>9 DEF WriteCheckpoint, TypeOK, shared
  <2>2. pc' \in [Workers -> Labels] /\ Busy' \subseteq Busy
    BY <1>9 DEF WriteCheckpoint, Goto, TypeOK, Labels, Busy
  <2>3. TypeOK'
    BY <1>9, <2>1, <2>2 DEF WriteCheckpoint, TypeOK, shared, local, control
  <2> QED
    BY <1>9, <2>2, <2>3, QuietStep DEF WriteCheckpoint, shared, local
<1>10. CASE CloseBrowser(w)
  <2>1. TypeOK'
    BY <1>10 DEF CloseBrowser, Goto, TypeOK, Labels, shared, local, checkpoints, control
  <2>2. Busy' \subseteq Busy
    BY <1>10 DEF CloseBrowser, Goto, TypeOK, Busy
  <2> QED
    BY <1>10, <2>1, <2>2, QuietStep DEF CloseBrowser, shared, local
<1>11. CASE RecordError(w)
  <2>1. TypeOK'
    BY <1>11 DEF RecordError, Goto, TypeOK, Labels, shared, local, checkpoints
  <2>2. Busy' \subseteq Busy
    BY <1>11 DEF RecordError, Goto, TypeOK, Busy
  <2> QED
    BY <1>11, <2>1, <2>2, QuietStep DEF RecordError, shared, local
<1>12. CASE HaltOthers(w)
  <2>1. TypeOK'
    BY <1>12 DEF HaltOthers, Goto, TypeOK, Labels, shared, local, checkpoints
  <2>2. Busy' \subseteq Busy
    BY <1>12 DEF HaltOthers, Goto, TypeOK, Busy
  <2> QED
    BY <1>12, <2>1, <2>2, QuietStep DEF HaltOthers, shared, local
<1> QED
  BY <1>1, <1>2, <1>3, <1>4, <1>5, <1>6, <1>7, <1>8, <1>9, <1>10, <1>11, <1>12 DEF Step

\* IInv is inductive.
LEMMA NextIInv ==
  ASSUME IInv, [Next]_vars
  PROVE  IInv'
<1>1. CASE \E w \in Workers : Step(w)
  BY <1>1, WorkerIInv
<1>2. CASE AskStop
  <2>1. TypeOK' /\ Busy' = Busy
    BY <1>2 DEF IInv, AskStop, TypeOK, Busy, shared, local, checkpoints
  <2> QED
    BY <1>2, <2>1, QuietStep DEF AskStop, shared, local
<1>3. CASE JoinWorkers
  <2>1. outcome' \in {"crawling", "completed", "cancelled", "raised"}
    BY <1>3 DEF JoinWorkers
  <2>2. TypeOK' /\ Busy' = Busy
    BY <1>3, <2>1 DEF IInv, JoinWorkers, TypeOK, Busy, shared, local, checkpoints
  <2> QED
    BY <1>3, <2>2, QuietStep DEF JoinWorkers, shared, local
<1>4. CASE UNCHANGED vars
  <2>1. TypeOK' /\ Busy' = Busy
    BY <1>4 DEF IInv, TypeOK, Busy, vars, shared, local, checkpoints, control
  <2> QED
    BY <1>4, <2>1, QuietStep DEF vars, shared, local
<1> QED
  BY <1>1, <1>2, <1>3, <1>4 DEF Next

THEOREM InductiveInvariant == Spec => []IInv
  BY InitIInv, NextIInv, PTL DEF Spec

\* The variables of the model keep their types: in particular the counter
\* in_flight of crawl_site_parallel never goes below zero, although an
\* exception between reserve_task and the try block never gives a slot back.
THEOREM TypeCorrect == Spec => []TypeOK
  BY InductiveInvariant, PTL DEF IInv

\* reserve_task never lets pages obtained and pages in flight exceed
\* --max-pages, for any number of workers and however they interleave.
THEOREM BudgetKept == Spec => []PageBudget
  BY InductiveInvariant, PTL DEF IInv

\* No address is requested twice and no result is overwritten.
THEOREM EachPageOnce == Spec => []NoPageTwice
  BY InductiveInvariant, PTL DEF IInv
-----------------------------------------------------------------------------
(* The checkpoints.                                                        *)

\* Somebody has raised, or is about to say so.
Failing == errors # {} \/ \E w \in Workers : pc[w] \in {"except", "halt"}

\* What an exception and the join leave behind.
EndInv ==
  /\ \A w \in Workers : pc[w] = "halt" => w \in errors
  /\ outcome # "crawling" => \A w \in Workers : pc[w] = "done"
  /\ outcome \in {"completed", "cancelled"} => errors = {}

\* checkpoint_lock is held by the worker that writes, and by nobody else.
LockInv == \A w \in Workers : pc[w] = "write" <=> checkpointBy = w

\* Checkpoints only grow.
GrowInv ==
  /\ saved \subseteq DOMAIN results
  /\ \A w \in Workers : pc[w] = "write" =>
       saved \subseteq snapshot[w] /\ snapshot[w] \subseteq DOMAIN results

\* While nobody has raised, a page that is not in the last checkpoint is in the
\* one being written, or has a worker on the way to one.
SavedInv ==
  ~Failing =>
    \/ saved = DOMAIN results
    \/ \E w \in Workers : \/ pc[w] = "checkpoint"
                          \/ pc[w] = "write" /\ snapshot[w] = DOMAIN results

CheckpointInv == EndInv /\ LockInv /\ GrowInv /\ SavedInv

-----------------------------------------------------------------------------
(* The traversal.                                                          *)

Got == {results[i] : i \in DOMAIN results}

\* What Traversal calls known.
Found(t) ==
  \/ t = Start
  \/ \E p \in Got : LinksTo(p.url, t.url) /\ t.depth = p.depth + 1

Waiting(t) == \E i \in DOMAIN frontier : frontier[i] = t

\* The frontier holds known tasks only, and every known one that may still be
\* followed.
FrontierInv ==
  /\ \A i \in DOMAIN frontier : Found(frontier[i])
  /\ \A t \in Tasks : Found(t) /\ Admissible(t, visited) => Waiting(t)

\* Nothing is in flight and nothing is left to reserve.
Drained == inFlight = 0 /\ \A i \in DOMAIN frontier : ~Admissible(frontier[i], visited)

\* A worker that went home had a reason, and it lasts.
QuitInv ==
  \A w \in Workers : pc[w] \in {"close", "done"} =>
    ShouldStop \/ w \in errors \/ Count >= MaxPages \/ Drained

TraversalInv == FrontierInv /\ QuitInv
-----------------------------------------------------------------------------
(* The checkpoints, proved.                                                *)

LEMMA InitCheckpoint == Init => CheckpointInv
<1> SUFFICES ASSUME Init PROVE CheckpointInv
  OBVIOUS
<1>1. EndInv /\ LockInv
  BY WorkersAssumption DEF Init, EndInv, LockInv
<1>2. GrowInv /\ SavedInv
  BY DEF Init, GrowInv, SavedInv
<1> QED
  BY <1>1, <1>2 DEF CheckpointInv

\* A worker's step to a place that has nothing to do with checkpoints or errors.
LEMMA ElsewhereCheckpoint ==
  ASSUME TypeOK, CheckpointInv, NEW w \in Workers,
         pc[w] \notin {"checkpoint", "write", "except", "halt", "done"},
         NEW label \in Labels \ {"write", "halt"}, Goto(w, label),
         UNCHANGED <<results, checkpoints, errors, outcome>>
  PROVE  CheckpointInv'
<1> USE DEF CheckpointInv, Goto, TypeOK, checkpoints
<1>1. EndInv'
  BY DEF EndInv
<1>2. LockInv' /\ GrowInv'
  BY DEF LockInv, GrowInv
<1>3. ASSUME ~Failing' PROVE ~Failing
  BY <1>3 DEF Failing
<1>4. SavedInv'
  <2> SUFFICES ASSUME ~Failing', saved # DOMAIN results
               PROVE  \E v \in Workers : \/ pc'[v] = "checkpoint"
                                         \/ pc'[v] = "write" /\ snapshot[v] = DOMAIN results
    BY DEF SavedInv
  <2>1. PICK v \in Workers : \/ pc[v] = "checkpoint"
                             \/ pc[v] = "write" /\ snapshot[v] = DOMAIN results
    BY <1>3 DEF SavedInv
  <2> QED
    BY <2>1
<1> QED
  BY <1>1, <1>2, <1>4

\* A page obtained is on its way to a checkpoint.
LEMMA FinishCheckpoint ==
  ASSUME TypeOK, CheckpointInv, NEW w \in Workers, FinishTask(w)
  PROVE  CheckpointInv'
<1> USE DEF CheckpointInv
<1>1. CASE page[w] = "page" /\ Count < MaxPages
  <2>1. /\ pc[w] = "finish" /\ pc' = [pc EXCEPT ![w] = "checkpoint"]
        /\ UNCHANGED <<checkpoints, errors, outcome>>
    BY <1>1 DEF FinishTask, Goto, control
  <2>2. EndInv' /\ LockInv'
    BY <2>1 DEF EndInv, LockInv, TypeOK, checkpoints
  <2>4. DOMAIN results \subseteq DOMAIN results'
    BY <1>1 DEF FinishTask
  <2>5. GrowInv'
    BY <2>1, <2>4 DEF GrowInv, TypeOK, checkpoints
  <2>3. SavedInv'
    BY <2>1 DEF SavedInv, TypeOK
  <2> QED
    BY <2>2, <2>3, <2>5
<1>2. CASE ~(page[w] = "page" /\ Count < MaxPages)
  <2>1. PICK label \in {"except", "reserve"} : Goto(w, label)
    BY <1>2 DEF FinishTask
  <2>2. pc[w] = "finish" /\ UNCHANGED <<results, checkpoints, errors, outcome>>
    BY <1>2 DEF FinishTask, control
  <2> QED
    BY <2>1, <2>2, ElsewhereCheckpoint DEF Labels
<1> QED
  BY <1>1, <1>2

LEMMA SnapshotCheckpoint ==
  ASSUME TypeOK, CheckpointInv, NEW w \in Workers, TakeSnapshot(w)
  PROVE  CheckpointInv'
<1>1. /\ pc[w] = "checkpoint" /\ pc' = [pc EXCEPT ![w] = "write"]
      /\ checkpointBy = NoTask /\ checkpointBy' = w
      /\ snapshot' = [snapshot EXCEPT ![w] = DOMAIN results]
      /\ UNCHANGED <<results, saved, errors, outcome>>
  BY DEF TakeSnapshot, Goto, shared, control
<1>2. EndInv'
  BY <1>1 DEF CheckpointInv, EndInv, TypeOK
<1>3. LockInv'
  BY <1>1, WorkersAssumption DEF CheckpointInv, LockInv, TypeOK
<1>4. pc'[w] = "write" /\ snapshot'[w] = DOMAIN results'
  BY <1>1 DEF TypeOK
<1>5. GrowInv'
  BY <1>1 DEF CheckpointInv, GrowInv, TypeOK
<1> QED
  BY <1>2, <1>3, <1>4, <1>5 DEF CheckpointInv, SavedInv

\* Only one checkpoint is written at a time: what it left out is still to come.
LEMMA WriteCheckpointInv ==
  ASSUME TypeOK, CheckpointInv, NEW w \in Workers, WriteCheckpoint(w)
  PROVE  CheckpointInv'
<1>1. PICK label \in {"reserve", "except"} :
        /\ pc[w] = "write" /\ pc' = [pc EXCEPT ![w] = label]
        /\ checkpointBy' = NoTask
        /\ saved' = snapshot[w] \/ (label = "except" /\ saved' = saved)
        /\ UNCHANGED <<results, snapshot, errors, outcome>>
  BY DEF WriteCheckpoint, Goto, shared, control
<1>2. EndInv'
  BY <1>1 DEF CheckpointInv, EndInv, TypeOK
<1>3. LockInv'
  BY <1>1, WorkersAssumption DEF CheckpointInv, LockInv, TypeOK
<1>4. SavedInv'
  <2> SUFFICES ASSUME ~Failing', saved' # DOMAIN results'
               PROVE  \E v \in Workers : \/ pc'[v] = "checkpoint"
                                         \/ pc'[v] = "write" /\ snapshot'[v] = DOMAIN results'
    BY DEF SavedInv
  <2>1. label = "reserve" /\ saved' = snapshot[w]
    BY <1>1 DEF Failing, TypeOK
  <2>2. ~Failing
    BY <1>1, <2>1 DEF Failing, TypeOK
  <2>3. snapshot[w] # DOMAIN results
    BY <1>1, <2>1
  <2>4. checkpointBy = w
    BY <1>1 DEF CheckpointInv, LockInv
  <2>5. CASE saved = DOMAIN results
    BY <1>1, <2>3, <2>5 DEF CheckpointInv, GrowInv
  <2>6. CASE saved # DOMAIN results
    <3>1. PICK v \in Workers : \/ pc[v] = "checkpoint"
                               \/ pc[v] = "write" /\ snapshot[v] = DOMAIN results
      BY <2>2, <2>6 DEF CheckpointInv, SavedInv
    <3>2. v # w
      BY <1>1, <2>3, <3>1
    <3>3. pc[v] = "checkpoint" /\ pc'[v] = "checkpoint"
      BY <1>1, <2>4, <3>1, <3>2 DEF CheckpointInv, LockInv, TypeOK
    <3> QED
      BY <3>3
  <2> QED
    BY <2>5, <2>6
<1>5. GrowInv'
  <2>1. saved' \subseteq DOMAIN results'
    BY <1>1 DEF CheckpointInv, GrowInv
  <2>2. \A v \in Workers : pc'[v] # "write"
    BY <1>1 DEF CheckpointInv, LockInv, TypeOK
  <2> QED
    BY <2>1, <2>2 DEF GrowInv
<1> QED
  BY <1>2, <1>3, <1>4, <1>5 DEF CheckpointInv

\* Raising and dying: the worker is on record before it is gone.
LEMMA RaiseCheckpoint ==
  ASSUME TypeOK, CheckpointInv, NEW w \in Workers, RecordError(w) \/ HaltOthers(w)
  PROVE  CheckpointInv'
<1>1. /\ pc[w] \in {"except", "halt"}
      /\ pc' = [pc EXCEPT ![w] = IF pc[w] = "except" THEN "halt" ELSE "done"]
      /\ errors' = (IF pc[w] = "except" THEN errors \cup {w} ELSE errors)
      /\ UNCHANGED <<results, checkpoints, outcome>>
  BY DEF RecordError, HaltOthers, Goto, shared
<1>2. w \in errors'
  BY <1>1 DEF CheckpointInv, EndInv
<1>3. EndInv'
  BY <1>1, <1>2 DEF CheckpointInv, EndInv, TypeOK
<1>4. LockInv' /\ GrowInv'
  BY <1>1 DEF CheckpointInv, LockInv, GrowInv, TypeOK, checkpoints
<1>5. SavedInv'
  BY <1>2 DEF SavedInv, Failing
<1> QED
  BY <1>3, <1>4, <1>5 DEF CheckpointInv

LEMMA NextCheckpoint ==
  ASSUME IInv, CheckpointInv, [Next]_vars
  PROVE  CheckpointInv'
<1> USE DEF IInv
<1>1. ASSUME NEW w \in Workers, Step(w) PROVE CheckpointInv'
  <2>1. CASE FinishTask(w)
    BY <2>1, FinishCheckpoint
  <2>2. CASE TakeSnapshot(w)
    BY <2>2, SnapshotCheckpoint
  <2>3. CASE WriteCheckpoint(w)
    BY <2>3, WriteCheckpointInv
  <2>4. CASE RecordError(w) \/ HaltOthers(w)
    BY <2>4, RaiseCheckpoint
  <2>5. CASE DrainAndWait(w)
    BY <2>5 DEF DrainAndWait, CheckpointInv, EndInv, LockInv, GrowInv, SavedInv, Failing,
                checkpoints, control
  <2>6. CASE OpenBrowser(w) \/ Reserve(w) \/ NoMoreWork(w) \/ StartPage(w) \/ CrawlPage(w)
             \/ CloseBrowser(w)
    <3>1. \E label \in {"reserve", "start", "crawl", "finish", "close", "except", "done"} :
            Goto(w, label)
      BY <2>6 DEF OpenBrowser, Reserve, NoMoreWork, StartPage, CrawlPage, CloseBrowser
    <3>2. /\ pc[w] \in {"open", "reserve", "start", "crawl", "close"}
          /\ UNCHANGED <<results, checkpoints, errors, outcome>>
      BY <2>6 DEF OpenBrowser, Reserve, NoMoreWork, StartPage, CrawlPage, CloseBrowser, shared, control
    <3> QED
      BY <3>1, <3>2, ElsewhereCheckpoint DEF Labels
  <2> QED
    BY <1>1, <2>1, <2>2, <2>3, <2>4, <2>5, <2>6 DEF Step
<1>2. CASE AskStop
  BY <1>2 DEF AskStop, CheckpointInv, EndInv, LockInv, GrowInv, SavedInv, Failing, checkpoints, shared
<1>3. CASE JoinWorkers
  <2>1. EndInv'
    BY <1>3 DEF JoinWorkers, CheckpointInv, EndInv
  <2> QED
    BY <1>3, <2>1 DEF JoinWorkers, CheckpointInv, LockInv, GrowInv, SavedInv, Failing, checkpoints, shared
<1>4. CASE UNCHANGED vars
  BY <1>4 DEF vars, CheckpointInv, EndInv, LockInv, GrowInv, SavedInv, Failing, checkpoints, shared, control
<1> QED
  BY <1>1, <1>2, <1>3, <1>4 DEF Next

\* When crawl_site_parallel returns its pages, the checkpoint file holds them all:
\* no order in which workers copy results under one lock and write them under
\* another leaves an older or an incomplete checkpoint behind.
THEOREM LastCheckpointHoldsAll == Spec => []LastCheckpointComplete
<1>1. CheckpointInv => LastCheckpointComplete
  <2> SUFFICES ASSUME CheckpointInv, outcome \in {"completed", "cancelled"}
               PROVE  saved = DOMAIN results
    BY DEF LastCheckpointComplete
  <2>1. errors = {} /\ \A w \in Workers : pc[w] = "done"
    BY DEF CheckpointInv, EndInv
  <2> QED
    BY <2>1 DEF CheckpointInv, SavedInv, Failing
<1> QED
  BY InductiveInvariant, InitCheckpoint, NextCheckpoint, <1>1, PTL DEF Spec
-----------------------------------------------------------------------------
(* The traversal, proved.                                                  *)

\* The links _next_urls queues: those of the page, one level deeper, within the limit.
LEMMA NextUrlsElements ==
  ASSUME NEW p \in Tasks, NEW t \in Tasks
  PROVE  LinksTo(p.url, t.url) /\ t.depth = p.depth + 1
           <=> \E i \in DOMAIN NextUrls(p) : NextUrls(p)[i] = t
<1>1. CASE p.depth + 1 > Depth
  <2>1. NextUrls(p) = <<>>
    BY <1>1 DEF NextUrls
  <2>2. t.depth # p.depth + 1
    BY <1>1, SiteAssumption DEF Tasks
  <2> QED
    BY <2>1, <2>2
<1>2. CASE ~(p.depth + 1 > Depth)
  <2>1. NextUrls(p) = [i \in DOMAIN Links[p.url] |->
                         [url |-> Links[p.url][i], depth |-> p.depth + 1]]
    BY <1>2 DEF NextUrls
  <2>2. t = [url |-> t.url, depth |-> t.depth]
    BY DEF Tasks
  <2> QED
    BY <2>1, <2>2 DEF LinksTo
<1> QED
  BY <1>1, <1>2

LEMMA InitTraversal == Init => TraversalInv
<1> SUFFICES ASSUME Init PROVE TraversalInv
  OBVIOUS
<1>1. Got = {} /\ Len(frontier) = 1 /\ DOMAIN frontier = {1} /\ frontier[1] = Start
  BY DEF Init, Got
<1>2. FrontierInv
  BY <1>1 DEF FrontierInv, Found, Waiting
<1>3. QuitInv
  BY DEF Init, QuitInv
<1> QED
  BY <1>2, <1>3 DEF TraversalInv

\* A step that reserves nothing, finishes nothing and sends home only workers with
\* a reason; it may drop a frontier in which nothing is admissible.
LEMMA QuietTraversal ==
  ASSUME TraversalInv,
         UNCHANGED <<visited, results, inFlight>>,
         errors \subseteq errors', ShouldStop => ShouldStop',
         \/ frontier' = frontier
         \/ frontier' = <<>> /\ \A i \in DOMAIN frontier : ~Admissible(frontier[i], visited),
         \A w \in Workers : pc'[w] \in {"close", "done"} =>
           \/ pc[w] \in {"close", "done"}
           \/ ShouldStop \/ w \in errors \/ Count >= MaxPages \/ Drained
  PROVE  TraversalInv'
<1>1. Got' = Got /\ Count' = Count
  BY DEF Got, Count
<1>2. \A t : Found(t)' <=> Found(t)
  BY <1>1 DEF Found
<1>3. FrontierInv'
  BY <1>2 DEF TraversalInv, FrontierInv, Waiting
<1>4. Drained => Drained'
  BY DEF Drained
<1>5. QuitInv'
  BY <1>1, <1>4 DEF TraversalInv, QuitInv
<1> QED
  BY <1>3, <1>5 DEF TraversalInv

LEMMA ReserveTraversal ==
  ASSUME IInv, TraversalInv, NEW w \in Workers, Reserve(w)
  PROVE  TraversalInv'
<1> USE DEF IInv
<1>1. PICK i \in DOMAIN frontier :
        /\ Admissible(frontier[i], visited)
        /\ \A j \in 1..(i - 1) : ~Admissible(frontier[j], visited)
        /\ frontier' = SubSeq(frontier, i + 1, Len(frontier))
        /\ visited' = visited \cup {frontier[i].url}
  BY DEF Reserve
<1>2. pc' = [pc EXCEPT ![w] = "start"] /\ UNCHANGED <<results, control>>
  BY DEF Reserve, Goto
<1>3. /\ DOMAIN frontier = 1..Len(frontier) /\ Len(frontier) \in Nat
      /\ \A j \in DOMAIN frontier : frontier[j] \in Tasks
  BY DEF TypeOK
<1>4. /\ Len(frontier') = Len(frontier) - i
      /\ DOMAIN frontier' = 1..(Len(frontier) - i)
      /\ \A j \in 1..(Len(frontier) - i) : frontier'[j] = frontier[i + j]
  <2>1. /\ frontier' \in Seq(Tasks)
        /\ Len(frontier') = IF i + 1 <= Len(frontier) THEN Len(frontier) - (i + 1) + 1 ELSE 0
        /\ \A j \in 1..(Len(frontier) - (i + 1) + 1) : frontier'[j] = frontier[i + 1 + j - 1]
    BY <1>1, <1>3, SubSeqProperties
  <2>2. Len(frontier') = Len(frontier) - i
    BY <1>3, <2>1
  <2>3. DOMAIN frontier' = 1..Len(frontier')
    BY <2>1
  <2>4. \A j \in 1..(Len(frontier) - i) : i + 1 + j - 1 = i + j
    BY <1>3
  <2>5. Len(frontier) - (i + 1) + 1 = Len(frontier) - i
    BY <1>3
  <2> QED
    BY <2>1, <2>2, <2>3, <2>4, <2>5
<1>5. Got' = Got /\ Count' = Count /\ ShouldStop' = ShouldStop /\ errors' = errors
  BY <1>2 DEF Got, Count, ShouldStop, control
<1>6. \A t : Found(t)' <=> Found(t)
  BY <1>5 DEF Found
<1>7. \A j \in DOMAIN frontier' : Found(frontier[i + j])
  BY <1>3, <1>4 DEF TraversalInv, FrontierInv
<1>8. ASSUME NEW t \in Tasks, Found(t)', Admissible(t, visited')
      PROVE  Waiting(t)'
  <2>1. Admissible(t, visited) /\ t.url # frontier[i].url
    BY <1>1, <1>8 DEF Admissible
  <2>2. PICK k \in DOMAIN frontier : frontier[k] = t
    BY <1>6, <1>8, <2>1 DEF TraversalInv, FrontierInv, Waiting
  <2>3. k \notin 1..(i - 1) /\ k # i
    BY <1>1, <2>1, <2>2
  <2>4. k - i \in 1..(Len(frontier) - i) /\ i + (k - i) = k
    BY <1>3, <2>3
  <2> QED
    BY <1>4, <2>2, <2>4 DEF Waiting
<1>9. FrontierInv'
  BY <1>4, <1>6, <1>7, <1>8 DEF FrontierInv
<1>10. ~Drained
  BY <1>1 DEF Drained
<1>11. QuitInv'
  BY <1>2, <1>5, <1>10 DEF TraversalInv, QuitInv, TypeOK
<1> QED
  BY <1>9, <1>11 DEF TraversalInv

\* A page obtained brings its links into the frontier.
LEMMA FinishTraversal ==
  ASSUME IInv, IInv', TraversalInv, NEW w \in Workers, FinishTask(w)
  PROVE  TraversalInv'
<1> USE DEF IInv
<1>1. w \in Busy /\ pc[w] = "finish" /\ UNCHANGED <<visited, control>>
  BY DEF FinishTask, Busy
<1>2. task[w] \in Tasks /\ index[w] \notin DOMAIN results
  BY <1>1 DEF Reservations, NoPageTwice
<1>3. ~Drained
  <2>1. IsFiniteSet(Busy)
    BY WorkersAssumption, FS_Subset DEF Busy
  <2>2. Cardinality(Busy) # 0 /\ Cardinality(Busy) \in Nat
    BY <1>1, <2>1, FS_EmptySet, FS_CardinalityType
  <2> QED
    BY <2>2 DEF Drained, PageBudget, TypeOK
<1>4. DOMAIN results \subseteq DOMAIN results'
  BY DEF FinishTask
<1>5. Count' >= Count /\ Count \in Nat /\ Count' \in Nat
  BY <1>4, FS_Subset, FS_CardinalityType DEF Count, TypeOK
<1>6. QuitInv'
  <2>1. PICK label \in {"checkpoint", "except", "reserve"} : pc' = [pc EXCEPT ![w] = label]
    BY DEF FinishTask, Goto
  <2>2. ShouldStop' = ShouldStop /\ errors' = errors
    BY <1>1 DEF ShouldStop, control
  <2> QED
    BY <1>3, <1>5, <2>1, <2>2, SiteAssumption DEF TraversalInv, QuitInv, TypeOK
<1>7. FrontierInv'
  <2>1. CASE page[w] = "page" /\ Count < MaxPages
    <3>1. /\ results' = [k \in DOMAIN results \cup {index[w]} |->
                           IF k = index[w] THEN task[w] ELSE results[k]]
          /\ frontier' = frontier \o NextUrls(task[w])
      BY <2>1 DEF FinishTask
    <3>2. Got' = Got \cup {task[w]}
      BY <1>2, <3>1 DEF Got
    <3>3. \A t \in Tasks : Found(t)' <=>
            Found(t) \/ \E i \in DOMAIN NextUrls(task[w]) : NextUrls(task[w])[i] = t
      BY <1>2, <3>2, NextUrlsElements DEF Found
    <3> DEFINE f == frontier
               g == NextUrls(task[w])
    <3>4. f \in Seq(Tasks) /\ g \in Seq(Tasks)
      BY <1>2, NextUrlsType DEF TypeOK
    <3>5. /\ DOMAIN f = 1..Len(f) /\ Len(f) \in Nat
          /\ DOMAIN g = 1..Len(g) /\ Len(g) \in Nat
          /\ \A i \in DOMAIN f : f[i] \in Tasks
          /\ \A i \in DOMAIN g : g[i] \in Tasks
      BY <3>4
    <3>6. /\ DOMAIN (f \o g) = 1..(Len(f) + Len(g))
          /\ \A i \in 1..Len(f) : (f \o g)[i] = f[i]
          /\ \A i \in 1..Len(g) : (f \o g)[Len(f) + i] = g[i]
          /\ \A i \in 1..(Len(f) + Len(g)) :
               i <= Len(f) \/ (i - Len(f) \in 1..Len(g) /\ (f \o g)[i] = g[i - Len(f)])
      BY <3>4, <3>5, ConcatProperties
    <3> HIDE DEF f, g
    <3>7. ASSUME NEW i \in DOMAIN (f \o g), NEW t, t = (f \o g)[i] PROVE Found(t)'
      <4>1. CASE i <= Len(f)
        <5>1. t = f[i] /\ t \in Tasks /\ i \in DOMAIN f
          BY <3>5, <3>6, <3>7, <4>1
        <5>2. Found(t)
          BY <5>1 DEF f, TraversalInv, FrontierInv
        <5> QED
          BY <3>3, <5>1, <5>2
      <4>2. CASE ~(i <= Len(f))
        <5>1. i - Len(f) \in DOMAIN g /\ t = g[i - Len(f)]
          BY <3>5, <3>6, <3>7, <4>2
        <5>2. t \in Tasks
          BY <3>5, <5>1
        <5> QED
          BY <3>3, <5>1, <5>2 DEF g
      <4> QED
        BY <4>1, <4>2
    <3>8. ASSUME NEW t \in Tasks, Found(t)', Admissible(t, visited)
          PROVE  \E i \in DOMAIN (f \o g) : (f \o g)[i] = t
      <4>1. CASE Found(t)
        <5>1. PICK i \in DOMAIN f : f[i] = t
          BY <3>8, <4>1 DEF f, TraversalInv, FrontierInv, Waiting
        <5>2. i \in DOMAIN (f \o g) /\ (f \o g)[i] = t
          BY <3>5, <3>6, <5>1
        <5> QED
          BY <5>2
      <4>2. CASE ~Found(t)
        <5>1. PICK i \in DOMAIN g : g[i] = t
          BY <3>3, <3>8, <4>2 DEF g
        <5>2. Len(f) + i \in DOMAIN (f \o g) /\ (f \o g)[Len(f) + i] = t
          BY <3>5, <3>6, <5>1
        <5> QED
          BY <5>2
      <4> QED
        BY <4>1, <4>2
    <3>9. frontier' = f \o g /\ visited' = visited
      BY <1>1, <3>1 DEF f, g
    <3>10. ASSUME NEW i \in DOMAIN frontier' PROVE Found(frontier[i])'
      BY <3>7, <3>9
    <3>11. ASSUME NEW t \in Tasks, Found(t)', Admissible(t, visited)' PROVE Waiting(t)'
      BY <3>8, <3>9, <3>11 DEF Waiting, Admissible
    <3> QED
      BY <3>10, <3>11 DEF FrontierInv
  <2>2. CASE ~(page[w] = "page" /\ Count < MaxPages)
    <3>1. UNCHANGED <<results, frontier, visited>>
      BY <1>1, <2>2 DEF FinishTask
    <3> QED
      BY <3>1 DEF TraversalInv, FrontierInv, Found, Waiting, Got
  <2> QED
    BY <2>1, <2>2
<1> QED
  BY <1>6, <1>7 DEF TraversalInv

LEMMA NextTraversal ==
  ASSUME IInv, IInv', CheckpointInv, TraversalInv, [Next]_vars
  PROVE  TraversalInv'
<1>1. ASSUME NEW w \in Workers, Step(w) PROVE TraversalInv'
  <2>1. CASE Reserve(w)
    BY <2>1, ReserveTraversal
  <2>2. CASE FinishTask(w)
    BY <2>2, FinishTraversal
  <2>3. CASE DrainAndWait(w)
    BY <2>3, QuietTraversal DEF DrainAndWait, ShouldStop, control
  <2>4. CASE NoMoreWork(w)
    <3>1. /\ pc' = [pc EXCEPT ![w] = "close"]
          /\ UNCHANGED <<visited, results, inFlight, control>>
          /\ ShouldStop \/ Count >= MaxPages \/ Drained
      BY <2>4 DEF NoMoreWork, Goto, Drained
    <3>2. \/ frontier' = frontier
          \/ frontier' = <<>> /\ \A i \in DOMAIN frontier : ~Admissible(frontier[i], visited)
      BY <2>4 DEF NoMoreWork
    <3>3. errors' = errors /\ ShouldStop' = ShouldStop
      BY <3>1 DEF control, ShouldStop
    <3>4. \A v \in Workers : pc'[v] \in {"close", "done"} =>
            pc[v] \in {"close", "done"} \/ ShouldStop \/ Count >= MaxPages \/ Drained
      BY <3>1 DEF IInv, TypeOK
    <3> QED
      BY <3>1, <3>2, <3>3, <3>4, QuietTraversal
  <2>5. CASE OpenBrowser(w) \/ StartPage(w) \/ CrawlPage(w) \/ TakeSnapshot(w) \/ WriteCheckpoint(w)
             \/ CloseBrowser(w) \/ RecordError(w) \/ HaltOthers(w)
    <3>1. \E label : /\ pc' = [pc EXCEPT ![w] = label]
                     /\ label = "done" => pc[w] \in {"close", "halt"}
                     /\ label # "close"
      BY <2>5 DEF OpenBrowser, StartPage, CrawlPage, TakeSnapshot, WriteCheckpoint, CloseBrowser,
                  RecordError, HaltOthers, Goto
    <3>2. UNCHANGED shared /\ errors \subseteq errors' /\ (ShouldStop => ShouldStop')
      BY <2>5 DEF OpenBrowser, StartPage, CrawlPage, TakeSnapshot, WriteCheckpoint, CloseBrowser,
                  RecordError, HaltOthers, ShouldStop, control
    <3>3. \A v \in Workers : pc'[v] \in {"close", "done"} =>
            pc[v] \in {"close", "done"} \/ v \in errors
      BY <3>1 DEF IInv, TypeOK, CheckpointInv, EndInv
    <3> QED
      BY <3>2, <3>3, QuietTraversal DEF shared
  <2> QED
    BY <1>1, <2>1, <2>2, <2>3, <2>4, <2>5 DEF Step
<1>2. CASE AskStop \/ JoinWorkers \/ UNCHANGED vars
  <2>1. UNCHANGED <<shared, pc, errors>> /\ (ShouldStop => ShouldStop')
    BY <1>2 DEF AskStop, JoinWorkers, vars, control, ShouldStop
  <2> QED
    BY <2>1, QuietTraversal DEF shared
<1> QED
  BY <1>1, <1>2 DEF Next
-----------------------------------------------------------------------------
(* The refinement.                                                         *)

\* What Traversal calls open: the tasks of the busy workers.
Open == {task[w] : w \in Busy}

LEMMA InitSimulates == Init => Abstract!Init
<1> SUFFICES ASSUME Init PROVE Abstract!Init
  OBVIOUS
<1>1. Busy = {} /\ DOMAIN results = {}
  BY DEF Init, Busy
<1> QED
  BY <1>1 DEF Init, Abstract!Init

\* Traversal counts as ParallelCrawl does.
LEMMA AbstractCardinality == \A S : Abstract!Cardinality(S) = Cardinality(S)
  BY DEF Abstract!Cardinality, Cardinality

\* Tasks in flight and pages obtained are no more than workers and results.
LEMMA AbstractBudget ==
  ASSUME IInv
  PROVE  /\ Cardinality(Got) + Cardinality(Open) <= Count + inFlight
         /\ Cardinality(Got) = Count
         /\ Cardinality(Open) \in Nat /\ Count \in Nat
<1>1. IsFiniteSet(Busy) /\ IsFiniteSet(DOMAIN results)
  BY WorkersAssumption, FS_Subset DEF Busy, IInv, TypeOK
<1>2. Cardinality(Open) <= Cardinality(Busy) /\ Cardinality(Open) \in Nat
  <2> DEFINE f == [w \in Busy |-> task[w]]
  <2>1. f \in Surjection(Busy, Open)
    BY DEF Open, Surjection
  <2> QED
    BY <1>1, <2>1, FS_Surjection, FS_CardinalityType
<1>3. Cardinality(Got) = Count
  <2>1. results \in Surjection(DOMAIN results, Got)
    BY DEF Got, Surjection, IInv, TypeOK
  <2>2. results \in Injection(DOMAIN results, Got)
    BY <2>1 DEF Injection, IsInjective, Surjection, IInv, NoPageTwice
  <2> QED
    BY <1>1, <2>1, <2>2, FS_Surjection DEF Count
<1>4. Count \in Nat /\ Cardinality(Busy) \in Nat
  BY <1>1, FS_CardinalityType DEF Count
<1> QED
  BY <1>2, <1>3, <1>4 DEF IInv, PageBudget, TypeOK

\* A reservation is the taking of a known task within the budget.
LEMMA ReserveSimulates ==
  ASSUME IInv, CheckpointInv, TraversalInv, NEW w \in Workers, Reserve(w)
  PROVE  Abstract!Next
<1> USE DEF IInv
<1>1. PICK i \in DOMAIN frontier :
        /\ Admissible(frontier[i], visited)
        /\ visited' = visited \cup {frontier[i].url}
        /\ task' = [task EXCEPT ![w] = frontier[i]]
  BY DEF Reserve
<1>2. /\ pc[w] = "reserve" /\ pc' = [pc EXCEPT ![w] = "start"]
      /\ Count + inFlight < MaxPages
      /\ results' = results /\ outcome' = outcome
  BY DEF Reserve, Goto, control
<1>3. frontier[i] \in Tasks
  BY <1>1 DEF TypeOK
<1>4. outcome = "crawling"
  BY <1>2 DEF CheckpointInv, EndInv
<1>5. Busy' = Busy \cup {w} /\ w \notin Busy
  BY <1>2 DEF Busy, TypeOK
<1>6. Open' = Open \cup {frontier[i]} /\ Got' = Got
  BY <1>1, <1>2, <1>5 DEF Open, Got, Busy, TypeOK
<1>7. Cardinality(Got) + Cardinality(Open) < MaxPages
  BY <1>2, AbstractBudget, SiteAssumption DEF TypeOK
<1>8. Found(frontier[i])
  BY DEF TraversalInv, FrontierInv
<1>9. PICK t \in Tasks : t = frontier[i]
  BY <1>3
<1>10. Abstract!Known(t)
  BY <1>8, <1>9
  DEF Abstract!Known, Abstract!Start, Abstract!LinksTo, Found, Start, LinksTo, Got
<1>11. t.url \in Allowed \ visited
  BY <1>1, <1>9 DEF Admissible
<1>12. Abstract!Take(t)
  BY <1>1, <1>2, <1>4, <1>6, <1>7, <1>9, <1>10, <1>11, AbstractCardinality
  DEF Abstract!Take, Open, Got
<1> QED
  BY <1>12 DEF Abstract!Next, Abstract!Tasks, Tasks

\* A finished page was obtained or given up.
LEMMA FinishSimulates ==
  ASSUME IInv, NEW w \in Workers, FinishTask(w)
  PROVE  Abstract!Next
<1> USE DEF IInv
<1>1. w \in Busy /\ UNCHANGED <<visited, outcome, task>>
  BY DEF FinishTask, Busy, control, local
<1>2. task[w] \in Tasks /\ index[w] \notin DOMAIN results
  BY <1>1 DEF Reservations, NoPageTwice
<1>3. Busy' = Busy \ {w}
  <2>1. PICK label \in {"checkpoint", "except", "reserve"} : pc' = [pc EXCEPT ![w] = label]
    BY DEF FinishTask, Goto
  <2> QED
    BY <2>1 DEF Busy, TypeOK
<1>4. Open' = Open \ {task[w]} /\ task[w] \in Open
  BY <1>1, <1>3 DEF Open, NoPageTwice
<1>5. CASE page[w] = "page" /\ Count < MaxPages
  <2>1. results' = [k \in DOMAIN results \cup {index[w]} |->
                      IF k = index[w] THEN task[w] ELSE results[k]]
    BY <1>5 DEF FinishTask
  <2>2. Got' = Got \cup {task[w]}
    BY <1>2, <2>1 DEF Got
  <2>3. PICK t \in Tasks : t = task[w]
    BY <1>2
  <2>4. Abstract!Obtain(t)
    BY <1>1, <1>4, <2>2, <2>3 DEF Abstract!Obtain, Open, Got
  <2> QED
    BY <2>4 DEF Abstract!Next, Abstract!Tasks, Tasks
<1>6. CASE ~(page[w] = "page" /\ Count < MaxPages)
  <2>1. Got' = Got
    BY <1>6 DEF FinishTask, Got
  <2>2. PICK t \in Tasks : t = task[w]
    BY <1>2
  <2>3. Abstract!GiveUp(t)
    BY <1>1, <1>4, <2>1, <2>2 DEF Abstract!GiveUp, Open, Got
  <2> QED
    BY <2>3 DEF Abstract!Next, Abstract!Tasks, Tasks
<1> QED
  BY <1>5, <1>6

\* The join ends the traversal as what it was: "completed" only with the budget used
\* up or nothing left to follow.
LEMMA JoinSimulates ==
  ASSUME IInv, TraversalInv, JoinWorkers
  PROVE  Abstract!Next
<1> USE DEF IInv
<1>1. /\ outcome = "crawling" /\ \A w \in Workers : pc[w] = "done"
      /\ UNCHANGED <<visited, results, task, pc>>
  BY DEF JoinWorkers, shared, local
<1>2. Busy = {} /\ Busy' = {} /\ Open = {} /\ Open' = {} /\ Got' = Got
  BY <1>1 DEF Busy, Open, Got
<1>3. outcome' \in {"completed", "cancelled", "raised"}
  BY DEF JoinWorkers
<1>4. ASSUME outcome' = "completed"
      PROVE  Cardinality(Got) = MaxPages \/ Abstract!Exhausted
  <2>1. errors = {} /\ ~ShouldStop
    BY <1>4 DEF JoinWorkers
  <2>2. PICK w \in Workers : Count >= MaxPages \/ Drained
    BY <1>1, <2>1, WorkersAssumption DEF TraversalInv, QuitInv
  <2>3. CASE Count >= MaxPages
    BY <2>3, AbstractBudget, SiteAssumption DEF PageBudget, TypeOK
  <2>4. CASE Drained
    <3>1. ASSUME NEW t \in Tasks, Found(t), t.url \in Allowed
          PROVE  t.url \in visited
      <4>1. t.depth <= Depth
        BY SiteAssumption DEF Tasks
      <4>2. ~Admissible(t, visited)
        BY <2>4, <3>1 DEF Drained, TraversalInv, FrontierInv, Waiting
      <4> QED
        BY <3>1, <4>1, <4>2 DEF Admissible
    <3> QED
      BY <3>1 DEF Abstract!Exhausted, Abstract!Known, Abstract!Start, Abstract!LinksTo, Abstract!Tasks,
                  Found, Start, LinksTo, Tasks, Got
  <2> QED
    BY <2>2, <2>3, <2>4
<1>5. PICK how \in {"completed", "cancelled", "raised"} : how = outcome'
  BY <1>3
<1>6. Abstract!End(how)
  BY <1>5, <1>1, <1>2, <1>4, AbstractCardinality DEF Abstract!End, Open, Got
<1> QED
  BY <1>6 DEF Abstract!Next

\* Every other step is one the traversal does not see, but for a worker that raises
\* with a task in its hands: it gives it up.
LEMMA NextSimulates ==
  ASSUME IInv, CheckpointInv, TraversalInv, [Next]_vars
  PROVE  [Abstract!Next]_Abstract!vars
<1> USE DEF IInv
<1>1. ASSUME NEW w \in Workers, Step(w) PROVE [Abstract!Next]_Abstract!vars
  <2>1. CASE Reserve(w)
    BY <2>1, ReserveSimulates
  <2>2. CASE FinishTask(w)
    BY <2>2, FinishSimulates
  <2>3. CASE StartPage(w)
    <3>1. w \in Busy /\ UNCHANGED <<visited, results, outcome, task>>
      BY <2>3 DEF StartPage, Busy, shared, local, control
    <3>2. Got' = Got
      BY <3>1 DEF Got
    <3>3. CASE pc' = [pc EXCEPT ![w] = "crawl"]
      <4>1. Busy' = Busy
        BY <2>3, <3>3 DEF StartPage, Busy, TypeOK
      <4> QED
        BY <3>1, <3>2, <4>1 DEF Abstract!vars, Got
    <3>4. CASE pc' = [pc EXCEPT ![w] = "except"]
      <4>1. Busy' = Busy \ {w}
        BY <3>4 DEF Busy, TypeOK
      <4>2. task[w] \in Tasks /\ Open' = Open \ {task[w]} /\ task[w] \in Open
        BY <3>1, <4>1 DEF Open, NoPageTwice, Reservations
      <4>3. PICK t \in Tasks : t = task[w]
        BY <4>2
      <4>4. Abstract!GiveUp(t)
        BY <3>1, <3>2, <4>2, <4>3 DEF Abstract!GiveUp, Open, Got
      <4> QED
        BY <4>4 DEF Abstract!Next, Abstract!Tasks, Tasks
    <3> QED
      BY <2>3, <3>3, <3>4 DEF StartPage, Goto
  <2>4. CASE OpenBrowser(w) \/ DrainAndWait(w) \/ NoMoreWork(w) \/ CrawlPage(w) \/ TakeSnapshot(w)
             \/ WriteCheckpoint(w) \/ CloseBrowser(w) \/ RecordError(w) \/ HaltOthers(w)
    <3>1. UNCHANGED <<visited, results, task, outcome>>
      BY <2>4 DEF OpenBrowser, DrainAndWait, NoMoreWork, CrawlPage, TakeSnapshot, WriteCheckpoint,
                  CloseBrowser, RecordError, HaltOthers, shared, local, control
    <3>2. Busy' = Busy
      BY <2>4 DEF OpenBrowser, DrainAndWait, NoMoreWork, CrawlPage, TakeSnapshot, WriteCheckpoint,
                  CloseBrowser, RecordError, HaltOthers, Goto, Busy, TypeOK
    <3> QED
      BY <3>1, <3>2 DEF Abstract!vars
  <2> QED
    BY <1>1, <2>1, <2>2, <2>3, <2>4 DEF Step
<1>2. CASE JoinWorkers
  BY <1>2, JoinSimulates
<1>3. CASE AskStop \/ UNCHANGED vars
  <2>1. UNCHANGED <<visited, results, task, outcome, pc>>
    BY <1>3 DEF AskStop, vars, shared, local, control
  <2>2. Busy' = Busy
    BY <2>1 DEF Busy
  <2> QED
    BY <2>1, <2>2 DEF Abstract!vars
<1> QED
  BY <1>1, <1>2, <1>3 DEF Next

\* The crawl of any number of threads is a traversal of the site: every page
\* requested is the start or a link of a page obtained, within depth and budget,
\* and crawl_site_parallel only ends as completed when the budget is used up or no
\* admissible link is left, whichever threads wait, fail or finish together.
THEOREM CrawlIsTraversal == Spec => ImplementsTraversal
<1>1. Spec => [](IInv /\ CheckpointInv /\ TraversalInv)
  BY InductiveInvariant, InitCheckpoint, NextCheckpoint, InitTraversal, NextTraversal, PTL DEF Spec
<1> QED
  BY InitSimulates, NextSimulates, <1>1, PTL DEF Spec, ImplementsTraversal, Abstract!Spec
=============================================================================
