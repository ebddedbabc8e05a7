------------------------- MODULE RoutingSync_proofs -------------------------
(***************************************************************************)
(* Theorems about RoutingSync, for every value of its constants: any       *)
(* number of tenants, jobs, requests and pages, any time-outs.             *)
(*                                                                         *)
(* The inductive invariant is IInv.  DoneCovers is not inductive alone: a  *)
(* row becomes "done" on the word of an attempt (AttemptSound), whose      *)
(* starting page comes from the saved cursor (CursorSound).                *)
(***************************************************************************)
EXTENDS RoutingSync, FiniteSetTheorems, TLAPS

\* Rows that a handler, the broker or an attempt refers to have been inserted.
RowsExist ==
  /\ QueuedHasRow
  /\ \A j \in Jobs : wpc[j] # "idle" => status[j] # "absent"
  /\ \A r \in Requests :
       /\ req[r].pc \in {"enqueue", "mark"} =>
            req[r].job \in Jobs /\ status[req[r].job] # "absent"
       /\ \A j \in req[r].healed : status[j] # "absent"
  /\ cron.pc \in {"enqueue", "mark"} =>
       cron.job \in Jobs /\ status[cron.job] # "absent"
  /\ cron.pc = "insert" => cron.key \in Keys

CoverInv == CursorSound /\ AttemptSound /\ DoneCovers

IInv == TypeOK /\ RowsExist /\ CoverInv

\* A page holds finitely many SIMs, so its size can be added to a counter.
LEMMA PageLemma ==
  ASSUME NEW k \in Keys, NEW p \in Pages(k)
  PROVE  Listing[k][p] \subseteq Sims /\ Cardinality(Listing[k][p]) \in Nat
<1>1. Listing[k][p] \in SUBSET Sims
  BY ListingAssumption DEF Pages
<1>2. IsFiniteSet(Listing[k][p])
  BY <1>1, SetsAssumption, FS_Subset
<1> QED
  BY <1>1, <1>2, FS_CardinalityType

\* The page after p, when there is one, is p + 1 and is a page.
LEMMA NextCursorLemma ==
  ASSUME NEW k \in Keys, NEW p \in Pages(k), NextCursor(k, p) # None
  PROVE  NextCursor(k, p) \in Pages(k) /\ NextCursor(k, p) = p + 1
<1>1. Len(Listing[k]) \in Nat
  BY ListingAssumption
<1> QED
  BY <1>1 DEF NextCursor, Pages, None

-----------------------------------------------------------------------------
(* Initial states *)

\* The empty tables satisfy the invariant.
LEMMA InitIInv == Init => IInv
<1> SUFFICES ASSUME Init PROVE IInv
  OBVIOUS
<1>1. TypeOK
  BY SetsAssumption, TimeAssumption
     DEF Init, TypeOK, None, Statuses, WorkerPCs, Active, ReqRecord,
         CronRecord, ReqPCs, CronPCs, Idle
<1>2. RowsExist
  BY DEF Init, RowsExist, QueuedHasRow, Idle
<1>3. CoverInv
  BY DEF Init, CoverInv, CursorSound, AttemptSound, DoneCovers, None
<1> QED
  BY <1>1, <1>2, <1>3 DEF IInv

-----------------------------------------------------------------------------
(* Type correctness *)

\* A trigger request keeps every variable in its type.
LEMMA TriggerType ==
  ASSUME IInv, NEW r \in Requests,
         TriggerStep(r) \/ \E k \in Keys : TriggerGuard(r, k)
  PROVE  TypeOK'
<1> USE DEF IInv, TypeOK, Statuses
<1>0. req[r] \in ReqRecord /\ Idle \in ReqRecord
  BY DEF ReqRecord, Idle, ReqPCs
<1>1. ASSUME NEW k \in Keys, TriggerGuard(r, k) PROVE TypeOK'
  <2>1. [pc |-> "guarded", key |-> k, job |-> NoJob, healed |-> StaleJobs({k})]
          \in ReqRecord
    BY DEF ReqRecord, ReqPCs, StaleJobs
  <2> QED
    BY <1>1, <2>1 DEF TriggerGuard, table, arq, attempt
<1>2. CASE TriggerInsert(r)
  <2> DEFINE Enqueuing(j) == [req[r] EXCEPT !.pc = "enqueue", !.job = j,
                                            !.healed = {}]
  <2>1. PICK j \in Fresh(req[r].key) :
          /\ status' = [i \in Jobs |->
                          IF i = j THEN "pending"
                          ELSE IF i \in req[r].healed THEN "failed"
                          ELSE status[i]]
          /\ req' = [req EXCEPT ![r] = Enqueuing(j)]
    BY <1>2 DEF TriggerInsert
  <2>2. Enqueuing(j) \in ReqRecord
    BY <1>0 DEF Fresh, JobsOf, ReqRecord, ReqPCs
  <2>3. status' \in [Jobs -> Statuses]
    BY <2>1
  <2>4. req' \in [Requests -> ReqRecord]
    BY <2>1, <2>2
  <2> QED
    BY <1>2, <2>3, <2>4 DEF TriggerInsert, arq, attempt
<1>3. CASE TriggerEnqueue(r)
  BY <1>0, <1>3 DEF TriggerEnqueue, table, attempt
<1>4. CASE TriggerEnqueueFails(r)
  <2>1. [req[r] EXCEPT !.pc = "mark"] \in ReqRecord
    BY <1>0 DEF ReqRecord, ReqPCs
  <2> QED
    BY <1>4, <2>1 DEF TriggerEnqueueFails, table, attempt
<1>5. CASE TriggerMarkFailed(r)
  BY <1>0, <1>5 DEF TriggerMarkFailed, arq, attempt
<1>6. CASE TriggerCrash(r)
  <2>1. [Idle EXCEPT !.pc = "crashed"] \in ReqRecord
    BY <1>0 DEF ReqRecord, ReqPCs
  <2> QED
    BY <1>6, <2>1 DEF TriggerCrash, table, arq, attempt
<1> QED
  BY <1>1, <1>2, <1>3, <1>4, <1>5, <1>6 DEF TriggerStep

\* Whatever the scheduler does next, its record stays a record.
LEMMA CronRecordLemma ==
  ASSUME CronStart \/ CronStep, cron \in CronRecord
  PROVE  cron' \in CronRecord
<1> USE DEF CronRecord, CronPCs
<1>0. CronIdle \in CronRecord /\ NextRow \in CronRecord
  BY DEF CronIdle, NextRow
<1>1. CASE CronStart \/ CronEnd \/ CronCrash
  BY <1>0, <1>1 DEF CronStart, CronEnd, CronCrash
<1>2. CASE CronHeal
  BY <1>2 DEF CronHeal
<1>3. CASE CronInsert
  <2>1. PICK j \in Jobs : cron' = [cron EXCEPT !.pc = "enqueue", !.job = j]
    BY <1>3 DEF CronInsert, Fresh, JobsOf
  <2> QED
    BY <2>1
<1>4. CASE CronEnqueue \/ CronMarkFailed
  BY <1>0, <1>4 DEF CronEnqueue, CronMarkFailed
<1>5. CASE CronEnqueueFails
  BY <1>5 DEF CronEnqueueFails
<1>6. ASSUME NEW k \in Keys, CronCheck(k) PROVE cron' \in CronRecord
  <2>1. \/ cron' = [cron EXCEPT !.todo = @ \ {k}]
        \/ cron' = [cron EXCEPT !.pc = "insert", !.key = k, !.todo = @ \ {k}]
        \/ cron' = [CronIdle EXCEPT !.pc = "aborted"]
    BY <1>6 DEF CronCheck
  <2> QED
    BY <1>0, <2>1
<1> QED
  BY <1>1, <1>2, <1>3, <1>4, <1>5, <1>6 DEF CronStep

\* So does the nightly scheduler.
LEMMA CronType ==
  ASSUME IInv, CronStart \/ CronStep
  PROVE  TypeOK'
<1> USE DEF IInv, TypeOK, Statuses
<1>0. cron' \in CronRecord
  BY CronRecordLemma
<1>1. CASE CronStart \/ CronEnd \/ CronCrash \/ \E k \in Keys : CronCheck(k)
  BY <1>0, <1>1 DEF CronStart, CronEnd, CronCrash, CronCheck, table, arq, attempt
<1>2. CASE CronHeal
  BY <1>0, <1>2 DEF CronHeal, arq, attempt
<1>3. CASE CronInsert
  BY <1>0, <1>3 DEF CronInsert, Fresh, JobsOf, arq, attempt
<1>4. CASE CronEnqueue \/ CronEnqueueFails
  BY <1>0, <1>4 DEF CronEnqueue, CronEnqueueFails, table, attempt
<1>5. CASE CronMarkFailed
  BY <1>0, <1>5 DEF CronMarkFailed, arq, attempt
<1> QED
  BY <1>1, <1>2, <1>3, <1>4, <1>5 DEF CronStep

\* So do Arq's steps and the faults.
LEMMA ArqType ==
  ASSUME IInv, NEW j \in Jobs, ArqStep(j) \/ Fault(j)
  PROVE  TypeOK'
<1> USE TimeAssumption DEF IInv, TypeOK, WorkerPCs, Active, Leave, Over
<1>1. CASE PickUp(j)
  BY <1>1 DEF PickUp, table
<1>2. CASE GiveUp(j) \/ QueueLost(j)
  BY <1>2 DEF GiveUp, QueueLost, table, attempt
<1>3. CASE Acknowledge(j) \/ TimeOut(j) \/ Shutdown(j) \/ Redeliver(j)
  BY <1>3 DEF Acknowledge, TimeOut, Shutdown, Redeliver, table
<1>4. CASE WorkerCrash(j) \/ Raise(j)
  BY <1>4 DEF WorkerCrash, Raise, table, arq
<1> QED
  BY <1>1, <1>2, <1>3, <1>4 DEF ArqStep, Fault

\* So do the steps of the crawl; a page number stays one because of CoverInv.
LEMMA TaskType ==
  ASSUME IInv, NEW j \in Jobs, TaskStep(j)
  PROVE  TypeOK'
<1> USE SetsAssumption DEF IInv, TypeOK, WorkerPCs, Active, Statuses, Leave, Goto
<1>0. ASSUME wpc[j] \in {"list", "save"}
      PROVE  /\ pos[j] \in Pages(KeyOf[j])
             /\ NextCursor(KeyOf[j], pos[j]) \in Nat
  BY <1>0, NextCursorLemma DEF CoverInv, AttemptSound, None
<1>1. CASE Begin(j)
  BY <1>1 DEF Begin, None, arq
<1>2. CASE ListPage(j)
  BY <1>0, <1>2 DEF ListPage, Advance, table, arq
<1>3. CASE SavePage(j)
  <2>1. total[j] + Cardinality(Listing[KeyOf[j]][pos[j]]) \in Nat
    BY <1>0, <1>3, PageLemma DEF SavePage
  <2> QED
    BY <1>0, <1>3, <2>1 DEF SavePage, Advance, arq
<1>4. CASE Finish(j)
  BY <1>4 DEF Finish, None, arq
<1>5. CASE PersistFailure(j)
  BY <1>5 DEF PersistFailure, arq
<1> QED
  BY <1>1, <1>2, <1>3, <1>4, <1>5 DEF TaskStep

\* Every step keeps TypeOK.
LEMMA TypeStep == IInv /\ [Next]_vars => TypeOK'
<1> SUFFICES ASSUME IInv, [Next]_vars PROVE TypeOK'
  OBVIOUS
<1>1. CASE Tick
  BY <1>1, TimeAssumption
     DEF IInv, TypeOK, Tick, Plus1, arq
<1>2. CASE UNCHANGED vars
  BY <1>2 DEF IInv, TypeOK, vars, table, arq, attempt
<1>3. ASSUME NEW r \in Requests, NEW k \in Keys, TriggerGuard(r, k)
      PROVE  TypeOK'
  BY <1>3, TriggerType
<1>4. ASSUME NEW r \in Requests, TriggerStep(r) PROVE TypeOK'
  BY <1>4, TriggerType
<1> QED
  BY <1>1, <1>2, <1>3, <1>4, CronType, ArqType, TaskType DEF Next
-----------------------------------------------------------------------------
(* Rows exist before anything refers to them *)

\* A trigger request refers only to rows that were inserted.
LEMMA TriggerRows ==
  ASSUME IInv, NEW r \in Requests,
         TriggerStep(r) \/ \E k \in Keys : TriggerGuard(r, k)
  PROVE  RowsExist'
<1> USE DEF IInv, TypeOK, RowsExist, QueuedHasRow, Idle
<1>0. req[r] \in ReqRecord
  OBVIOUS
<1>1. ASSUME NEW k \in Keys, TriggerGuard(r, k) PROVE RowsExist'
  BY <1>1 DEF TriggerGuard, StaleJobs, InFlight, table, arq, attempt
<1>2. CASE TriggerInsert(r)
  <2>1. PICK j \in Fresh(req[r].key) :
          /\ status' = [i \in Jobs |->
                          IF i = j THEN "pending"
                          ELSE IF i \in req[r].healed THEN "failed"
                          ELSE status[i]]
          /\ req' = [req EXCEPT ![r] = [@ EXCEPT !.pc = "enqueue", !.job = j,
                                                 !.healed = {}]]
    BY <1>2 DEF TriggerInsert
  <2>2. j \in Jobs
    BY DEF Fresh, JobsOf
  <2>3. \A i \in Jobs : status[i] # "absent" => status'[i] # "absent"
    BY <2>1
  <2>4. /\ req'[r].pc = "enqueue" /\ req'[r].job = j /\ req'[r].healed = {}
        /\ \A q \in Requests : q # r => req'[q] = req[q]
    BY <1>0, <2>1 DEF ReqRecord
  <2>5. \A q \in Requests : req[q].healed \subseteq Jobs
    BY DEF ReqRecord
  <2>6. status'[j] # "absent"
    BY <2>1, <2>2
  <2> QED
    BY <1>2, <2>2, <2>3, <2>4, <2>5, <2>6 DEF TriggerInsert, arq, attempt
<1>3. CASE TriggerEnqueue(r)
  BY <1>3 DEF TriggerEnqueue, table, attempt
<1>4. CASE TriggerEnqueueFails(r)
  <2>1. /\ req'[r].pc = "mark" /\ req'[r].job = req[r].job
        /\ req'[r].healed = req[r].healed
        /\ \A q \in Requests : q # r => req'[q] = req[q]
    BY <1>0, <1>4 DEF TriggerEnqueueFails, ReqRecord
  <2> QED
    BY <1>4, <2>1 DEF TriggerEnqueueFails, table, attempt
<1>5. CASE TriggerMarkFailed(r)
  BY <1>5 DEF TriggerMarkFailed, arq, attempt, ReqRecord
<1>6. CASE TriggerCrash(r)
  <2>1. /\ req'[r].pc = "crashed" /\ req'[r].healed = {}
        /\ \A q \in Requests : q # r => req'[q] = req[q]
    BY <1>6 DEF TriggerCrash
  <2> QED
    BY <1>6, <2>1 DEF TriggerCrash, table, arq, attempt
<1> QED
  BY <1>1, <1>2, <1>3, <1>4, <1>5, <1>6 DEF TriggerStep

\* So does the nightly scheduler, and it inserts for a key it holds.
LEMMA CronRows ==
  ASSUME IInv, CronStart \/ CronStep
  PROVE  RowsExist'
<1> USE DEF IInv, TypeOK, RowsExist, QueuedHasRow
<1>0. cron \in CronRecord /\ \A q \in Requests : req[q].healed \subseteq Jobs
  BY DEF ReqRecord
<1>1. CASE CronStart \/ CronEnd \/ CronCrash
  <2>1. cron'.pc \in {"heal", "idle", "crashed"}
    BY <1>1 DEF CronStart, CronEnd, CronCrash, CronIdle
  <2> QED
    BY <1>1, <2>1 DEF CronStart, CronEnd, CronCrash, table, arq, attempt
<1>2. CASE CronHeal
  <2>1. cron'.pc = "scan"
    BY <1>0, <1>2 DEF CronHeal, CronRecord
  <2>2. \A i \in Jobs : status[i] # "absent" => status'[i] # "absent"
    BY <1>2 DEF CronHeal
  <2> QED
    BY <1>0, <1>2, <2>1, <2>2 DEF CronHeal, arq, attempt
<1>3. CASE CronInsert
  <2>1. PICK j \in Jobs : /\ status' = [status EXCEPT ![j] = "pending"]
                          /\ cron' = [cron EXCEPT !.pc = "enqueue", !.job = j]
    BY <1>3 DEF CronInsert, Fresh, JobsOf
  <2>2. cron'.pc = "enqueue" /\ cron'.job = j
    BY <1>0, <2>1 DEF CronRecord
  <2>3. \A i \in Jobs : status[i] # "absent" => status'[i] # "absent"
    BY <2>1
  <2>4. status'[j] # "absent"
    BY <2>1
  <2> QED
    BY <1>0, <1>3, <2>2, <2>3, <2>4 DEF CronInsert, arq, attempt
<1>4. CASE CronEnqueue
  <2>1. cron'.pc = "scan"
    BY <1>0, <1>4 DEF CronEnqueue, NextRow, CronRecord
  <2> QED
    BY <1>4, <2>1 DEF CronEnqueue, table, attempt
<1>5. CASE CronEnqueueFails
  <2>1. cron'.pc = "mark" /\ cron'.job = cron.job
    BY <1>0, <1>5 DEF CronEnqueueFails, CronRecord
  <2> QED
    BY <1>5, <2>1 DEF CronEnqueueFails, table, attempt
<1>6. CASE CronMarkFailed
  <2>1. cron'.pc = "scan"
    BY <1>0, <1>6 DEF CronMarkFailed, NextRow, CronRecord
  <2>2. \A i \in Jobs : status[i] # "absent" => status'[i] # "absent"
    BY <1>6 DEF CronMarkFailed
  <2> QED
    BY <1>0, <1>6, <2>1, <2>2 DEF CronMarkFailed, arq, attempt
<1>7. ASSUME NEW k \in Keys, CronCheck(k) PROVE RowsExist'
  <2>1. \/ cron'.pc = "scan" \/ cron'.pc = "aborted"
        \/ cron'.pc = "insert" /\ cron'.key = k
    BY <1>0, <1>7 DEF CronCheck, CronRecord, CronIdle
  <2> QED
    BY <1>7, <2>1 DEF CronCheck, table, arq, attempt
<1> QED
  BY <1>1, <1>2, <1>3, <1>4, <1>5, <1>6, <1>7 DEF CronStep

\* Queue entries and attempts only exist for inserted rows.
LEMMA JobRows ==
  ASSUME IInv, NEW j \in Jobs, ArqStep(j) \/ Fault(j) \/ TaskStep(j)
  PROVE  RowsExist'
<1> USE DEF IInv, TypeOK, RowsExist, QueuedHasRow, Active, Leave, Over, Goto
<1>1. CASE ArqStep(j)
  BY <1>1 DEF ArqStep, PickUp, GiveUp, Acknowledge, TimeOut, Redeliver,
              table, attempt
<1>2. CASE Fault(j)
  BY <1>2 DEF Fault, Raise, QueueLost, Shutdown, WorkerCrash, table, arq, attempt
<1>3. CASE TaskStep(j)
  <2>1. /\ \A i \in Jobs : status[i] # "absent" => status'[i] # "absent"
        /\ \A i \in Jobs : wpc'[i] # "idle" => wpc[i] # "idle"
        /\ UNCHANGED <<arq, req, cron>>
    BY <1>3 DEF TaskStep, Begin, ListPage, SavePage, Finish, PersistFailure,
                Advance, table
  <2>2. \A q \in Requests : req[q].healed \subseteq Jobs
    BY DEF ReqRecord
  <2> QED
    BY <2>1, <2>2 DEF arq
<1> QED
  BY <1>1, <1>2, <1>3

\* Every step keeps RowsExist.
LEMMA RowsStep == IInv /\ [Next]_vars => RowsExist'
<1> SUFFICES ASSUME IInv, [Next]_vars PROVE RowsExist'
  OBVIOUS
<1>1. CASE Tick \/ UNCHANGED vars
  BY <1>1 DEF IInv, RowsExist, QueuedHasRow, Tick, vars, table, arq, attempt
<1> QED
  BY <1>1, TriggerRows, CronRows, JobRows DEF Next
-----------------------------------------------------------------------------
(* Coverage: attempts, cursors and "done" never run ahead of the map *)

\* A step that leaves the map, the cursors and the attempts alone and makes
\* no row "done" keeps the coverage invariant.
LEMMA QuietStep ==
  ASSUME IInv, UNCHANGED <<routing, cursor, wpc, pos>>,
         \A j \in Jobs : status'[j] = "done" => status[j] = "done"
  PROVE  CoverInv'
BY DEF IInv, CoverInv, CursorSound, AttemptSound, DoneCovers, AllRouted,
       RoutedBefore

\* A step of one attempt that ends or has not begun listing likewise.
LEMMA LeaveStep ==
  ASSUME IInv, NEW j \in Jobs, UNCHANGED <<routing, cursor>>,
         \A i \in Jobs \ {j} : wpc'[i] = wpc[i] /\ pos'[i] = pos[i],
         wpc'[j] \notin {"list", "save", "finish"},
         \A i \in Jobs : status'[i] = "done" => status[i] = "done"
  PROVE  CoverInv'
<1> USE DEF IInv, CoverInv, AllRouted, RoutedBefore
<1>1. CursorSound' /\ DoneCovers'
  BY DEF CursorSound, DoneCovers
<1>2. AttemptSound'
  BY DEF AttemptSound
<1> QED
  BY <1>1, <1>2

\* Requests, the scheduler and the clock do not touch map, cursors or attempts.
LEMMA HandlerCover ==
  ASSUME IInv,
         \/ CronStart \/ CronStep \/ Tick \/ UNCHANGED vars
         \/ \E r \in Requests :
              TriggerStep(r) \/ \E k \in Keys : TriggerGuard(r, k)
  PROVE  CoverInv'
<1>1. UNCHANGED <<routing, cursor, wpc, pos>>
  BY DEF CronStart, CronStep, CronHeal, CronInsert, CronEnqueue, Tick, vars,
         CronEnqueueFails, CronMarkFailed, CronEnd, CronCrash, CronCheck,
         TriggerStep, TriggerGuard, TriggerInsert, TriggerEnqueue,
         TriggerEnqueueFails, TriggerMarkFailed, TriggerCrash,
         table, arq, attempt
<1>2. \A j \in Jobs : status'[j] = "done" => status[j] = "done"
  BY DEF IInv, TypeOK,
         CronStart, CronStep, CronHeal, CronInsert, CronEnqueue, Tick, vars,
         CronEnqueueFails, CronMarkFailed, CronEnd, CronCrash, CronCheck,
         TriggerStep, TriggerGuard, TriggerInsert, TriggerEnqueue,
         TriggerEnqueueFails, TriggerMarkFailed, TriggerCrash,
         table, arq, attempt
<1> QED
  BY <1>1, <1>2, QuietStep

\* Arq starts and ends attempts outside the page loop.
LEMMA ArqCover ==
  ASSUME IInv, NEW j \in Jobs, ArqStep(j) \/ Fault(j)
  PROVE  CoverInv'
<1> USE DEF Leave, Over
<1>1. CASE PickUp(j)
  BY <1>1, LeaveStep DEF IInv, TypeOK, PickUp, table
<1>2. CASE GiveUp(j) \/ QueueLost(j)
  BY <1>2, QuietStep DEF GiveUp, QueueLost, table, attempt
<1>3. CASE Acknowledge(j) \/ TimeOut(j) \/ Shutdown(j) \/ Redeliver(j)
  BY <1>3, LeaveStep
     DEF IInv, TypeOK, Acknowledge, TimeOut, Shutdown, Redeliver, table
<1>4. CASE WorkerCrash(j) \/ Raise(j)
  BY <1>4, LeaveStep DEF IInv, TypeOK, WorkerCrash, Raise, table
<1> QED
  BY <1>1, <1>2, <1>3, <1>4 DEF ArqStep, Fault

\* Once the page p of k is routed, so is everything before the page after p,
\* and everything there is if p was the last page.
LEMMA PageRouted ==
  ASSUME NEW k \in Keys, NEW p \in Pages(k), RoutedBefore(k, p),
         \A s \in Listing[k][p] : routing[s] = k
  PROVE  /\ NextCursor(k, p) # None => RoutedBefore(k, NextCursor(k, p))
         /\ NextCursor(k, p) = None => AllRouted(k)
<1>1. Len(Listing[k]) \in Nat
  BY ListingAssumption
<1> QED
  BY <1>1 DEF NextCursor, Pages, None, RoutedBefore, AllRouted

\* An attempt starts at the saved cursor, before which all is routed, or at 1.
LEMMA BeginCover ==
  ASSUME IInv, NEW j \in Jobs, Begin(j)
  PROVE  CoverInv'
<1> USE DEF IInv, TypeOK, CoverInv
<1>0. KeyOf[j] \in Keys
  BY SetsAssumption
<1>1. 1 \in Pages(KeyOf[j]) /\ RoutedBefore(KeyOf[j], 1)
  <2>1. Len(Listing[KeyOf[j]]) \in Nat /\ Len(Listing[KeyOf[j]]) > 0
    BY <1>0, ListingAssumption
  <2> QED
    BY <2>1 DEF Pages, RoutedBefore
<1>2. /\ pos'[j] \in Pages(KeyOf[j]) /\ RoutedBefore(KeyOf[j], pos'[j])
      /\ cursor[j] = None \/ cursor[j] <= pos'[j]
  BY <1>1 DEF Begin, CursorSound
<1>3. /\ UNCHANGED <<routing, cursor>>
      /\ wpc'[j] = "list"
      /\ \A i \in Jobs \ {j} : wpc'[i] = wpc[i] /\ pos'[i] = pos[i]
      /\ \A i \in Jobs : status'[i] = "done" => status[i] = "done"
  BY DEF Begin, Goto
<1>4. CursorSound' /\ DoneCovers'
  BY <1>3 DEF CursorSound, DoneCovers, AllRouted, RoutedBefore
<1>5. AttemptSound'
  BY <1>2, <1>3 DEF AttemptSound, AllRouted, RoutedBefore
<1> QED
  BY <1>4, <1>5

\* What a step of one attempt has to show: the map only grew, the other
\* attempts and cursors stayed, and j's own new page p and cursor c are sound.
LEMMA OneAttemptStep ==
  ASSUME IInv, NEW j \in Jobs, NEW p \in Nat, NEW c \in Nat,
         p = pos'[j], c = cursor'[j],
         \A l \in Keys : \A q \in Nat : RoutedBefore(l, q) => RoutedBefore(l, q)',
         \A i \in Jobs \ {j} :
           wpc'[i] = wpc[i] /\ pos'[i] = pos[i] /\ cursor'[i] = cursor[i],
         \A i \in Jobs : status'[i] = "done" => status[i] = "done",
         c # None => c \in Pages(KeyOf[j]) /\ RoutedBefore(KeyOf[j], c)',
         wpc'[j] \in {"list", "save"} =>
           /\ p \in Pages(KeyOf[j]) /\ RoutedBefore(KeyOf[j], p)'
           /\ c = None \/ c <= p,
         wpc'[j] = "finish" => AllRouted(KeyOf[j])'
  PROVE  CoverInv'
<1>0. /\ \A i \in Jobs : KeyOf[i] \in Keys /\ pos[i] \in Nat /\ cursor[i] \in Nat
      /\ \A l \in Keys : Len(Listing[l]) + 1 \in Nat
  BY SetsAssumption, ListingAssumption DEF IInv, TypeOK
<1>1. \A l \in Keys : AllRouted(l) => AllRouted(l)'
  BY <1>0 DEF AllRouted
<1>2. DoneCovers'
  BY <1>0, <1>1 DEF IInv, CoverInv, DoneCovers
<1>3. CursorSound'
  <2> SUFFICES ASSUME NEW i \in Jobs, cursor'[i] # None
               PROVE  /\ cursor'[i] \in Pages(KeyOf[i])
                      /\ RoutedBefore(KeyOf[i], cursor[i])'
    BY DEF CursorSound
  <2>1. CASE i = j
    BY <2>1 DEF RoutedBefore
  <2>2. CASE i # j
    <3>1. /\ cursor[i] \in Pages(KeyOf[i]) /\ RoutedBefore(KeyOf[i], cursor[i])
          /\ cursor'[i] = cursor[i]
      BY <2>2 DEF IInv, CoverInv, CursorSound
    <3>2. PICK q \in Nat : q = cursor[i]
      BY <1>0
    <3>3. RoutedBefore(KeyOf[i], q)'
      BY <1>0, <3>1, <3>2
    <3> QED
      BY <3>1, <3>2, <3>3 DEF RoutedBefore
  <2> QED
    BY <2>1, <2>2
<1>4. AttemptSound'
  <2> SUFFICES ASSUME NEW i \in Jobs
               PROVE  /\ wpc'[i] \in {"list", "save"} =>
                           /\ pos'[i] \in Pages(KeyOf[i])
                           /\ RoutedBefore(KeyOf[i], pos[i])'
                           /\ cursor'[i] = None \/ cursor'[i] <= pos'[i]
                      /\ wpc'[i] = "finish" => AllRouted(KeyOf[i])'
    BY DEF AttemptSound
  <2>1. CASE i = j
    BY <2>1 DEF RoutedBefore
  <2>2. CASE i # j
    <3>1. /\ wpc[i] \in {"list", "save"} =>
               /\ pos[i] \in Pages(KeyOf[i]) /\ RoutedBefore(KeyOf[i], pos[i])
               /\ cursor[i] = None \/ cursor[i] <= pos[i]
          /\ wpc[i] = "finish" => AllRouted(KeyOf[i])
          /\ wpc'[i] = wpc[i] /\ pos'[i] = pos[i] /\ cursor'[i] = cursor[i]
      BY <2>2 DEF IInv, CoverInv, AttemptSound
    <3>2. PICK q \in Nat : q = pos[i]
      BY <1>0
    <3>3. RoutedBefore(KeyOf[i], q) => RoutedBefore(KeyOf[i], q)'
      BY <1>0
    <3>4. AllRouted(KeyOf[i]) => AllRouted(KeyOf[i])'
      BY <1>0, <1>1
    <3>5. RoutedBefore(KeyOf[i], pos[i]) => RoutedBefore(KeyOf[i], pos[i])'
      BY <3>1, <3>2, <3>3 DEF RoutedBefore
    <3> QED
      BY <3>1, <3>4, <3>5
  <2> QED
    BY <2>1, <2>2
<1> QED
  BY <1>2, <1>3, <1>4 DEF CoverInv

\* Skipping an empty page skips no SIM.
LEMMA ListCover ==
  ASSUME IInv, NEW j \in Jobs, ListPage(j)
  PROVE  CoverInv'
<1>0. PICK k \in Keys, p \in Nat :
        /\ k = KeyOf[j] /\ p = pos[j] /\ p \in Pages(k) /\ RoutedBefore(k, p)
        /\ cursor[j] = None \/ cursor[j] <= p
  BY SetsAssumption DEF IInv, TypeOK, CoverInv, ListPage, AttemptSound
<1>1. PICK c \in Nat : c = cursor[j]
  BY DEF IInv, TypeOK
<1> DEFINE next == NextCursor(k, p)
<1>2. /\ UNCHANGED <<routing, cursor, status>>
      /\ \A i \in Jobs \ {j} : wpc'[i] = wpc[i] /\ pos'[i] = pos[i]
      /\ IF Listing[k][p] # {} THEN wpc'[j] = "save" /\ pos'[j] = p
         ELSE IF next = None THEN wpc'[j] = "finish" /\ pos'[j] = p
              ELSE wpc'[j] = "list" /\ pos'[j] = next
  BY <1>0 DEF IInv, TypeOK, ListPage, Advance, Goto, table
<1>3. /\ c # None => c \in Pages(k) /\ RoutedBefore(k, c)
      /\ c = None \/ c <= p
  BY <1>0, <1>1 DEF IInv, CoverInv, CursorSound, RoutedBefore
<1>4. \A l, q : (RoutedBefore(l, q) <=> RoutedBefore(l, q)')
                /\ (AllRouted(l) <=> AllRouted(l)')
  BY <1>2 DEF AllRouted, RoutedBefore
<1>5. c = cursor'[j] /\ \A i \in Jobs : cursor'[i] = cursor[i]
  BY <1>1, <1>2
<1>6. CASE Listing[k][p] # {}
  BY <1>0, <1>2, <1>3, <1>4, <1>5, <1>6, OneAttemptStep
<1>7. CASE Listing[k][p] = {} /\ next = None
  BY <1>0, <1>2, <1>3, <1>4, <1>5, <1>7, PageRouted, OneAttemptStep
<1>8. CASE Listing[k][p] = {} /\ next # None
  <2>1. next \in Pages(k) /\ next = p + 1 /\ RoutedBefore(k, next)
    BY <1>0, <1>8, NextCursorLemma, PageRouted
  <2>2. next \in Nat /\ (c = None \/ c <= next)
    BY <1>0, <1>3, <2>1
  <2> HIDE DEF next
  <2> QED
    BY <1>0, <1>2, <1>3, <1>4, <1>5, <1>8, <2>1, <2>2, OneAttemptStep
<1> QED
  BY <1>6, <1>7, <1>8

\* Saving a page of one key takes no SIM away from any key's pages.
LEMMA SaveKeepsRoutes ==
  ASSUME IInv, NEW j \in Jobs, SavePage(j)
  PROVE  \A k \in Keys : \A q \in Pages(k) : \A s \in Listing[k][q] :
           routing[s] = k => routing'[s] = k
<1> SUFFICES ASSUME NEW k \in Keys, NEW q \in Pages(k),
                    NEW s \in Listing[k][q], routing[s] = k
             PROVE  routing'[s] = k
  OBVIOUS
<1>1. pos[j] \in Pages(KeyOf[j]) /\ KeyOf[j] \in Keys
  BY SetsAssumption DEF IInv, CoverInv, AttemptSound, SavePage
<1>2. s \in Sims
  BY PageLemma
<1>3. s \in Listing[KeyOf[j]][pos[j]] => KeyOf[j] = k
  BY <1>1, DisjointAssumption DEF Pages
<1> QED
  BY <1>2, <1>3 DEF SavePage

\* Saving a page routes its SIMs in the transaction that moves the cursor.
LEMMA SaveCover ==
  ASSUME IInv, NEW j \in Jobs, SavePage(j)
  PROVE  CoverInv'
<1>1. PICK k \in Keys, p \in Nat :
        k = KeyOf[j] /\ p = pos[j] /\ p \in Pages(k) /\ RoutedBefore(k, p)
  BY SetsAssumption DEF IInv, TypeOK, CoverInv, SavePage, AttemptSound
<1> DEFINE next == NextCursor(k, p)
<1>2. \A l \in Keys : \A q \in Nat : RoutedBefore(l, q) => RoutedBefore(l, q)'
  BY SaveKeepsRoutes DEF RoutedBefore
<1>3. /\ next # None => RoutedBefore(k, next)'
      /\ next = None => AllRouted(k)'
  <2>1. RoutedBefore(k, p)'
    BY <1>1, <1>2
  <2>2. \A s \in Listing[k][p] : routing'[s] = k
    BY <1>1, PageLemma DEF SavePage
  <2>3. Len(Listing[k]) \in Nat
    BY ListingAssumption
  <2> QED
    BY <1>1, <2>1, <2>2, <2>3
       DEF NextCursor, Pages, None, RoutedBefore, AllRouted
<1>4. /\ UNCHANGED status
      /\ cursor'[j] = next
      /\ \A i \in Jobs \ {j} :
           wpc'[i] = wpc[i] /\ pos'[i] = pos[i] /\ cursor'[i] = cursor[i]
      /\ next = None => wpc'[j] = "finish" /\ pos'[j] = p
      /\ next # None => wpc'[j] = "list" /\ pos'[j] = next
  BY <1>1 DEF IInv, TypeOK, SavePage, Advance, Goto
<1>5. next # None => next \in Pages(k)
  BY <1>1, NextCursorLemma
<1>6. next \in Nat
  BY <1>5 DEF Pages, None
<1>7. next <= next
  BY <1>6
<1> HIDE DEF next
<1>8. CASE next = None
  BY <1>1, <1>2, <1>3, <1>4, <1>6, <1>8, OneAttemptStep
<1>9. CASE next # None
  BY <1>1, <1>2, <1>3, <1>4, <1>5, <1>6, <1>7, <1>9, OneAttemptStep
<1> QED
  BY <1>8, <1>9

\* A row becomes done when its attempt has run out of pages.
LEMMA FinishCover ==
  ASSUME IInv, NEW j \in Jobs, Finish(j)
  PROVE  CoverInv'
<1>1. AllRouted(KeyOf[j]) /\ UNCHANGED routing
  BY DEF IInv, CoverInv, AttemptSound, Finish
<1>2. /\ cursor'[j] = None
      /\ wpc'[j] = "returning"
      /\ \A i \in Jobs \ {j} : /\ cursor'[i] = cursor[i] /\ status'[i] = status[i]
                               /\ wpc'[i] = wpc[i] /\ pos'[i] = pos[i]
  BY DEF IInv, TypeOK, Finish, Leave
<1>3. DoneCovers'
  BY <1>1, <1>2 DEF IInv, CoverInv, DoneCovers, AllRouted, RoutedBefore
<1>4. CursorSound'
  BY <1>1, <1>2 DEF IInv, CoverInv, CursorSound, RoutedBefore
<1>5. AttemptSound'
  BY <1>1, <1>2 DEF IInv, CoverInv, AttemptSound, AllRouted, RoutedBefore
<1> QED
  BY <1>3, <1>4, <1>5 DEF CoverInv

\* Every step of the crawl keeps CoverInv.
LEMMA TaskCover ==
  ASSUME IInv, NEW j \in Jobs, TaskStep(j)
  PROVE  CoverInv'
<1>1. CASE PersistFailure(j)
  BY <1>1, LeaveStep DEF IInv, TypeOK, PersistFailure, Leave
<1> QED
  BY <1>1, BeginCover, ListCover, SaveCover, FinishCover DEF TaskStep

\* Every step keeps CoverInv.
LEMMA CoverStep == IInv /\ [Next]_vars => CoverInv'
BY HandlerCover, ArqCover, TaskCover DEF Next

-----------------------------------------------------------------------------
(* The theorems *)

\* Type correctness, the existence of the rows the processes refer to, and
\* the soundness of what cursors and attempts claim, together inductive.
THEOREM Invariance == Spec => []IInv
<1>1. IInv /\ [Next]_vars => IInv'
  BY TypeStep, RowsStep, CoverStep DEF IInv
<1> QED
  BY <1>1, InitIInv, PTL DEF Spec

\* Every variable keeps its type, for any number of keys, jobs and requests.
THEOREM TypeCorrect == Spec => []TypeOK
<1>1. IInv => TypeOK
  BY DEF IInv
<1> QED
  BY <1>1, Invariance, PTL

\* A row that says "done" is never ahead of the routing map (tasks.py, Mark
\* done): every SIM on every page of its key's listing is routed to the key.
THEOREM DoneIsCovered == Spec => []DoneCovers
<1>1. IInv => DoneCovers
  BY DEF IInv, CoverInv
<1> QED
  BY <1>1, Invariance, PTL

\* A saved cursor never skips a page whose SIMs are not routed (tasks.py, the
\* page transaction): a crawl resumed from it leaves nothing out.
THEOREM CursorIsSound == Spec => []CursorSound
<1>1. IInv => CursorSound
  BY DEF IInv, CoverInv
<1> QED
  BY <1>1, Invariance, PTL

\* What an attempt takes for granted about the pages behind it is true.
THEOREM AttemptIsSound == Spec => []AttemptSound
<1>1. IInv => AttemptSound
  BY DEF IInv, CoverInv
<1> QED
  BY <1>1, Invariance, PTL

\* The queue never holds a job without its row: commit comes before enqueue.
THEOREM QueuedJobsHaveRows == Spec => []QueuedHasRow
<1>1. IInv => QueuedHasRow
  BY DEF IInv, RowsExist
<1> QED
  BY <1>1, Invariance, PTL

-----------------------------------------------------------------------------
(* Cursors only advance *)

\* Every step clears a cursor, keeps it or moves it forward.
LEMMA CursorStep ==
  ASSUME IInv, [Next]_vars, NEW j \in Jobs
  PROVE  cursor'[j] = None \/ cursor'[j] >= cursor[j]
<1>0. cursor[j] \in Nat /\ cursor \in [Jobs -> Nat]
  BY DEF IInv, TypeOK
<1>1. CASE UNCHANGED cursor
  BY <1>0, <1>1
<1>2. ASSUME NEW i \in Jobs, Finish(i)
      PROVE  cursor'[j] = None \/ cursor'[j] >= cursor[j]
  BY <1>0, <1>2 DEF Finish
<1>3. ASSUME NEW i \in Jobs, SavePage(i)
      PROVE  cursor'[j] = None \/ cursor'[j] >= cursor[j]
  <2>1. /\ pos[i] \in Pages(KeyOf[i]) /\ KeyOf[i] \in Keys
        /\ cursor[i] = None \/ cursor[i] <= pos[i]
    BY <1>3, SetsAssumption DEF IInv, CoverInv, AttemptSound, SavePage
  <2>2. PICK c : /\ c = NextCursor(KeyOf[i], pos[i])
                 /\ cursor' = [cursor EXCEPT ![i] = c]
    BY <1>3 DEF SavePage
  <2>3. c # None => c \in Nat /\ c = pos[i] + 1
    BY <2>1, <2>2, NextCursorLemma DEF Pages
  <2>4. pos[i] \in Nat
    BY <2>1 DEF Pages
  <2> QED
    BY <1>0, <2>1, <2>2, <2>3, <2>4 DEF None
<1>4. ASSUME NEW i \in Jobs, TaskStep(i) \/ ArqStep(i) \/ Fault(i),
             ~Finish(i), ~SavePage(i)
      PROVE  UNCHANGED cursor
  BY <1>4 DEF TaskStep, ArqStep, Fault, Begin, ListPage, PersistFailure,
     PickUp, GiveUp, QueueLost, Acknowledge, TimeOut, Shutdown, WorkerCrash,
     Redeliver, Raise, table
<1>5. ASSUME \/ CronStart \/ CronStep \/ Tick \/ UNCHANGED vars
             \/ \E r \in Requests :
                  TriggerStep(r) \/ \E k \in Keys : TriggerGuard(r, k)
      PROVE  UNCHANGED cursor
  BY <1>5
     DEF CronStart, CronStep, CronHeal, CronInsert, CronEnqueue, Tick, vars,
         CronEnqueueFails, CronMarkFailed, CronEnd, CronCrash, CronCheck,
         TriggerStep, TriggerGuard, TriggerInsert, TriggerEnqueue,
         TriggerEnqueueFails, TriggerMarkFailed, TriggerCrash,
         table, arq, attempt
<1> QED
  BY <1>1, <1>2, <1>3, <1>4, <1>5 DEF Next

\* No step of any process moves a saved cursor backwards.
THEOREM CursorsOnlyAdvance == Spec => CursorOnlyAdvances
<1>1. IInv /\ [Next]_vars
        => [\A j \in Jobs : cursor'[j] = None \/ cursor'[j] >= cursor[j]]_vars
  BY CursorStep
<1> QED
  BY <1>1, Invariance, PTL DEF Spec, CursorOnlyAdvances

-----------------------------------------------------------------------------
(* No orphan is left *)

\* Who leaves "enqueue" or "mark" normally has queued the job or failed the row.
LEMMA CronEnds ==
  ASSUME IInv, [Next]_vars, NEW j \in Jobs, cron.job = j,
         EndsNormally(cron.pc, cron'.pc)
  PROVE  broker'[j] = "queued" \/ status'[j] = "failed"
<1>1. /\ cron.pc \in {"enqueue", "mark"} /\ cron'.pc \in {"idle", "scan"}
      /\ broker \in [Jobs -> {"none", "queued", "inprogress"}]
      /\ status \in [Jobs -> Statuses] /\ cron \in CronRecord
  BY DEF EndsNormally, IInv, TypeOK
<1>2. CASE CronEnqueue
  BY <1>1, <1>2 DEF CronEnqueue
<1>3. CASE CronMarkFailed
  BY <1>1, <1>3 DEF CronMarkFailed
<1>4. CASE CronEnqueueFails
  <2>1. cron'.pc = "mark"
    BY <1>1, <1>4 DEF CronEnqueueFails, CronRecord
  <2> QED
    BY <1>1, <2>1
<1>5. CASE CronCrash
  BY <1>1, <1>5 DEF CronCrash, CronIdle
<1>6. ASSUME CronStart \/ CronHeal \/ CronInsert \/ CronEnd \/ \E k \in Keys : CronCheck(k)
      PROVE  FALSE
  BY <1>1, <1>6 DEF CronStart, CronHeal, CronInsert, CronEnd, CronCheck
<1>7. UNCHANGED cron => FALSE
  BY <1>1
<1>8. ASSUME NEW i \in Jobs, TaskStep(i) \/ ArqStep(i) \/ Fault(i)
      PROVE  UNCHANGED cron
  BY <1>8 DEF TaskStep, ArqStep, Fault, Begin, ListPage, SavePage, Finish, PersistFailure,
     PickUp, GiveUp, QueueLost, Acknowledge, TimeOut, Shutdown, WorkerCrash, Redeliver, Raise
<1>9. ASSUME NEW r \in Requests, TriggerStep(r) \/ \E k \in Keys : TriggerGuard(r, k)
      PROVE  UNCHANGED cron
  BY <1>9 DEF TriggerStep, TriggerGuard, TriggerInsert, TriggerEnqueue,
     TriggerEnqueueFails, TriggerMarkFailed, TriggerCrash
<1>10. Tick \/ UNCHANGED vars => UNCHANGED cron
  BY DEF Tick, vars
<1> QED
  BY <1>2, <1>3, <1>4, <1>5, <1>6, <1>7, <1>8, <1>9, <1>10 DEF Next, CronStep

LEMMA TriggerEnds ==
  ASSUME IInv, [Next]_vars, NEW j \in Jobs, NEW r \in Requests, req[r].job = j,
         EndsNormally(req[r].pc, req'[r].pc)
  PROVE  broker'[j] = "queued" \/ status'[j] = "failed"
<1>1. /\ req[r].pc \in {"enqueue", "mark"} /\ req'[r].pc \in {"idle", "scan"}
      /\ broker \in [Jobs -> {"none", "queued", "inprogress"}]
      /\ status \in [Jobs -> Statuses] /\ req \in [Requests -> ReqRecord]
  BY DEF EndsNormally, IInv, TypeOK
<1>2. UNCHANGED req[r] => FALSE
  BY <1>1
<1>3. CASE TriggerEnqueue(r)
  BY <1>1, <1>3 DEF TriggerEnqueue
<1>4. CASE TriggerMarkFailed(r)
  BY <1>1, <1>4 DEF TriggerMarkFailed
<1>5. CASE TriggerEnqueueFails(r)
  <2>1. req'[r].pc = "mark"
    BY <1>1, <1>5 DEF TriggerEnqueueFails, ReqRecord
  <2> QED
    BY <1>1, <2>1
<1>6. CASE TriggerCrash(r)
  <2>1. req'[r].pc = "crashed"
    BY <1>1, <1>6 DEF TriggerCrash, Idle
  <2> QED
    BY <1>1, <2>1
<1>7. ASSUME TriggerInsert(r) \/ \E k \in Keys : TriggerGuard(r, k)
      PROVE  FALSE
  BY <1>1, <1>7 DEF TriggerInsert, TriggerGuard
<1>8. ASSUME NEW q \in Requests, q # r, TriggerStep(q) \/ \E k \in Keys : TriggerGuard(q, k)
      PROVE  UNCHANGED req[r]
  BY <1>1, <1>8 DEF TriggerStep, TriggerGuard, TriggerInsert, TriggerEnqueue,
     TriggerEnqueueFails, TriggerMarkFailed, TriggerCrash
<1>9. ASSUME NEW i \in Jobs, TaskStep(i) \/ ArqStep(i) \/ Fault(i)
      PROVE  UNCHANGED req
  BY <1>9 DEF TaskStep, ArqStep, Fault, Begin, ListPage, SavePage, Finish, PersistFailure,
     PickUp, GiveUp, QueueLost, Acknowledge, TimeOut, Shutdown, WorkerCrash, Redeliver, Raise
<1>10. CronStart \/ CronStep \/ Tick \/ UNCHANGED vars => UNCHANGED req
  BY DEF CronStart, CronStep, CronHeal, CronInsert, CronEnqueue, CronEnqueueFails,
     CronMarkFailed, CronEnd, CronCrash, CronCheck, Tick, vars
<1> QED
  BY <1>2, <1>3, <1>4, <1>5, <1>6, <1>7, <1>8, <1>9, <1>10 DEF Next, TriggerStep

\* A request or a night that ends normally leaves no row pending that nobody
\* will ever pick up: its job is queued, or the row says failed.
THEOREM NoOrphansAreLeft == Spec => NoOrphanLeft
<1>1. IInv /\ [Next]_vars
        => [\A j \in Jobs :
              (\/ cron.job = j /\ EndsNormally(cron.pc, cron'.pc)
               \/ \E r \in Requests : /\ req[r].job = j
                                      /\ EndsNormally(req[r].pc, req'[r].pc))
              => ~Orphan(j)']_vars
  <2> SUFFICES ASSUME IInv, [Next]_vars, NEW j \in Jobs,
                      \/ cron.job = j /\ EndsNormally(cron.pc, cron'.pc)
                      \/ \E r \in Requests : /\ req[r].job = j
                                             /\ EndsNormally(req[r].pc, req'[r].pc)
               PROVE  ~Orphan(j)'
    OBVIOUS
  <2>1. broker'[j] = "queued" \/ status'[j] = "failed"
    BY CronEnds, TriggerEnds
  <2> QED
    BY <2>1 DEF Orphan
<1> QED
  BY <1>1, Invariance, PTL DEF Spec, NoOrphanLeft

-----------------------------------------------------------------------------
(* Deliveries.  Who draws an identifier has it alone until it is queued, and *)
(* from then on only arq moves it.                                           *)

Enqueues(r, j) == req[r].pc = "enqueue" /\ req[r].job = j
CronEnqueues(j) == cron.pc = "enqueue" /\ cron.job = j

QueueInv ==
  /\ \A j \in Jobs : ToBeQueued(j) => broker[j] = "none" /\ tries[j] = 0
  /\ \A j \in Jobs : broker[j] = "inprogress" <=> wpc[j] # "idle"
  /\ \A j \in Jobs : \A q, r \in Requests : Enqueues(q, j) /\ Enqueues(r, j) => q = r
  /\ \A j \in Jobs : \A r \in Requests : ~(Enqueues(r, j) /\ CronEnqueues(j))

Queueing(b) == [none |-> 0, queued |-> 1, inprogress |-> 2][b]

LEMMA QueueingIs ==
  Queueing("none") = 0 /\ Queueing("queued") = 1 /\ Queueing("inprogress") = 2
  BY DEF Queueing

\* What a step does to one job's deliveries.
Delivers(j) ==
  /\ Deliveries(j)' <= Deliveries(j)
  /\ broker'[j] # broker[j] => Deliveries(j)' < Deliveries(j)

\* A job that arq does not move is no further from its end than it was.
LEMMA Unmoved ==
  ASSUME IInv, NEW j \in Jobs, broker'[j] = broker[j], tries'[j] = tries[j],
         ToBeQueued(j)' => ToBeQueued(j), QueueInv
  PROVE  Delivers(j)
<1>1. Queueing(broker[j]) \in 0 .. 2 /\ tries[j] \in 0 .. MaxTries /\ MaxTries \in Nat
  BY QueueingIs, TimeAssumption DEF IInv, TypeOK
<1>2. ToBeQueued(j) => Queueing(broker[j]) = 0 /\ tries[j] = 0
  BY QueueingIs DEF QueueInv
<1>3. /\ Deliveries(j) = IF ToBeQueued(j) THEN 3 * MaxTries + 2
                         ELSE 3 * (MaxTries - tries[j]) + Queueing(broker[j])
      /\ Deliveries(j)' = IF ToBeQueued(j)' THEN 3 * MaxTries + 2
                          ELSE 3 * (MaxTries - tries[j]) + Queueing(broker[j])
  BY DEF Deliveries, Queueing
<1> QED
  BY <1>1, <1>2, <1>3 DEF Delivers

\* One that has been queued goes down by what its broker entry does.
LEMMA Moved ==
  ASSUME IInv, NEW j \in Jobs, ~ToBeQueued(j)', tries'[j] \in 0 .. MaxTries,
         \/ ToBeQueued(j) /\ broker'[j] = "queued"
         \/ /\ ~ToBeQueued(j)
            /\ \/ /\ broker[j] = "queued" /\ broker'[j] = "inprogress"
                  /\ tries'[j] = tries[j] + 1
               \/ /\ broker[j] = "inprogress" /\ broker'[j] \in {"queued", "none"}
                  /\ tries'[j] = tries[j]
               \/ broker[j] = "queued" /\ broker'[j] = "none" /\ tries'[j] = tries[j]
  PROVE  Delivers(j)
<1>1. tries[j] \in 0 .. MaxTries /\ MaxTries \in Nat
  BY TimeAssumption DEF IInv, TypeOK
<1>2. /\ Deliveries(j) = IF ToBeQueued(j) THEN 3 * MaxTries + 2
                         ELSE 3 * (MaxTries - tries[j]) + Queueing(broker[j])
      /\ Deliveries(j)' = 3 * (MaxTries - tries'[j]) + Queueing(broker'[j])
  BY DEF Deliveries, Queueing
<1> QED
  BY <1>1, <1>2, QueueingIs DEF Delivers

\* Trigger requests draw, queue and mark their own jobs.
LEMMA TriggerDelivers ==
  ASSUME IInv, QueueInv, NEW r \in Requests,
         TriggerStep(r) \/ \E k \in Keys : TriggerGuard(r, k)
  PROVE  QueueInv' /\ \A j \in Jobs : Delivers(j)
<1> USE DEF IInv, TypeOK, Idle
<1>1. CASE TriggerInsert(r)
  <2>1. PICK i \in Jobs :
          /\ status[i] = "absent"
          /\ status' = [h \in Jobs |-> IF h = i THEN "pending"
                                       ELSE IF h \in req[r].healed THEN "failed" ELSE status[h]]
          /\ req' = [req EXCEPT ![r] = [@ EXCEPT !.pc = "enqueue", !.job = i, !.healed = {}]]
    BY <1>1 DEF TriggerInsert, Fresh, JobsOf
  <2>2. UNCHANGED <<broker, tries, wpc, cron>>
    BY <1>1 DEF TriggerInsert, arq, attempt
  <2>3. /\ \A j \in Jobs : \A q \in Requests :
             Enqueues(q, j)' <=> IF q = r THEN j = i ELSE Enqueues(q, j)
        /\ \A j \in Jobs : CronEnqueues(j)' <=> CronEnqueues(j)
    BY <2>1, <2>2 DEF Enqueues, CronEnqueues, ReqRecord
  <2>4. (\A q \in Requests : ~Enqueues(q, i)) /\ ~CronEnqueues(i)
    BY <2>1 DEF RowsExist, Enqueues, CronEnqueues
  <2>5. \A j \in Jobs : ToBeQueued(j)' => ToBeQueued(j)
    <3> TAKE j \in Jobs
    <3>1. status'[j] = "absent" => status[j] = "absent"
      BY <2>1
    <3> QED
      BY <2>1, <2>3, <3>1 DEF ToBeQueued, Enqueues, CronEnqueues
  <2> QED
    BY <2>2, <2>3, <2>4, <2>5, Unmoved DEF QueueInv
<1>2. CASE TriggerEnqueue(r) \/ TriggerEnqueueFails(r)
  <2>1. PICK i \in Jobs : i = req[r].job /\ Enqueues(r, i)
    BY <1>2 DEF TriggerEnqueue, TriggerEnqueueFails, RowsExist, Enqueues
  <2>2. /\ UNCHANGED <<status, tries, wpc, cron>>
        /\ broker' \in {broker, [broker EXCEPT ![i] = "queued"]}
    BY <1>2, <2>1 DEF TriggerEnqueue, TriggerEnqueueFails, table, attempt
  <2>3. /\ \A j \in Jobs : \A q \in Requests : Enqueues(q, j)' <=> q # r /\ Enqueues(q, j)
        /\ \A j \in Jobs : CronEnqueues(j)' <=> CronEnqueues(j)
    BY <1>2, <2>2 DEF Enqueues, CronEnqueues, TriggerEnqueue, TriggerEnqueueFails, ReqRecord
  <2>4. status[i] # "absent" /\ ~CronEnqueues(i) /\ (\A q \in Requests : Enqueues(q, i) => q = r)
    BY <2>1 DEF RowsExist, QueueInv, Enqueues
  <2>5. /\ \A j \in Jobs : ToBeQueued(j) <=> \/ status[j] = "absent" \/ CronEnqueues(j)
                                             \/ \E q \in Requests : Enqueues(q, j)
        /\ \A j \in Jobs : ToBeQueued(j)' <=> \/ status'[j] = "absent" \/ CronEnqueues(j)'
                                              \/ \E q \in Requests : Enqueues(q, j)'
    BY DEF ToBeQueued, Enqueues, CronEnqueues
  <2>6. ToBeQueued(i) /\ ~ToBeQueued(i)' /\ (\A j \in Jobs : ToBeQueued(j)' => ToBeQueued(j))
    BY <2>1, <2>2, <2>3, <2>4, <2>5
  <2>7. broker[i] = "none" /\ tries[i] = 0 /\ wpc[i] = "idle"
    BY <2>6 DEF QueueInv
  <2>8. QueueInv'
    BY <2>2, <2>3, <2>6, <2>7 DEF QueueInv
  <2>9. ASSUME NEW j \in Jobs PROVE Delivers(j)
    <3>1. CASE broker'[j] = broker[j]
      BY <2>2, <2>6, <3>1, Unmoved
    <3>2. CASE broker'[j] # broker[j]
      <4>1. j = i /\ broker'[i] = "queued" /\ tries'[i] = 0
        BY <2>2, <2>7, <3>2
      <4>2. tries'[i] \in 0 .. MaxTries
        BY <4>1, TimeAssumption
      <4> QED
        BY <2>6, <4>1, <4>2, Moved
    <3> QED
      BY <3>1, <3>2
  <2> QED
    BY <2>8, <2>9
<1>3. CASE TriggerMarkFailed(r) \/ TriggerCrash(r) \/ \E k \in Keys : TriggerGuard(r, k)
  <2>1. UNCHANGED <<broker, tries, wpc, cron>>
    BY <1>3 DEF TriggerMarkFailed, TriggerCrash, TriggerGuard, table, arq, attempt
  <2>2. /\ \A j \in Jobs : \A q \in Requests : Enqueues(q, j)' => Enqueues(q, j)
        /\ \A j \in Jobs : CronEnqueues(j)' <=> CronEnqueues(j)
    <3>1. /\ Idle.pc # "enqueue" /\ [Idle EXCEPT !.pc = "crashed"].pc # "enqueue"
          /\ \A k, J : [pc |-> "guarded", key |-> k, job |-> NoJob, healed |-> J].pc # "enqueue"
      OBVIOUS
    <3>2. PICK x : req' = [req EXCEPT ![r] = x] /\ x.pc # "enqueue"
      <4> HIDE DEF Idle
      <4> QED
        BY <1>3, <3>1 DEF TriggerMarkFailed, TriggerCrash, TriggerGuard
    <3> QED
      BY <2>1, <3>2 DEF Enqueues, CronEnqueues
  <2>3. \A j \in Jobs : status'[j] = "absent" => status[j] = "absent"
    BY <1>3 DEF TriggerMarkFailed, TriggerCrash, TriggerGuard, table
  <2>4. \A j \in Jobs : ToBeQueued(j)' => ToBeQueued(j)
    BY <2>2, <2>3 DEF ToBeQueued, Enqueues, CronEnqueues
  <2> QED
    BY <2>1, <2>2, <2>4, Unmoved DEF QueueInv
<1> QED
  BY <1>1, <1>2, <1>3 DEF TriggerStep

\* So does the cron.
LEMMA CronDelivers ==
  ASSUME IInv, QueueInv, CronStart \/ CronStep
  PROVE  QueueInv' /\ \A j \in Jobs : Delivers(j)
<1> USE DEF IInv, TypeOK, CronIdle, NextRow
<1>1. UNCHANGED <<tries, wpc, req>>
  BY DEF CronStart, CronStep, CronHeal, CronCheck, CronInsert, CronEnqueue, CronEnqueueFails,
         CronMarkFailed, CronEnd, CronCrash, arq, attempt
<1>2. \A j \in Jobs : \A q \in Requests : Enqueues(q, j)' <=> Enqueues(q, j)
  BY <1>1 DEF Enqueues
<1>3. /\ \A j \in Jobs : ToBeQueued(j) <=> \/ status[j] = "absent" \/ CronEnqueues(j)
                                           \/ \E q \in Requests : Enqueues(q, j)
      /\ \A j \in Jobs : ToBeQueued(j)' <=> \/ status'[j] = "absent" \/ CronEnqueues(j)'
                                            \/ \E q \in Requests : Enqueues(q, j)'
  BY DEF ToBeQueued, Enqueues, CronEnqueues
<1>4. CASE CronInsert
  <2>1. PICK i \in Jobs : /\ status[i] = "absent" /\ status' = [status EXCEPT ![i] = "pending"]
                          /\ cron' = [cron EXCEPT !.pc = "enqueue", !.job = i]
    BY <1>4 DEF CronInsert, Fresh, JobsOf
  <2>2. UNCHANGED broker
    BY <1>4 DEF CronInsert, arq
  <2>3. \A j \in Jobs : CronEnqueues(j)' <=> j = i
    BY <2>1 DEF CronEnqueues, CronRecord
  <2>4. \A q \in Requests : ~Enqueues(q, i)
    BY <2>1 DEF RowsExist, Enqueues
  <2>5. \A j \in Jobs : ToBeQueued(j)' => ToBeQueued(j)
    BY <1>2, <1>3, <2>1, <2>3
  <2> QED
    BY <1>1, <1>2, <2>2, <2>3, <2>4, <2>5, Unmoved DEF QueueInv
<1>5. CASE CronEnqueue \/ CronEnqueueFails
  <2>1. PICK i \in Jobs : i = cron.job /\ CronEnqueues(i)
    BY <1>5 DEF CronEnqueue, CronEnqueueFails, RowsExist, CronEnqueues
  <2>2. /\ UNCHANGED status
        /\ broker' \in {broker, [broker EXCEPT ![i] = "queued"]}
    BY <1>5, <2>1 DEF CronEnqueue, CronEnqueueFails, table
  <2>3. \A j \in Jobs : ~CronEnqueues(j)' /\ (CronEnqueues(j) <=> j = i)
    BY <1>5, <2>1 DEF CronEnqueue, CronEnqueueFails, CronEnqueues, CronRecord
  <2>4. status[i] # "absent" /\ \A q \in Requests : ~Enqueues(q, i)
    BY <2>1 DEF RowsExist, QueueInv, CronEnqueues
  <2>5. ToBeQueued(i) /\ ~ToBeQueued(i)' /\ (\A j \in Jobs : ToBeQueued(j)' => ToBeQueued(j))
    BY <1>2, <1>3, <2>1, <2>2, <2>3, <2>4
  <2>6. broker[i] = "none" /\ tries[i] = 0 /\ wpc[i] = "idle"
    BY <2>5 DEF QueueInv
  <2>7. QueueInv'
    BY <1>1, <1>2, <2>2, <2>3, <2>5, <2>6 DEF QueueInv
  <2>8. ASSUME NEW j \in Jobs PROVE Delivers(j)
    <3>1. CASE broker'[j] = broker[j]
      BY <1>1, <2>5, <3>1, Unmoved
    <3>2. CASE broker'[j] # broker[j]
      <4>1. j = i /\ broker'[i] = "queued" /\ tries'[i] = 0
        BY <1>1, <2>2, <2>6, <3>2
      <4>2. tries'[i] \in 0 .. MaxTries
        BY <4>1, TimeAssumption
      <4> QED
        BY <2>5, <4>1, <4>2, Moved
    <3> QED
      BY <3>1, <3>2
  <2> QED
    BY <2>7, <2>8
<1>6. CASE CronStart \/ CronHeal \/ CronMarkFailed \/ CronEnd \/ CronCrash \/ \E k \in Keys : CronCheck(k)
  <2>1. UNCHANGED broker
    BY <1>6 DEF CronStart, CronHeal, CronMarkFailed, CronEnd, CronCrash, CronCheck, arq
  <2>2. \A j \in Jobs : CronEnqueues(j)' => CronEnqueues(j)
    <3>1. cron' = cron \/ cron'.pc # "enqueue"
      <4>1. cron \in CronRecord
        OBVIOUS
      <4>2. CASE CronStart \/ CronEnd \/ CronCrash
        BY <4>2 DEF CronStart, CronEnd, CronCrash
      <4>3. CASE CronHeal \/ CronMarkFailed
        BY <4>1, <4>3 DEF CronHeal, CronMarkFailed, CronRecord
      <4>4. ASSUME NEW k \in Keys, CronCheck(k) PROVE cron'.pc # "enqueue"
        BY <4>4 DEF CronCheck, CronRecord
      <4> QED
        BY <1>6, <4>2, <4>3, <4>4
    <3> QED
      BY <3>1 DEF CronEnqueues
  <2>3. \A j \in Jobs : status'[j] = "absent" => status[j] = "absent"
    BY <1>6 DEF CronStart, CronHeal, CronMarkFailed, CronEnd, CronCrash, CronCheck, table
  <2>4. \A j \in Jobs : ToBeQueued(j)' => ToBeQueued(j)
    BY <1>2, <1>3, <2>2, <2>3
  <2> QED
    BY <1>1, <1>2, <2>1, <2>2, <2>4, Unmoved DEF QueueInv
<1> QED
  BY <1>4, <1>5, <1>6 DEF CronStep

\* arq, the task and time: a delivery is counted when it begins.
LEMMA ArqDelivers ==
  ASSUME IInv, QueueInv, NEW i \in Jobs, TaskStep(i) \/ ArqStep(i) \/ Fault(i)
  PROVE  QueueInv' /\ \A j \in Jobs : Delivers(j)
<1> USE DEF IInv, TypeOK
<1>1. UNCHANGED <<req, cron>>
  BY DEF TaskStep, ArqStep, Fault, Begin, ListPage, SavePage, Finish, PersistFailure, PickUp, GiveUp,
         Acknowledge, TimeOut, Redeliver, Raise, QueueLost, Shutdown, WorkerCrash
<1>2. \A j \in Jobs : status'[j] = "absent" => status[j] = "absent"
  BY DEF TaskStep, ArqStep, Fault, Begin, ListPage, SavePage, Finish, PersistFailure, PickUp, GiveUp,
         Acknowledge, TimeOut, Redeliver, Raise, QueueLost, Shutdown, WorkerCrash, table
<1>3. \A j \in Jobs : /\ ToBeQueued(j)' => ToBeQueued(j)
                      /\ CronEnqueues(j)' <=> CronEnqueues(j)
                      /\ \A q \in Requests : Enqueues(q, j)' <=> Enqueues(q, j)
  BY <1>1, <1>2 DEF ToBeQueued, Enqueues, CronEnqueues
<1>4. /\ \A j \in Jobs \ {i} : broker'[j] = broker[j] /\ tries'[j] = tries[j] /\ wpc'[j] = wpc[j]
      /\ \/ broker'[i] = broker[i] /\ tries'[i] = tries[i] /\ (wpc'[i] = "idle" <=> wpc[i] = "idle")
         \/ /\ broker[i] = "queued" /\ broker'[i] = "inprogress" /\ wpc'[i] # "idle"
            /\ tries[i] < MaxTries /\ tries'[i] = tries[i] + 1
         \/ /\ broker[i] = "inprogress" /\ broker'[i] \in {"queued", "none"} /\ wpc'[i] = "idle"
            /\ tries'[i] = tries[i]
         \/ /\ broker[i] = "queued" /\ broker'[i] = "none" /\ wpc'[i] = wpc[i]
            /\ tries'[i] = tries[i]
  <2>1. CASE TaskStep(i)
    BY <2>1 DEF TaskStep, Begin, ListPage, SavePage, Finish, PersistFailure, arq, Goto, Advance, Leave
  <2>2. CASE ArqStep(i)
    BY <2>2 DEF ArqStep, PickUp, GiveUp, Acknowledge, TimeOut, Redeliver, Over, Leave, Active, QueueInv,
                attempt
  <2>3. CASE Fault(i)
    BY <2>3 DEF Fault, Raise, QueueLost, Shutdown, WorkerCrash, Over, Leave, Active, QueueInv, arq, attempt
  <2> QED
    BY <2>1, <2>2, <2>3
<1>5. broker'[i] # broker[i] => ~ToBeQueued(i)
  BY <1>4 DEF QueueInv
<1>6. ToBeQueued(i) => tries'[i] = tries[i]
  BY <1>4 DEF QueueInv
<1>7. QueueInv'
  <2>1. \A j \in Jobs : ToBeQueued(j)' => broker'[j] = "none" /\ tries'[j] = 0
    BY <1>3, <1>4, <1>5, <1>6 DEF QueueInv
  <2>2. \A j \in Jobs : broker'[j] = "inprogress" <=> wpc'[j] # "idle"
    BY <1>4 DEF QueueInv
  <2> QED
    BY <1>3, <2>1, <2>2 DEF QueueInv
<1>8. ASSUME NEW j \in Jobs PROVE Delivers(j)
  <2>1. CASE broker'[j] = broker[j] /\ tries'[j] = tries[j]
    BY <1>3, <2>1, Unmoved
  <2>2. CASE ~(broker'[j] = broker[j] /\ tries'[j] = tries[j])
    <3>1. j = i /\ broker'[i] # broker[i]
      BY <1>4, <2>2
    <3>2. ~ToBeQueued(i) /\ ~ToBeQueued(i)'
      BY <1>3, <1>5, <3>1
    <3>3. tries[i] \in 0 .. MaxTries /\ MaxTries \in Nat
      BY TimeAssumption
    <3>4. tries'[i] \in 0 .. MaxTries
      BY <1>4, <3>1, <3>3
    <3> QED
      BY <1>4, <3>1, <3>2, <3>4, Moved
  <2> QED
    BY <2>1, <2>2
<1> QED
  BY <1>7, <1>8

\* However triggers, crons, crashes and redeliveries are interleaved, a job is
\* queued once and delivered MaxTries times at most.
THEOREM DeliveriesAreFinite == Spec => DeliveriesRunOut
<1>1. Init => QueueInv
  BY DEF Init, QueueInv, Enqueues, CronEnqueues, Idle
<1>2. ASSUME IInv, QueueInv, [Next]_vars
      PROVE  QueueInv' /\ (UNCHANGED vars \/ \A j \in Jobs : Delivers(j))
  <2>0. ASSUME UNCHANGED <<status, broker, tries, wpc, req, cron>>
        PROVE  QueueInv' /\ \A j \in Jobs : ToBeQueued(j)' <=> ToBeQueued(j)
    <3>1. \A j \in Jobs : /\ ToBeQueued(j)' <=> ToBeQueued(j)
                          /\ CronEnqueues(j)' <=> CronEnqueues(j)
                          /\ \A r \in Requests : Enqueues(r, j)' <=> Enqueues(r, j)
      BY <2>0 DEF ToBeQueued, CronEnqueues, Enqueues
    <3> QED
      BY <1>2, <2>0, <3>1 DEF QueueInv
  <2>1. CASE UNCHANGED vars
    BY <2>0, <2>1 DEF vars, table, arq, attempt
  <2>2. CASE Tick
    <3>1. UNCHANGED <<status, broker, tries, wpc, req, cron>>
      BY <2>2 DEF Tick, arq
    <3> QED
      BY <1>2, <2>0, <3>1, Unmoved
  <2> QED
    BY <1>2, <2>1, <2>2, TriggerDelivers, CronDelivers, ArqDelivers DEF Next
<1>3. IInv /\ QueueInv /\ [Next]_vars =>
        [\A j \in Jobs : /\ Deliveries(j)' <= Deliveries(j)
                         /\ broker'[j] # broker[j] => Deliveries(j)' < Deliveries(j)]_vars
  BY <1>2 DEF Delivers
<1>4. IInv /\ QueueInv /\ [Next]_vars => QueueInv'
  BY <1>2
<1> QED
  BY <1>1, <1>3, <1>4, Invariance, PTL DEF Spec, DeliveriesRunOut

-----------------------------------------------------------------------------
(* RoutingSync implements SyncContract: the map is the identity on status    *)
(* and routing, and everything else is hidden.                               *)

\* The insert, with the heal it commits, only administers rows.
LEMMA TriggerContract ==
  ASSUME IInv, NEW r \in Requests, TriggerInsert(r)
  PROVE  Contract!Administer
<1>1. PICK j \in Fresh(req[r].key) :
        status' = [i \in Jobs |-> IF i = j THEN "pending"
                                 ELSE IF i \in req[r].healed THEN "failed"
                                 ELSE status[i]]
  BY DEF TriggerInsert
<1>2. \A i \in req[r].healed : status[i] # "absent"
  BY DEF IInv, RowsExist
<1>3. j \in Jobs /\ status[j] = "absent" /\ status \in [Jobs -> Statuses]
  BY DEF Fresh, JobsOf, IInv, TypeOK
<1> QED
  BY <1>1, <1>2, <1>3
     DEF TriggerInsert, Contract!Administer, Contract!Statuses, Statuses

\* A saved page is some of the inventory of the job's key.
LEMMA SaveContract ==
  ASSUME IInv, NEW j \in Jobs, SavePage(j)
  PROVE  Contract!Absorb(j)
<1>1. status[j] # "absent" /\ UNCHANGED status
  BY DEF IInv, RowsExist, SavePage
<1>2. pos[j] \in 1 .. Len(Listing[KeyOf[j]])
  BY DEF IInv, CoverInv, AttemptSound, SavePage, Pages
<1>3. Listing[KeyOf[j]][pos[j]] \in SUBSET Contract!Inventory(KeyOf[j])
  BY <1>2 DEF Contract!Inventory
<1> QED
  BY <1>1, <1>3 DEF SavePage, Contract!Absorb

\* The last write of an attempt is a success with a complete map.
LEMMA FinishContract ==
  ASSUME IInv, NEW j \in Jobs, Finish(j)
  PROVE  Contract!Succeed(j)
<1>1. status[j] # "absent" /\ AllRouted(KeyOf[j])
  BY DEF IInv, RowsExist, CoverInv, AttemptSound, Finish
<1>2. Len(Listing[KeyOf[j]]) \in Nat
  BY SetsAssumption, ListingAssumption
<1>3. Contract!Complete(KeyOf[j])
  BY <1>1, <1>2 DEF AllRouted, RoutedBefore, Pages, Contract!Complete,
                    Contract!Inventory
<1> QED
  BY <1>1, <1>3 DEF Finish, Contract!Succeed

\* Every step is a step of the contract or changes nothing it sees.
LEMMA ContractStep ==
  IInv /\ [Next]_vars => [Contract!Next]_Contract!contractVars
<1> SUFFICES ASSUME IInv, [Next]_vars
             PROVE  Contract!Next \/ UNCHANGED <<status, routing>>
  BY DEF Contract!contractVars
<1> USE DEF IInv, TypeOK
<1>1. ASSUME NEW r \in Requests, TriggerStep(r)
      PROVE  Contract!Next \/ UNCHANGED <<status, routing>>
  <2>1. CASE TriggerMarkFailed(r)
    <3>1. /\ status' = [status EXCEPT ![req[r].job] = "failed"]
          /\ status[req[r].job] # "absent" /\ UNCHANGED routing
      BY <2>1 DEF TriggerMarkFailed, RowsExist
    <3> QED
      BY <3>1 DEF Contract!Next, Contract!Administer, Contract!Statuses, Statuses
  <2> QED
    BY <1>1, <2>1, TriggerContract
       DEF TriggerStep, TriggerEnqueue, TriggerEnqueueFails, TriggerCrash,
           table, Contract!Next
<1>2. CASE CronStart \/ CronStep
  <2>1. CASE CronHeal
    BY <2>1 DEF CronHeal, StaleJobs, InFlight, Contract!Next,
                Contract!Administer, Contract!Statuses, Statuses
  <2>2. CASE CronInsert
    BY <2>2 DEF CronInsert, Fresh, JobsOf, Contract!Next,
                Contract!Administer, Contract!Statuses, Statuses
  <2>3. CASE CronMarkFailed
    <3>1. /\ status' = [status EXCEPT ![cron.job] = "failed"]
          /\ status[cron.job] # "absent" /\ UNCHANGED routing
      BY <2>3 DEF CronMarkFailed, RowsExist
    <3> QED
      BY <3>1 DEF Contract!Next, Contract!Administer, Contract!Statuses, Statuses
  <2> QED
    BY <1>2, <2>1, <2>2, <2>3
       DEF CronStart, CronStep, CronEnqueue, CronEnqueueFails, CronEnd,
           CronCrash, CronCheck, table
<1>3. ASSUME NEW j \in Jobs, TaskStep(j)
      PROVE  Contract!Next \/ UNCHANGED <<status, routing>>
  <2>1. CASE Begin(j) \/ PersistFailure(j)
    <3>1. /\ \/ status' = [status EXCEPT ![j] = "running"]
             \/ status' = [status EXCEPT ![j] = "failed"]
             \/ UNCHANGED status
          /\ status[j] # "absent" /\ UNCHANGED routing
      BY <2>1 DEF Begin, PersistFailure, RowsExist
    <3> QED
      BY <3>1 DEF Contract!Next, Contract!Administer, Contract!Statuses, Statuses
  <2>2. CASE ListPage(j)
    BY <2>2 DEF ListPage, table
  <2> QED
    BY <1>3, <2>1, <2>2, SaveContract, FinishContract DEF TaskStep, Contract!Next
<1>4. ASSUME NEW j \in Jobs, ArqStep(j) \/ Fault(j)
      PROVE  UNCHANGED <<status, routing>>
  BY <1>4 DEF ArqStep, Fault, PickUp, GiveUp, QueueLost, Acknowledge, TimeOut,
     Shutdown, WorkerCrash, Redeliver, Raise, table
<1>5. ASSUME \/ Tick \/ UNCHANGED vars
             \/ \E r \in Requests, k \in Keys : TriggerGuard(r, k)
      PROVE  UNCHANGED <<status, routing>>
  BY <1>5 DEF Tick, vars, table, TriggerGuard
<1> QED
  BY <1>1, <1>2, <1>3, <1>4, <1>5 DEF Next

\* The whole machinery of queue, pages, cursors, retries, heals and crashes
\* does to sync_jobs and sim_routing_map only what ADR-012 promises.
THEOREM Refinement == Spec => ImplementsContract
<1>1. Init => Contract!Init
  BY DEF Init, Contract!Init
<1>2. IInv /\ [Next]_vars => [Contract!Next]_Contract!contractVars
  BY ContractStep
<1> QED
  BY <1>1, <1>2, Invariance, PTL DEF Spec, ImplementsContract, Contract!Spec
=============================================================================
