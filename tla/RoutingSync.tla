----------------------------- MODULE RoutingSync -----------------------------
(***************************************************************************)
(* The routing-map synchronisation of ADR-012: the sync_jobs table, the    *)
(* POST /v1/sync/trigger handler (app/sync/router.py), the nightly cron    *)
(* and the crawl task (app/sync/tasks.py), and the Arq broker and worker   *)
(* between them (external, modelled from app/sync/worker.py).              *)
(*                                                                         *)
(* One step is what happens between two awaits that other processes can    *)
(* see: a committed transaction, a call to Redis, a provider answer.       *)
(* A key is a (company, provider) pair.  A job identifier is random and    *)
(* carries no information, so the identifiers a key will use are fixed in  *)
(* advance by KeyOf.  A provider listing is a sequence of pages; cursor p  *)
(* names the next page to ask for and None is the SQL NULL cursor.         *)
(* Time is counted in coarse units: a row has an age, an attempt has the   *)
(* time it has been running.  Both saturate where the code stops looking.  *)
(***************************************************************************)
EXTENDS Naturals, Sequences, FiniteSets

CONSTANTS
  Keys,        \* (company, provider) pairs with active credentials
  Jobs,        \* job identifiers; bounds the rows of sync_jobs
  KeyOf,       \* KeyOf[j]: the key the row with identifier j is for
  Requests,    \* concurrently served trigger requests
  Sims,        \* ICCIDs
  Listing,     \* Listing[k]: the pages the provider lists for k
  StaleCutoff, \* _STALE_JOB_CUTOFF
  JobTimeout,  \* WorkerSettings.job_timeout
  MaxTries,    \* arq's max_tries
  MaxJobs,     \* WorkerSettings.max_jobs
  NoJob,       \* no job
  NoKey        \* no route

None == 0      \* the SQL NULL cursor

ASSUME SetsAssumption ==
  /\ KeyOf \in [Jobs -> Keys]
  /\ IsFiniteSet(Sims)
  /\ NoJob \notin Jobs
  /\ NoKey \notin Keys

ASSUME ListingAssumption ==
  /\ Listing \in [Keys -> Seq(SUBSET Sims)]
  /\ \A k \in Keys : Len(Listing[k]) > 0

\* An ICCID belongs to one key's inventory.
ASSUME DisjointAssumption ==
  \A k, l \in Keys : k # l =>
    \A p \in 1 .. Len(Listing[k]), q \in 1 .. Len(Listing[l]) :
      Listing[k][p] \cap Listing[l][q] = {}

ASSUME TimeAssumption ==
  /\ StaleCutoff \in Nat /\ JobTimeout \in Nat \ {0}
  /\ MaxTries \in Nat \ {0} /\ MaxJobs \in Nat \ {0}

VARIABLES
  status,   \* sync_jobs.status; "absent" before the row is inserted
  age,      \* now() - sync_jobs.created_at, saturating
  cursor,   \* sync_jobs.cursor
  progress, \* sync_jobs.progress_done
  routing,  \* sim_routing_map: the key an ICCID is routed to
  broker,   \* the Arq queue entry of a job, in Redis
  tries,    \* arq's retry counter of a job
  wpc,      \* program counter of the attempt that runs a job
  pos,      \* local `cursor` of the attempt: the page it asks for next
  total,    \* local `total_done` of the attempt
  elapsed,  \* time since the attempt was picked up, saturating
  req,      \* the trigger requests being served
  cron      \* the nightly scheduler

table   == <<status, age, cursor, progress>>
arq     == <<broker, tries>>
attempt == <<wpc, pos, total, elapsed>>
vars == <<table, routing, arq, attempt, req, cron>>

Statuses == {"absent", "pending", "running", "done", "failed"}
InFlight == {"pending", "running"}

\* Where an attempt can be.  "returning": the task function has ended and arq
\* has not yet removed the queue entry.  "dead": its worker process died.
Active == {"picked", "list", "save", "finish", "failing"}
WorkerPCs == Active \cup {"idle", "returning", "dead"}

ReqPCs == {"idle", "guarded", "enqueue", "mark", "crashed"}
CronPCs == {"idle", "heal", "scan", "insert", "enqueue", "mark", "aborted",
            "crashed"}

JobsOf(k) == {j \in Jobs : KeyOf[j] = k}
Pages(k) == 1 .. Len(Listing[k])

\* SELECT id ... WHERE status IN ('pending', 'running') for one key.
InFlightJobs(k) == {j \in JobsOf(k) : status[j] \in InFlight}

\* Mutant of StaleJobs: the heal forgets rows that were never started.
StaleRunningOnly(K) == {j \in Jobs : /\ KeyOf[j] \in K
                                     /\ status[j] = "running"
                                     /\ age[j] > StaleCutoff}

\* The rows the self-heal UPDATE matches.
StaleJobs(K) == {j \in Jobs : /\ KeyOf[j] \in K
                              /\ status[j] \in InFlight
                              /\ age[j] > StaleCutoff}

\* A trigger holds row locks on the rows it healed until it commits.
Locked(j) == \E r \in Requests : req[r].pc = "guarded" /\ j \in req[r].healed

\* Mutant of Fresh: a row that failed is started over.
FreshOrFailed(k) == {j \in JobsOf(k) : status[j] \in {"absent", "failed"}}

\* Identifiers not yet drawn.
Fresh(k) == {j \in JobsOf(k) : status[j] = "absent"}

Idle == [pc |-> "idle", key |-> NoKey, job |-> NoJob, healed |-> {}]

\* The adapter's next_cursor after page p.
NextCursor(k, p) == IF p < Len(Listing[k]) THEN p + 1 ELSE None

ReqRecord == [pc : ReqPCs, key : Keys \cup {NoKey}, job : Jobs \cup {NoJob},
              healed : SUBSET Jobs]
CronRecord == [pc : CronPCs, todo : SUBSET Keys, key : Keys \cup {NoKey},
               job : Jobs \cup {NoJob}]

TypeOK ==
  /\ status \in [Jobs -> Statuses]
  /\ age \in [Jobs -> 0 .. StaleCutoff + 1]
  /\ cursor \in [Jobs -> Nat]
  /\ progress \in [Jobs -> Nat]
  /\ routing \in [Sims -> Keys \cup {NoKey}]
  /\ broker \in [Jobs -> {"none", "queued", "inprogress"}]
  /\ tries \in [Jobs -> 0 .. MaxTries]
  /\ wpc \in [Jobs -> WorkerPCs]
  /\ pos \in [Jobs -> Nat]
  /\ total \in [Jobs -> Nat]
  /\ elapsed \in [Jobs -> 0 .. JobTimeout]
  /\ req \in [Requests -> ReqRecord]
  /\ cron \in CronRecord

Init ==
  /\ status = [j \in Jobs |-> "absent"]
  /\ age = [j \in Jobs |-> 0]
  /\ cursor = [j \in Jobs |-> None]
  /\ progress = [j \in Jobs |-> 0]
  /\ routing = [s \in Sims |-> NoKey]
  /\ broker = [j \in Jobs |-> "none"]
  /\ tries = [j \in Jobs |-> 0]
  /\ wpc = [j \in Jobs |-> "idle"]
  /\ pos = [j \in Jobs |-> 1]
  /\ total = [j \in Jobs |-> 0]
  /\ elapsed = [j \in Jobs |-> 0]
  /\ req = [r \in Requests |-> Idle]
  /\ cron = [pc |-> "idle", todo |-> {}, key |-> NoKey, job |-> NoJob]

-----------------------------------------------------------------------------
(* POST /v1/sync/trigger *)

\* The heal UPDATE, still uncommitted, and the in-flight SELECT.  One row
\* found raises SyncAlreadyRunning, more than one MultipleResultsFound;
\* either rolls the heal back and leaves no trace.
TriggerGuard(r, k) ==
  /\ req[r].pc \in {"idle", "crashed"}
  /\ \A j \in StaleJobs({k}) : ~Locked(j)
  /\ InFlightJobs(k) \subseteq StaleJobs({k})
  /\ Fresh(k) # {}                                        \* bound: Jobs
  /\ req' = [req EXCEPT ![r] = [pc |-> "guarded", key |-> k, job |-> NoJob,
                                healed |-> StaleJobs({k})]]
  /\ UNCHANGED <<table, routing, arq, attempt, cron>>

\* Mutant of TriggerInsert: the commit is left to the end of the request.
TriggerInsertUncommitted(r) ==
  /\ req[r].pc = "guarded"
  /\ \E j \in Fresh(req[r].key) :
       req' = [req EXCEPT ![r] = [@ EXCEPT !.pc = "enqueue", !.job = j,
                                          !.healed = {}]]
  /\ UNCHANGED <<table, routing, arq, attempt, cron>>

\* db.add(job); db.commit() -- which commits the heal too.
TriggerInsert(r) ==
  /\ req[r].pc = "guarded"
  /\ \E j \in Fresh(req[r].key) :
       /\ status' = [i \in Jobs |->
                       IF i = j THEN "pending"
                       ELSE IF i \in req[r].healed THEN "failed"
                       ELSE status[i]]
       /\ req' = [req EXCEPT ![r] = [@ EXCEPT !.pc = "enqueue", !.job = j,
                                              !.healed = {}]]
  /\ UNCHANGED <<age, cursor, progress, routing, arq, attempt, cron>>

\* enqueue_job returns: 202.
TriggerEnqueue(r) ==
  /\ req[r].pc = "enqueue"
  /\ broker' = [broker EXCEPT ![req[r].job] = "queued"]
  /\ req' = [req EXCEPT ![r] = Idle]
  /\ UNCHANGED <<table, routing, tries, attempt, cron>>

\* enqueue_job raises; Redis may or may not have the entry by then.
TriggerEnqueueFails(r) ==
  /\ req[r].pc = "enqueue"
  /\ \/ UNCHANGED broker
     \/ broker' = [broker EXCEPT ![req[r].job] = "queued"]
  /\ req' = [req EXCEPT ![r].pc = "mark"]
  /\ UNCHANGED <<table, routing, tries, attempt, cron>>

\* The except branch: fail the row now and answer 503.
TriggerMarkFailed(r) ==
  /\ req[r].pc = "mark"
  /\ ~Locked(req[r].job)
  /\ status' = [status EXCEPT ![req[r].job] = "failed"]
  /\ req' = [req EXCEPT ![r] = Idle]
  /\ UNCHANGED <<age, cursor, progress, routing, arq, attempt, cron>>

\* The API process dies, or the database fails, at any await.
TriggerCrash(r) ==
  /\ req[r].pc \in {"guarded", "enqueue", "mark"}
  /\ req' = [req EXCEPT ![r] = [Idle EXCEPT !.pc = "crashed"]]
  /\ UNCHANGED <<table, routing, arq, attempt, cron>>

TriggerStep(r) ==
  TriggerInsert(r) \/ TriggerEnqueue(r) \/ TriggerEnqueueFails(r)
    \/ TriggerMarkFailed(r) \/ TriggerCrash(r)

-----------------------------------------------------------------------------
(* schedule_nightly_routing_sync, one run at a time (cron(unique=True)) *)

CronIdle == [pc |-> "idle", todo |-> {}, key |-> NoKey, job |-> NoJob]

CronStart ==
  /\ cron.pc \in {"idle", "aborted", "crashed"}
  /\ cron' = [CronIdle EXCEPT !.pc = "heal"]
  /\ UNCHANGED <<table, routing, arq, attempt, req>>

\* The heal UPDATE with its own commit, and the SELECT of active credentials.
CronHeal ==
  /\ cron.pc = "heal"
  /\ \A j \in StaleJobs(Keys) : ~Locked(j)
  /\ status' = [j \in Jobs |-> IF j \in StaleJobs(Keys) THEN "failed"
                               ELSE status[j]]
  /\ cron' = [cron EXCEPT !.pc = "scan", !.todo = Keys]
  /\ UNCHANGED <<age, cursor, progress, routing, arq, attempt, req>>

\* The in-flight SELECT of one key: skip it, go on to the INSERT, or raise
\* MultipleResultsFound out of the whole task.
CronCheck(k) ==
  /\ cron.pc = "scan" /\ k \in cron.todo
  /\ LET found == Cardinality(InFlightJobs(k))
     IN \/ /\ found = 1 \/ (found = 0 /\ Fresh(k) = {})    \* bound: Jobs
           /\ cron' = [cron EXCEPT !.todo = @ \ {k}]
        \/ /\ found = 0 /\ Fresh(k) # {}
           /\ cron' = [cron EXCEPT !.pc = "insert", !.key = k,
                                   !.todo = @ \ {k}]
        \/ /\ found > 1
           /\ cron' = [CronIdle EXCEPT !.pc = "aborted"]
  /\ UNCHANGED <<table, routing, arq, attempt, req>>

CronInsert ==
  /\ cron.pc = "insert"
  /\ \E j \in Fresh(cron.key) :
       /\ status' = [status EXCEPT ![j] = "pending"]
       /\ cron' = [cron EXCEPT !.pc = "enqueue", !.job = j]
  /\ UNCHANGED <<age, cursor, progress, routing, arq, attempt, req>>

NextRow == [cron EXCEPT !.pc = "scan", !.key = NoKey, !.job = NoJob]

CronEnqueue ==
  /\ cron.pc = "enqueue"
  /\ broker' = [broker EXCEPT ![cron.job] = "queued"]
  /\ cron' = NextRow
  /\ UNCHANGED <<table, routing, tries, attempt, req>>

CronEnqueueFails ==
  /\ cron.pc = "enqueue"
  /\ \/ UNCHANGED broker
     \/ broker' = [broker EXCEPT ![cron.job] = "queued"]
  /\ cron' = [cron EXCEPT !.pc = "mark"]
  /\ UNCHANGED <<table, routing, tries, attempt, req>>

\* Mutant of CronMarkFailed: only the log line.
CronLogsFailure ==
  /\ cron.pc = "mark"
  /\ cron' = NextRow
  /\ UNCHANGED <<table, routing, arq, attempt, req>>

CronMarkFailed ==
  /\ cron.pc = "mark"
  /\ ~Locked(cron.job)
  /\ status' = [status EXCEPT ![cron.job] = "failed"]
  /\ cron' = NextRow
  /\ UNCHANGED <<age, cursor, progress, routing, arq, attempt, req>>

CronEnd ==
  /\ cron.pc = "scan" /\ cron.todo = {}
  /\ cron' = CronIdle
  /\ UNCHANGED <<table, routing, arq, attempt, req>>

\* The worker process that runs the task dies; arq runs a cron job once only.
CronCrash ==
  /\ cron.pc \notin {"idle", "aborted", "crashed"}
  /\ cron' = [CronIdle EXCEPT !.pc = "crashed"]
  /\ UNCHANGED <<table, routing, arq, attempt, req>>

CronStep ==
  \/ CronHeal \/ CronInsert \/ CronEnqueue \/ CronEnqueueFails
  \/ CronMarkFailed \/ CronEnd \/ CronCrash
  \/ \E k \in Keys : CronCheck(k)

-----------------------------------------------------------------------------
(* Arq, external: at-least-once delivery, one attempt of a job at a time *)

\* The attempt ends at pc; its local variables go with it.
Leave(j, pc) ==
  /\ wpc' = [wpc EXCEPT ![j] = pc]
  /\ pos' = [pos EXCEPT ![j] = 1]
  /\ total' = [total EXCEPT ![j] = 0]

Over(j) == Leave(j, "idle") /\ elapsed' = [elapsed EXCEPT ![j] = 0]

PickUp(j) ==
  /\ broker[j] = "queued" /\ tries[j] < MaxTries
  /\ Cardinality({i \in Jobs : wpc[i] \in Active}) < MaxJobs
  /\ broker' = [broker EXCEPT ![j] = "inprogress"]
  /\ tries' = [tries EXCEPT ![j] = @ + 1]
  /\ wpc' = [wpc EXCEPT ![j] = "picked"]
  /\ elapsed' = [elapsed EXCEPT ![j] = 0]
  /\ UNCHANGED <<table, routing, pos, total, req, cron>>

\* More than max_tries: arq drops the job without running it.
GiveUp(j) ==
  /\ broker[j] = "queued" /\ tries[j] = MaxTries
  /\ broker' = [broker EXCEPT ![j] = "none"]
  /\ UNCHANGED <<table, routing, tries, attempt, req, cron>>

\* Redis restarts without the entry.
QueueLost(j) ==
  /\ broker[j] = "queued"
  /\ broker' = [broker EXCEPT ![j] = "none"]
  /\ UNCHANGED <<table, routing, tries, attempt, req, cron>>

\* The task returned or raised: arq records the result and removes the entry.
Acknowledge(j) ==
  /\ wpc[j] = "returning"
  /\ Over(j)
  /\ broker' = [broker EXCEPT ![j] = "none"]
  /\ UNCHANGED <<table, routing, tries, req, cron>>

\* job_timeout: the task is cancelled and the job is not retried.
\* CancelledError is not an Exception, so the except branch does not run.
TimeOut(j) ==
  /\ wpc[j] \in Active /\ elapsed[j] = JobTimeout
  /\ Over(j)
  /\ broker' = [broker EXCEPT ![j] = "none"]
  /\ UNCHANGED <<table, routing, tries, req, cron>>

\* Worker shutdown cancels the task and leaves the job in the queue.
Shutdown(j) ==
  /\ wpc[j] \in Active
  /\ Over(j)
  /\ broker' = [broker EXCEPT ![j] = "queued"]
  /\ UNCHANGED <<table, routing, tries, req, cron>>

WorkerCrash(j) ==
  /\ wpc[j] \in Active \cup {"returning"}
  /\ Leave(j, "dead")
  /\ UNCHANGED <<table, routing, arq, elapsed, req, cron>>

\* The in-progress key of the dead attempt expires.
Redeliver(j) ==
  /\ wpc[j] = "dead" /\ elapsed[j] = JobTimeout
  /\ Over(j)
  /\ broker' = [broker EXCEPT ![j] = "queued"]
  /\ UNCHANGED <<table, routing, tries, req, cron>>

-----------------------------------------------------------------------------
(* routing_sync_for_provider *)

Goto(j, pc) == wpc' = [wpc EXCEPT ![j] = pc]

\* `if next_cursor is None: break`, else ask for the next page.
Advance(j) ==
  LET next == NextCursor(KeyOf[j], pos[j])
  IN IF next = None THEN Goto(j, "finish") /\ UNCHANGED pos
     ELSE Goto(j, "list") /\ pos' = [pos EXCEPT ![j] = next]

\* Mutants of Begin: the saved cursor is not read, or read as the last page done.
BeginAt(j, p) ==
  /\ wpc[j] = "picked"
  /\ ~Locked(j)
  /\ status' = [status EXCEPT ![j] = "running"]
  /\ pos' = [pos EXCEPT ![j] = p]
  /\ total' = [total EXCEPT ![j] = 0]
  /\ Goto(j, "list")
  /\ UNCHANGED <<age, cursor, progress, routing, arq, elapsed, req, cron>>

BeginAfresh(j) == BeginAt(j, 1)
BeginPastCursor(j) == BeginAt(j, cursor[j] + 1)

\* Phase 1: read the cursor, mark running whatever the status was, load the
\* credentials, commit.
Begin(j) ==
  /\ wpc[j] = "picked"
  /\ ~Locked(j)
  /\ status' = [status EXCEPT ![j] = "running"]
  /\ pos' = [pos EXCEPT ![j] = IF cursor[j] = None THEN 1 ELSE cursor[j]]
  /\ total' = [total EXCEPT ![j] = 0]
  /\ Goto(j, "list")
  /\ UNCHANGED <<age, cursor, progress, routing, arq, elapsed, req, cron>>

\* An await of the task raises: no credentials, provider error, lost database.
\* Nothing of the step's transaction is kept.
Raise(j) ==
  /\ wpc[j] \in {"picked", "list", "save", "finish"}
  /\ Leave(j, "failing")
  /\ UNCHANGED <<table, routing, arq, elapsed, req, cron>>

\* Mutant of ListPage: a page without rows ends the crawl.
ListPageStopsWhenEmpty(j) ==
  /\ wpc[j] = "list"
  /\ Goto(j, IF Listing[KeyOf[j]][pos[j]] = {} THEN "finish" ELSE "save")
  /\ UNCHANGED <<table, routing, arq, pos, total, elapsed, req, cron>>

\* Mutant of ListPage: the cursor is saved before the page is.
ListPageSavesCursor(j) ==
  /\ wpc[j] = "list"
  /\ cursor' = [cursor EXCEPT ![j] = NextCursor(KeyOf[j], pos[j])]
  /\ IF Listing[KeyOf[j]][pos[j]] = {} THEN Advance(j)
     ELSE Goto(j, "save") /\ UNCHANGED pos
  /\ UNCHANGED <<status, age, progress, routing, arq, total, elapsed, req, cron>>

\* list_subscriptions answers; a page without rows writes nothing.
ListPage(j) ==
  /\ wpc[j] = "list"
  /\ IF Listing[KeyOf[j]][pos[j]] = {} THEN Advance(j)
     ELSE Goto(j, "save") /\ UNCHANGED pos
  /\ UNCHANGED <<table, routing, arq, total, elapsed, req, cron>>

\* Mutant of SavePage: the page replaces what was known of the key.
SavePageReplaces(j) ==
  LET k == KeyOf[j]
      page == Listing[k][pos[j]]
  IN /\ wpc[j] = "save"
     /\ ~Locked(j)
     /\ routing' = [s \in Sims |-> IF s \in page THEN k
                                   ELSE IF routing[s] = k THEN NoKey
                                   ELSE routing[s]]
     /\ cursor' = [cursor EXCEPT ![j] = NextCursor(k, pos[j])]
     /\ Advance(j)
     /\ UNCHANGED <<status, age, progress, arq, total, elapsed, req, cron>>

\* Upsert the page and persist progress and cursor in one transaction.
SavePage(j) ==
  LET page == Listing[KeyOf[j]][pos[j]]
      done == total[j] + Cardinality(page)
  IN /\ wpc[j] = "save"
     /\ ~Locked(j)
     /\ routing' = [s \in Sims |-> IF s \in page THEN KeyOf[j] ELSE routing[s]]
     /\ total' = [total EXCEPT ![j] = done]
     /\ progress' = [progress EXCEPT ![j] = done]
     /\ cursor' = [cursor EXCEPT ![j] = NextCursor(KeyOf[j], pos[j])]
     /\ Advance(j)
     /\ UNCHANGED <<status, age, arq, elapsed, req, cron>>

Finish(j) ==
  /\ wpc[j] = "finish"
  /\ ~Locked(j)
  /\ status' = [status EXCEPT ![j] = "done"]
  /\ progress' = [progress EXCEPT ![j] = total[j]]
  /\ cursor' = [cursor EXCEPT ![j] = None]
  /\ Leave(j, "returning")
  /\ UNCHANGED <<age, routing, arq, elapsed, req, cron>>

\* _persist_job_failure, whose own failure is logged and swallowed.
PersistFailure(j) ==
  /\ wpc[j] = "failing"
  /\ \/ ~Locked(j) /\ status' = [status EXCEPT ![j] = "failed"]
     \/ UNCHANGED status
  /\ Leave(j, "returning")
  /\ UNCHANGED <<age, cursor, progress, routing, arq, elapsed, req, cron>>

TaskStep(j) == Begin(j) \/ ListPage(j) \/ SavePage(j) \/ Finish(j)
                 \/ PersistFailure(j)

ArqStep(j) == PickUp(j) \/ GiveUp(j) \/ Acknowledge(j) \/ TimeOut(j)
                \/ Redeliver(j)

Fault(j) == Raise(j) \/ QueueLost(j) \/ Shutdown(j) \/ WorkerCrash(j)

-----------------------------------------------------------------------------
Plus1(n, max) == IF n < max THEN n + 1 ELSE n

\* No attempt outlives job_timeout.
Tick ==
  /\ \A j \in Jobs : wpc[j] \in Active => elapsed[j] < JobTimeout
  /\ age' = [j \in Jobs |-> IF status[j] = "absent" THEN age[j]
                            ELSE Plus1(age[j], StaleCutoff + 1)]
  /\ elapsed' = [j \in Jobs |->
                   IF wpc[j] \in Active \cup {"dead"}
                   THEN Plus1(elapsed[j], JobTimeout) ELSE elapsed[j]]
  /\ UNCHANGED <<status, cursor, progress, routing, arq, wpc, pos, total,
                 req, cron>>

Next ==
  \/ \E r \in Requests, k \in Keys : TriggerGuard(r, k)
  \/ \E r \in Requests : TriggerStep(r)
  \/ CronStart \/ CronStep
  \/ \E j \in Jobs : TaskStep(j) \/ ArqStep(j) \/ Fault(j)
  \/ Tick

Spec == Init /\ [][Next]_vars

(***************************************************************************)
(* Fairness.  Requests end, one way or the other; a worker process exists  *)
(* and arq polls; time passes; the cron fires every night, and from some   *)
(* night on it is not killed half-way.  A waiter for a row lock is served, *)
(* hence strong fairness of the heal.  Nothing is assumed of the provider: *)
(* listing a page may take for ever.                                       *)
(***************************************************************************)
Fairness ==
  /\ \A r \in Requests : WF_vars(TriggerStep(r))
  /\ WF_vars(CronStart) /\ WF_vars(CronStep) /\ SF_vars(CronHeal)
  /\ <>[][~CronCrash]_vars
  /\ \A j \in Jobs : WF_vars(ArqStep(j))
  /\ WF_vars(Tick)

FairSpec == Spec /\ Fairness

-----------------------------------------------------------------------------
(* Properties *)

\* Every SIM on the pages before p is routed to k.
RoutedBefore(k, p) ==
  \A q \in Pages(k) : q < p => \A s \in Listing[k][q] : routing[s] = k

AllRouted(k) == RoutedBefore(k, Len(Listing[k]) + 1)

\* A row that says "done" (tasks.py Mark done) is never ahead of the routing
\* map: every SIM the provider lists for the key is routed to it, whatever
\* crashes, resumes, heals and second runs the job went through.
DoneCovers == \A j \in Jobs : status[j] = "done" => AllRouted(KeyOf[j])

\* The saved cursor (tasks.py SavePage transaction) never points past a page
\* whose SIMs are not all in sim_routing_map: a resumed crawl skips nothing.
CursorSound ==
  \A j \in Jobs : cursor[j] # None =>
    cursor[j] \in Pages(KeyOf[j]) /\ RoutedBefore(KeyOf[j], cursor[j])

\* What an attempt knows (tasks.py page loop): the pages before the one it asks
\* for are routed, and it is never behind the cursor saved in its row; when it
\* has run out of pages, all of them are.
AttemptSound ==
  \A j \in Jobs :
    /\ wpc[j] \in {"list", "save"} =>
         /\ pos[j] \in Pages(KeyOf[j]) /\ RoutedBefore(KeyOf[j], pos[j])
         /\ cursor[j] = None \/ cursor[j] <= pos[j]
    /\ wpc[j] = "finish" => AllRouted(KeyOf[j])

\* Arq only ever holds jobs whose row is committed: the task's scalar_one()
\* on its own row (tasks.py phase 1) cannot fail.
QueuedHasRow ==
  \A j \in Jobs : broker[j] # "none" => status[j] # "absent"

\* The resumability cursor of a row (migration 008) only moves forward, or is
\* cleared when there is no next page; a redelivered job never rewinds it.
CursorOnlyAdvances ==
  [][\A j \in Jobs : cursor'[j] = None \/ cursor'[j] >= cursor[j]]_vars

Orphan(j) == status[j] = "pending" /\ broker[j] = "none"
EndsNormally(from, to) == from \in {"enqueue", "mark"} /\ to \in {"idle", "scan"}

\* A trigger or cron iteration that ends normally never leaves its row pending
\* with nothing in the queue (the except branches of router.py and tasks.py).
NoOrphanLeft ==
  [][\A j \in Jobs :
       (\/ cron.job = j /\ EndsNormally(cron.pc, cron'.pc)
        \/ \E r \in Requests : /\ req[r].job = j
                               /\ EndsNormally(req[r].pc, req'[r].pc))
       => ~Orphan(j)']_vars

\* The self-heal does what it is for: no row stays in flight for ever, whatever
\* died, timed out, was lost by Redis or never reached it.
InFlightResolves ==
  \A j \in Jobs : status[j] \in InFlight ~> status[j] \notin InFlight

\* What arq may still do with a job: deliver it MaxTries times, and for each
\* delivery take it out of the queue, run it, and put it back.
ToBeQueued(j) ==
  \/ status[j] = "absent"
  \/ cron.pc = "enqueue" /\ cron.job = j
  \/ \E r \in Requests : req[r].pc = "enqueue" /\ req[r].job = j

Deliveries(j) ==
  IF ToBeQueued(j) THEN 3 * MaxTries + 2
  ELSE 3 * (MaxTries - tries[j])
         + [none |-> 0, queued |-> 1, inprogress |-> 2][broker[j]]

\* A job reaches the queue once, and comes back to it for MaxTries deliveries at
\* most, whoever crashes, is shut down or times out (worker.py max_tries): no trigger,
\* cron or redelivery starts a job over, so each has finitely many attempts.
DeliveriesRunOut ==
  [][\A j \in Jobs :
       /\ Deliveries(j)' <= Deliveries(j)
       /\ broker'[j] # broker[j] => Deliveries(j)' < Deliveries(j)]_vars

\* What the crawl promises, step by step: see SyncContract.
Contract == INSTANCE SyncContract
              WITH Keys <- Keys, Jobs <- Jobs, KeyOf <- KeyOf, Sims <- Sims,
                   Listing <- Listing, NoKey <- NoKey,
                   status <- status, routing <- routing
ImplementsContract == Contract!Spec
=============================================================================
