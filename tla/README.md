# Verification of app-suscriptions-back

TLA+ models of the SIM subscription backend in `src/`, the TLC configurations
that check them, and theorems about them checked by TLAPS. The models are
translated from the Python source; where a comment, an ADR or a migration says
something else, the model follows the code, and either a run exhibits the
disagreement or this file lists it.

1. [The system](#1-the-system)
2. [Modules](#2-modules)
3. [Runs](#3-runs)
4. [Proofs](#4-proofs)
5. [Disagreements with the documentation](#5-disagreements-with-the-documentation)
6. [Not modelled](#6-not-modelled)
7. [Plan](#7-plan)

## 1. The system

A FastAPI application (one event loop per process) and an arq worker (another
process) share PostgreSQL and Redis, and call three SIM providers: Tele2 (REST,
rate limited), Kite (SOAP) and Moabits (REST, cached token). A tenant (company)
has credentials per provider; a SIM (ICCID) belongs to one provider, remembered
in `sim_routing_map`.

| component | state | operations | what is hard | what makes it correct |
| --- | --- | --- | --- | --- |
| Routing synchronisation (`app/sync`) | `sync_jobs` rows, `sim_routing_map`, the arq queue | trigger (`POST /v1/sync/...`), nightly cron, crawl task, self-heal | check-then-insert, commit then enqueue, at-least-once delivery, timeouts, worker and Redis failures | done means covered; a saved cursor skips nothing; no row stays in flight; nothing is queued without a row |
| Idempotent writes (`subscriptions/routers/sims.py`, `services/idempotency.py`) | `idempotency_keys`, `lifecycle_change_audit`, the provider | claim, provider call, release, audit, mark, replay | concurrent retries, lost answers, database failures between transactions, cancellation, crash | one handler at a time per key, no second accepted write, truthful first answer |
| Circuit breaker (`shared/resilience.py`) | state, failure times, opening time | `call`, `_record_success`, `_record_failure` | calls that overlap openings, stragglers, several probes | opens only on evidence, closes when the provider is back |
| Tele2 rate limiter (`providers/tele2/adapter.py`) | a lock, last start, backoff deadline, delay | `call`, `_record_rate_limited`, `_record_success` | waits computed before a sleep, cancelled waiters and holders | pace, refusals served, nobody starves |
| Tele2 crawl (same file, over the limiter) | cursor with its window, details left | `list_subscriptions` under the crawl task | a moving `now` compared with a fixed window | the crawl ends; what it can never do |
| Routing resolution (`services/routing.py`, import in `sims.py`) | routing map, prefix map, negative cache of the process | exact route, prefix, discovery, upsert, import | stale misses, answers of several providers, prefixes learned from other SIMs, row locks taken in any order | a routed SIM is found; a miss is forgotten; upserts end |
| Listings (`services/listing.py`, `cursors.py`, `provider_dispatch.py`) | the merged cursor in the client's hands | global listing, search, and both for administrators; listing of one provider; search for one ICCID | sources that fail in the middle of a walk, a limit smaller than the number of sources, page sizes that change between pages | no SIM twice; none skipped unless its provider is reported |
| Details batch (`sims.py`) | a semaphore | resolve, set up, fetch | some SIMs cannot be resolved, set up or fetched | every SIM comes back as something |
| Statistics (`services/stats.py`) | the accounts to go through | page through each | accounts that fail or are cut off | complete, or says so |
| Moabits adapter | per credential: a token and its lock, a SIM list and its lock, v2 rows, request slots | reads, writes, listing | several callers with an expired or refused token, sources that fail | one renewal serves all, writes take effect once, no failure hides an answer |
| Kite adapter (`kite/client.py`) | request slots | SOAP calls, retries of reads | overload, lost answers | a write is not repeated |
| Credentials, companies, mappings (`tenancy`) | encrypted credentials, links to Moabits companies and a cache of them, company names | patch, test, deactivate; discover, link, unlink; create, rename, delete | read, test at the provider and write back while others do | what is stored was tested, what is linked was offered |
| Authentication, users (`identity`) | users, profiles, refresh tokens | signup, login, refresh, logout; create, update, delete | SELECT then COMMIT in concurrent READ COMMITTED transactions | distinct e-mails, one token per session, edits that leave alone what they do not name |
| Normalisation, application shell | none | data mapping; wiring | nothing concurrent | |

How they interact: the trigger and the cron insert a `sync_jobs` row and queue
its id; the worker's task calls the adapter's `list_subscriptions` page by page
(Tele2: through the rate limiter and the breaker) and upserts what it finds in
`sim_routing_map`; the routers use that map to choose the provider of a read or
write, and every adapter call of a process passes that adapter's breaker.

`PROJECT.json` lists the hazards of this code, each at the line where it
bites and with the properties that cover it.

## 2. Modules

### RoutingSync, SyncContract

`RoutingSync` is the whole of `app/sync`: one variable per column of
`sync_jobs` that the code uses (`status`, `age` for `created_at`, `cursor`,
`progress`), `routing` for `sim_routing_map`, `broker` and `tries` for arq, a
program counter with its local variables for each attempt (`wpc`, `pos`,
`total`, `elapsed`), for each trigger request (`req`) and for the cron (`cron`).
One action is one transaction or one call between two awaits:

| code | actions |
| --- | --- |
| `trigger_sync` | `TriggerGuard` (heal, in-flight check), `TriggerInsert`, `TriggerEnqueue`, `TriggerEnqueueFails`, `TriggerMarkFailed` |
| `schedule_nightly_routing_sync` | `CronStart`, `CronHeal`, `CronCheck`, `CronInsert`, `CronEnqueue`, `CronEnqueueFails`, `CronMarkFailed`, `CronEnd` |
| `routing_sync_for_provider` | `Begin`, `ListPage`, `SavePage`, `Finish`, `Raise`, `PersistFailure` |
| arq (external) | `PickUp`, `GiveUp`, `Acknowledge`, `TimeOut`, `Redeliver` |
| failures (external) | `QueueLost`, `Shutdown`, `WorkerCrash`, `TriggerCrash`, `CronCrash` |

An uncommitted UPDATE of the trigger or the cron holds its row (`Locked`), so a
task that writes the same row waits, as PostgreSQL makes it wait.

Abstractions: a provider's listing is a fixed sequence of pages, each a set of
SIMs, and every SIM is in the inventory of one key; the number of a page is the
cursor; time is counted in units of which `JobTimeout` and `StaleCutoff` are
multiples; arq's job expiry is left out (it loses a job, as `QueueLost` does).

`SyncContract` is what the crawl promises to whoever reads its table: a row
becomes done only when every SIM of its key's listing is routed to the key, a row
starts as "pending" and is never "pending" again, and a SIM is only ever routed to the
key that lists it. It knows neither cursors nor attempts (`CursorSound` and
`AttemptSound` speak of those). `RoutingSync` implements it (`ImplementsContract`).

### IdempotentWrite, WriteContract

The handlers of `PUT /v1/sims/{iccid}/status` and `POST /v1/sims/{iccid}/purge`
(they are the same up to the provider operation). A request is a process; a
retry of the client is another request with the same key. `row` is the
`idempotency_keys` row, `audit` the request's audit row, `applied` and
`accepted` what the provider did and what it answered. `owner` is a history
variable: whose INSERT made the row. The order of the code is kept: claim,
credentials (before the `try`), call, release on an exception, audit in the
`finally`, mark, reply; a database failure is possible at every await, a
cancellation during the call (a forced shutdown: the server does not cancel
handlers of clients that go away), a crash anywhere. `expires_at` is written
by the code and read by nothing, so the rows do not expire here either.

`WriteContract` is what a key promises a client that repeats its write, without
rows, audit, handlers or faults: a key is free or somebody has taken it; only the
one who has it gets to the provider, and keeps it for good once the provider has
accepted; 204 says that one's write was accepted, or that another had the key.
`ImplementsContract` maps a row that exists to "taken by its `owner`" and a request
that replays to "turned away". The contract leaves open what the code leaves open:
a request may end without an answer, or with an error that says nothing of the key.

### CircuitBreaker

One breaker and its concurrent callers. The breaker's lock is not held across
an await, so each critical section is one action: `Admit`, `Succeed`, `Fail`.
`Cancel` is a call ended by `CancelledError`, which records nothing. Time
stamps are replaced by ages that saturate one past the largest comparison.
`recent` is a history variable, the ages of the last failures whatever the
breaker did with them. The counters of `state_info` are left out.

### Tele2RateLimiter

One limiter per process (`Procs`), for one account; the calls of a process
queue for its lock (`queue`, first come first served, as `asyncio.Lock` does)
and go through the stages `queued`, `backoff`, `pacing`, `sent`. Both waits are
computed when the code computes them and slept out in `sleep`; `sinceStart`,
`backoff`, `quiet` are what has passed since the last request, what is left of
the backoff and what has passed since the last refusal. `delay` is the growing
and shrinking delay, in multiples of `Step` up to `MaxDelay`. A waiter or the
holder can be cancelled at every await.

### Tele2Crawl

The first crawl of an account, one attempt of `routing_sync_for_provider` over
`Tele2Adapter.list_subscriptions`, on top of `Tele2RateLimiter`: every page and
every detail call is a call of the limiter by `Crawler`, while the other calls
of its process go on. `age` is the time since the second in which the task
computed its window; the adapter compares whole seconds. The account (pages,
and the details to fetch after a full page) is chosen in the initial state. An
open breaker or a page that cannot be saved are `Abandoned`.

### SimListing

A client's walk over one of the four merged listings. A source is what the code
asks separately: a provider (global), a provider and a status (search), a
credential (admin), a credential and a status (adminSearch). `cursor` maps the
sources that the next request will ask to their positions, `page` is the last
answer, `got` all answers, `told` the providers named in `failed_providers`,
`routed` what was upserted into `sim_routing_map`.

| code | definitions |
| --- | --- |
| `_decode_*_cursor`, `_encode_*_cursor` | `Asked`, `Carried`, `NextCursor` |
| `_global_provider_call_limits`, nested in a search | `Share`, `SearchLimit`, `CallLimit`, `Active` |
| `list_subscriptions` of the three adapters | `PageSize`, `First`, `Listing`, `More`, `Following` |
| `_load_credentials` fails | `Accounts`, `Calls` |
| the loops over the results, `provider_statuses` | `Merged`, `Reported` |
| upserts and commit | `Aborts`, `Upserted` |
| 412, 200, no answer | `Refused`, `Delivered`, `Lost` |

A request is one action: the calls run concurrently, but nothing of theirs is
shared until all are back. Any source may fail, any account may have no
credentials, and an upsert of the global listing may fail: PostgreSQL then
refuses every later statement of the transaction and turns the commit into a
rollback, while the listing goes on. Abstractions: a source's SIMs are numbered in
its provider's order and do not change during the walk; the client sends one
limit and one set of filters, and no cursor or limit for a single provider; the
filters keep every SIM; Kite fills its batches.

### SimReads

How a request finds the provider of a SIM and what it does next. Requests of
one process are interleaved at their awaits; `routing` is `sim_routing_map` as
committed, `prefix` `sim_routing_prefix_map`, `cache` the negative cache in the order of its dict (what counts when
it is full), `known` a history variable (SIMs that have been the company's
ever since the request came).

| code | actions |
| --- | --- |
| `_resolve_routing_or_discover` | `Lookup`, `ByPrefix`, `CachedMiss`, `FanOut`, `Gathered`, `Reread` |
| `_discover_iccid_across_providers`, `import_sims`, listing of one provider | `ListProvider`, `Upsert` (one statement), `Commit`, `Fails` |
| `sync_sim_routing_prefix_map` (trigger of migration 001) | `Trigger`, after each `Upsert` |
| `_list_global_iccid_search` | `FanOut`, `Gathered`, `Upsert`, `Commit` with `search` |
| `get_sim_details_batch`, reads of one SIM | `Setup`, `Start`, `End`, `Reply` |
| `get_sim_stats`, `admin_get_sim_stats` | `StatsPageOf`, `StatsFails`, `StatsReply` |
| process, clock, outside (external) | `Restart`, `Tick`, `Recover` |

The trigger writes the row of the SIM's prefix in the same transaction: the provider
first seen with a prefix stays, later ones only count as conflicts (the counts are
left out). An upserted row, of a SIM or of a prefix, is locked until its transaction
ends (`wrote`, `touched`), other upserts of the row wait, and PostgreSQL breaks a
circle of waiters: two transactions may block each other although they have no
ICCID, and no company, in common. Abstractions: ICCIDs are
normalised; the transactions of the worker's crawl, which take the same locks, are
not among the requests (a crawl that is a deadlock's victim is `Raise` of `RoutingSync`); a provider holds a fixed set of SIMs; a listing of one provider is
one page; what a statistic counts is left out.

### ProviderCalls

The calls of one account below the Moabits and Kite adapters, interleaved at
their awaits: a Moabits request looks for a token, waits for its lock, renews
it through one of the request slots, takes a slot itself, and is sent, again
with a new token after a 401. `token`, `lists` and `v2` are the caches with the
time they have left, `issued` counts the tokens Moabits made (`MaxTokens` bounds
them), `applied` how often a write took effect at the provider. Operations:
`read` (usage, presence, messages, child companies), `sim` (detail of one SIM:
status, v2, legacy details), `list`, `write`; `kread` and `kwrite` for Kite. Moabits
and Kite share nothing and are interleaved so as to share a run. Abstractions:
one account, one page of a listing; payloads, and the breaker, which
`CircuitBreaker` models. A `read` is the first request of a `sim` and is left
out of the instance.

### Accounts, Tenancy

`Accounts` is `app/identity` and the company rows; `Tenancy` extends it with
credentials, links and discovered Moabits companies, so requests of all kinds
meet. A request is a process that authenticates, reads, checks and
commits; every SELECT and every COMMIT is an action, as each transaction is
READ COMMITTED and takes no lock before it writes. SQLAlchemy decides what a COMMIT
writes: an UPDATE names the columns that differ from what was read and fails if
its row is gone; a DELETE of a row that is gone goes through; the inserts of a
flush come in an order the foreign keys allow, so a transaction is checked as a
whole. `Admissible` is what the unique and foreign keys of the migrations let
through, `Cascade` and `CascadeTenancy` what ON DELETE CASCADE takes along.

| code | definitions |
| --- | --- |
| `dependencies.py`, `require_roles`, early 403s | `Authenticate`, `Callers`, `TCallers`, `Admits` |
| `auth.py` | `Login`, `FindToken`, `Refresh`, `Logout`, `CheckNewUser`, `NewUser` |
| `users.py`, `me.py` | `CheckNewUser`, `NewUser`, `FindUser`, `CheckUpdate`, `UpdateUser`, `DeleteUser` |
| `companies.py` | `CheckName`, `NewCompany`, `Rename`, `FindPeople`, `DeleteCompany`; `NeedCredential`, `Fetch`, `ReadCache`, `CacheSources`, `MayLink`, `ReadLink`, `StoreLink` |
| `credentials.py` | `MayPatch`, `Merge`, `Test`, `Reread`, `StoreCredential`, `Deactivate` |

Histories: `used` (identifiers, which are random in the code, are never used
twice), `shared` and `ended` (sessions two requests of which used one token;
sessions logged out of), `passed` (tested credentials), `offered` (codes Moabits
showed to whom). A user and its profile are one row. Passwords, full names,
account scopes, settings, profiles without a company, the probe of a stored
credential and the listings are left out.

### MC modules

The `MC` modules define the functions that a `.cfg` cannot write (which job has
which key, what a listing holds, the order of the sources, who asks what) and
nothing else.

## 3. Runs

| run | question | bounds |
| --- | --- | --- |
| `RoutingSync_crawl` | Do the cursor and the done status ever run ahead of the routing map? Is anything queued without a row, rewound, or delivered without end? Does the crawl implement `SyncContract`? | one key, one row, four pages one of which is empty, three deliveries: a crash or timeout at every page and a resume after each |
| `RoutingSync_live` | Does every row leave pending and running? Is a row left behind without a job? | two rows of one key, made by the race of trigger and cron, crawled at once, so that the heal competes with the attempts |
| `IdempotentWrite_safety` | Is a key's write accepted once and answered truthfully? Do the handlers implement `WriteContract`? | three requests with one key, one with another |
| `IdempotentWrite_replay` | see section 5 | two requests, no database failure, cancellation or crash |
| `CircuitBreaker_calls` | Does the breaker open only on evidence and close when the provider is back? | threshold three with three callers, so stragglers outlast an opening; a window longer than the open period |
| `Tele2Crawl_first` | Are requests paced and refusals served, does every call return, does a crawl end? | up to three pages and one detail, two ticks a second, two other callers of the same limiter; the delay reaches its cap in two steps |
| `Tele2Crawl_year` | see section 5 | two pages, one detail, the same two callers |
| `SimListing_walk` | Does a walk end, without repeating a SIM or skipping one unreported? | three sources for each endpoint, up to three SIMs each, a limit below and one above the number of sources, a Tele2 page cap below the limit |
| `SimListing_silent` | see section 5 | the global listing |
| `SimReads_requests` | Is a routed SIM found, a batch accounted for, a search or statistic whole or honest, the cache bounded, a miss forgotten, and does every transaction end? | two requests at once, two companies, two providers, three SIMs two of which share a prefix, no prefix known at first; a cache of one entry, so that two misses compete for it; imports and listings in opposite orders, so that they deadlock, also over SIMs that only have the prefix in common; an import that gives a prefix a second provider; a statistic of as many SIMs as its pages hold |
| `ProviderCalls_shared` | Does a write take effect once, is a token renewed once and forward, is an answer made of answers, does every call end? | two calls over a single slot, two tokens, any expiry; two attempts at Kite |
| `Tenancy_requests` | Do users stay distinct, sessions single, edits confined to what they name; was what is stored tested, what is linked offered? | two requests of any of 24 kinds by four users of two companies, and a third that deletes the company, exchanges a new token or patches credentials |

Why the bounds are enough. The code treats keys, SIMs, requests and pages
alike, and each property talks about one key, or about one and another: two
rows of a key are what the check-then-insert race needs, three tries of a write
are a claim, a retry that claims again after a release, and a replay. Pages:
first, middle, empty and last. Sources: shares with and without the remainder, a
share of zero, two sources of one provider. Requests: the races here are a read
of one and a write of another, which two requests show; the third of
`Tenancy_requests` is there for the chains (a token used again after it was
exchanged, a row that goes while it is patched). Time constants only matter by
their order; `RoutingSync_live` lets the heal come as early as a time-out (the code
waits twice as long, counted from the insert), which the properties do not
depend on. Deadlock is checked
everywhere but in the runs of `IdempotentWrite` and `Tenancy`, where the system
stops when every request has been answered, and of `SimListing`, where the walk
ends. Tries of one key (`TrySymmetry`) are interchangeable; no temporal run uses
symmetry for liveness.

Fairness:

- `RoutingSync!FairSpec`: handlers run (weak fairness of the trigger's and the
  cron's steps), a worker polls, arq enforces `job_timeout` and expiry of the
  in-progress key, time passes, the cron fires every night and from some night
  on is not killed half-way; the heal waits for a row lock and PostgreSQL serves
  it (strong fairness). Nothing is assumed of the provider: a page may never
  come, and the timeout ends the attempt.
- `CircuitBreaker!FairSpec`: callers keep coming, none is cancelled for ever
  (every HTTP call has a timeout), time passes, and the provider has stopped
  failing from some moment on, without which nothing could be claimed.
- `Tele2RateLimiter!FairSpec`, `Tele2Crawl!FairCrawlSpec`: time passes, the
  event loop runs what is ready, the lock is first come first served, and an
  HTTP call returns or times out. Refusals are not bounded.
- `SimReads!FairSpec`: the event loop runs what is ready, row locks are served
  first come, first served, deadlocks are broken, clients keep asking for what
  they asked for, and from some moment on (`Recover`) nothing fails, without
  which no SIM need ever be found.
- `ProviderCalls!FairSpec`: asyncio's locks and semaphores serve first come,
  first served, and every request returns or times out. Nothing is assumed of what
  it returns.
- `SimListing!FairSpec`: the client keeps asking, and again and again there is a
  request that no source fails. A global listing that has nothing to show and a
  failure to report answers 412 with no cursor, so a source that fails for ever
  can hold up a walk for ever.

Every property of a passing run has a mutant in `PROJECT.json`: a bug of the
code (a guard dropped, a reset forgotten, a write moved) written beside the
definition it changes, under which the run finds the property violated.

## 4. Proofs

The `_proofs` modules prove, for all values of the constants, what the runs show
on small instances: every invariant and every action property of a passing run,
the refinements, and the type invariants. Each module has one inductive invariant,
`IInv` (in `Tele2Crawl_proofs` one for the limiter, one for the crawl), a lemma
for each action, and theorems that follow. `PROJECT.json` lists the theorems with
the properties they establish.

**RoutingSync_proofs.** `DoneIsCovered`, `CursorIsSound`, `AttemptIsSound`,
`QueuedJobsHaveRows`, `CursorsOnlyAdvance`, `NoOrphansAreLeft`,
`DeliveriesAreFinite`, `Refinement` (of SyncContract). Assumed: each job has a key, SIMs of a listing belong to one key.
`DoneCovers` is not inductive: an attempt about to write "done" must know that it
has seen every page, which it knows from the page it asks for next, which it took
from the cursor of its row. So the invariant joins `CursorSound` (rows),
`AttemptSound` (attempts) and `QueuedHasRow`, and the routing map only grows towards
a key's own SIMs. A cursor is never rewound because an attempt is never behind its
own row and no two attempts share a row. The theorems cover two attempts of one key
at once with any pages, which no run has. A trigger or cron
iteration ends normally only by a step that has just queued its job or failed its
row (`TriggerEnds`, `CronEnds`). `DeliveriesRunOut` is the half of
`InFlightResolves` that needs no ENABLED: `Deliveries` counts what arq may still do
with a job, never grows, and falls whenever its queue entry changes. The invariant
(`QueueInv`) is that an identifier is drawn by one trigger or cron, who has it alone
until it is queued; once it has been queued or dropped nobody draws it again, and an
attempt is alive exactly while its entry says "inprogress". So a row's attempts end,
and only the heal, which needs the row to age, is left to resolve it.

**IdempotentWrite_proofs.** `HeldAlone`, `AcceptedOnlyOnce`,
`FirstAnswersAreTrue`, `Refinement` (of WriteContract). The invariant adds to the
properties what the owner of a row tells: an accepted key keeps a row that is not
absent, and a row that is there keeps others from claiming it. The refinement goes
action by action (`ClaimImplements`, `HandleImplements`, `FaultImplements`) and
needs two more facts (`Begun`): a row has an owner, and the owner is past its claim,
so a request that finds its key taken finds it taken by another; and nothing is
audited before the end, so nobody counts as turned away who was not. The step that
could break the contract is the release: its DELETE may only give up a key with
which nothing was accepted, which the invariant says of a handler that got there.

**CircuitBreaker_proofs.** `DequeBounded`, `OpeningNeedsEvidence`. The deque is a
suffix of `recent`, with at most the window between its ends, so a full deque is
`Threshold` recent failures. `DequeBounded` (the deque stays below the threshold, in
order) is a part of that invariant and not run by itself.

**Tele2Crawl_proofs** proves about the limiter and about the crawl over it. Limiter:
`LockStaysSound`, `RequestsArePaced`, `RefusalsAreServed`. The invariant
(`SleepsCover`) says that what the holder of the lock still has to sleep, together
with what has passed, covers what is owed: while one call holds the lock no other can
move the last start, and a refusal comes from the holder itself, or before it.
Crawl: `WideCrawlIsNeverDone`. After n details of the first page, n intervals have
passed since the window was computed (`OnSchedule`), which uses `SleepsCover`. So
with details that take a second together, the window is too old when page two is due.

**SimListing_proofs.** `NoRepeats`, `WalksCover`, `ShownAreRouted`,
`PagesWithinLimit`, `WalksAdvance`. Assumed: the sources of an endpoint are finitely many, and the
code goes through them one after the other (`Order` tells them apart).
`NothingTwice` is not inductive, and for Tele2 not obvious: a page number stands for
a different SIM whenever the page size changes. The invariant (`Behind`) says that
what was got lies before page number times the size the page would have if all
sources left were called. It holds because a share never shrinks when sources leave
or a place moves forward (`ShareGrows`, an argument about quotients and remainders;
`LimitGrows` for the nested shares of a search), and calling fewer sources than all
only makes a page larger. `WithinLimit` bounds the sum of the pages. Instead of
adding, the proof deals: the k-th SIM of the source in place p, of n sources, is
card k * n + p, which is below the limit if k is below the share (`Dealt`), and no
two SIMs are one card (`DealtOnce`). So an answer has no more SIMs than the limit.
`WalkAdvances` is why a walk ends, as far as it can be said without ENABLED: what is
left of a source (`Left`) never grows, whatever fails, is lost or is refused, and a
request that nothing fails makes it smaller for some source. That needs one source
to get a share however many there are, which is the first in `Order`
(`OneIsFirst`, a minimal element by the well-foundedness of inclusion), and a
position to stay within the listing (`InReach`). With the fairness of `FairSpec` the
sum of what is left can only fall so often: `WalkEnds`, which TLC checks.

**Tenancy_proofs** is about `Accounts` and `Tenancy` together: `AddressesDistinct`,
`SessionsHaveOneToken`, `StoredPassed`, `EditsAreNamed`, `LinksWereOffered`.
Assumed: requests are ones the schemas accept (`Askable`, `TAskable`), and the
rows at the start were taken by PostgreSQL and by the code's own checks
(`SeedAssumption`). A request acts on what it read some awaits ago. `Knows(r)`
says what of that is still so when it writes, and it is part of the invariant: the
address it found free is free but for rows that have it normalised, its token is
gone or as it was, what it carries from its live test has passed. Each commit
moves the rows in a way that no other request's knowledge minds (`AccountsMoved`,
`TenancyMoved`): identifiers do not come back, an address that is not normal only
disappears, what was tested or offered stays so. Two requests that both found an
address free are kept apart by the index, because both store it normalised. A
session has more than one token only if two requests read the same one.

**ProviderCalls_proofs.** `WritesHappenOnce`, `AnswersHaveSources`,
`TokensAdvance`, `RenewalsAreDue`. `Fine` is what is true of one call by itself
(which operation makes which requests, what it has heard, that nothing has taken
effect as long as it goes on), and gives the first two. What calls share is in
three parts: each lock has one holder (`Alone`), the token on its way to the cache
is the last one issued (`Ranked`), and what a holder of a lock found out of date stays
so until it is renewed (`Stale`), since nobody else renews and time only ages.

**SimReads_proofs.** `RoutedAreFound`, `BatchesAccounted`, `WholeOrToldAlways`,
`CacheStaysBounded`. Assumed: a search asks for one ICCID. `Fine` says of each
request where its SIMs are: a SIM it was asked for is still to do or has a verdict;
a search has asked all providers before it says "listed"; an account of a statistic
is still to do, counted or named. `Relied` says that what a request may rely on is
routed to its company and not missed; a commit of another company takes SIMs away
from it, and `known` with them. `RoutedIsFound` depends on the order of the code: the
exact route comes before the cache, so what was recorded as a miss does not
matter. Of the negative cache: to record in a full cache first makes room, and
forgetting or expiry only select entries.

That last fact is about `Only(s, at)`, a recursive function, for sequences of any
length. The library's induction theorems take an operator as a parameter and cannot
be used, but two others lead to the same end: the finite sets of naturals are
well-founded by strict inclusion, so each set of naturals has a least element
(`LeastNatural`), so a shortest counterexample can be refuted (`SelectionExists`,
`OnlyIs`). This is also why the model selects with `Only`: of `SelectSeq`, whose
definition the prover has not, nothing can be shown.

The type invariants (`TypeOK`, `TTypeOK`, `CrawlTypeOK`, `LockIsSound` of the
limiter), `FailuresBounded` and `WalkAdvances` are among the
proved theorems rather than the runs' properties.

Only model-checked: what holds under fairness (`InFlightResolves`,
`HealsWithProvider`, `CallsEnd` of `Tele2Crawl` and of `ProviderCalls`,
`CrawlEnds`, `WalkEnds`, `HeldIsResolved`, `RequestsEnd`), because the prover does
not handle ENABLED. The properties of the runs that expect a violation are refuted,
and nothing is proved of them.

## 5. Disagreements with the documentation

Exhibited by a run (its counterexample is the story; `PROJECT.json` quotes the
lines):

- `Tele2Crawl_year`: `tasks.py:113` says the first run covers the last year. The
  window it computes, 365 days back, is compared with now again at every page
  (`tele2/adapter.py:891`), and refused as soon as a second has passed. An account of
  two pages whose details take a second is never crawled to its end:
  `WideCrawlIsNeverDone`, a theorem.
- `IdempotentWrite_replay`: a first try that fails for lack of credentials
  keeps its key, and its retry is answered 204.
- `SimListing_silent`: Tele2 is paged by page number, with a page size that is its
  share of the limit. When another provider runs out the share grows, and the next
  page starts after SIMs that no page has held. Nothing reports them.

Met while modelling, not kept as runs of their own:

- `tasks.py:204` says the nightly cron creates jobs for every active credential. Two
  triggers of one key that overlap leave it two rows in flight (`router.py:83`,
  `router.py:108`). If the cron comes within the next two hours its heal
  (`tasks.py:224`) finds them too young, the check raises MultipleResultsFound
  outside any `try` (`tasks.py:258`), and the keys that follow get no job that night.
  Rows of an earlier night are too old for that: the heal fails them first.
- `sims.py:279` says the administrator's listing goes across all active
  credentials. With fewer SIMs in the limit than credentials, those left without a
  share have a cursor of None, which `encode_cursor` drops (`listing.py:869`,
  `cursors.py:11`); the search leaves them out at once (`listing.py:1071`). They are
  never asked, and their provider says ok. `Reliable` in `SimListing` is the
  condition under which a walk can be relied on.
- Also there, once one credential of a provider has run out, a failure of another is
  not reported: the provider's status was set to not_queried (`listing.py:800`).
- `router.py:46` says a job of two hours can never still run; the two hours count
  from the insert (`router.py:77`), so a job that waited or was redelivered is
  healed while its attempt is alive. `RoutingSync_crawl` includes such heals.
- `resilience.py:6` and ADR-005:52 say one probe is let through half open; every
  caller that finds the breaker half open is (`resilience.py:94`).
- ADR-012:53 says trigger and cron refuse a key with a job pending or running;
  the check (`router.py:83`) and the insert (`router.py:108`) are not atomic, so
  two rows of a key can be in flight. The theorems of `RoutingSync_proofs` show
  this does no harm to the table; what it may do to a night is said above.
- `tasks.py:66` says a task ends by marking its row done or failed; the write of
  the failure may itself fail and is swallowed (`tasks.py:45`). The heal resolves it.
- `008_sync_jobs.sql:25` says progress is how many ICCIDs were processed; a
  resumed attempt counts from zero (`tasks.py:87`) and overwrites a larger number.
- ADR-012:52 asks for one worker per provider; `max_jobs` (`worker.py:108`) is the
  only limit.
- ADR-012:51 says the next sync starts from the saved cursor; a new row starts
  with none (`tasks.py:93`), only a redelivery of the same row resumes.
- `005_lifecycle_change_audit.sql:7` says every attempt is recorded; one that
  fails while loading credentials is not (`sims.py:787`).
- `nfr-analysis.md:36` says the key prevents double execution; an answer that is
  lost after the provider applied the write releases the key (`sims.py:808`).
- A cancelled write is audited with the outcome the variable was initialised to,
  "success" (`sims.py:791`).
- ADR-007:133 gives keys 24 hours; nothing reads `expires_at` (`idempotency.py:40`).
- `resilience.py:6` says the probe decides, and `:11` that the open period is
  fixed; a straggler admitted before the breaker opened decides as well, and
  enough stragglers restart the period.
- ADR-012:54 says API and worker share the provider budget; each process has a
  limiter of its own (`tele2/adapter.py:456`).

Found in the modules of section 2 that no document speaks of, or only in passing:

- Resolution. A lookup in which every provider failed is remembered as a miss for a
  minute, and its 404 says "not found in any registered provider"
  (`routing.py:266`, `routing.py:125`). ADR-002:27 says the first positive answer
  fills the routing map; every positive answer is upserted, so the last one stays
  (`routing.py:227`), while what is returned is the first. The docstring at
  `routing.py:245` says a SIM is not found when no provider claims it; but every
  upsert, of any company, also teaches the prefix of the SIM
  (`001_sim_routing_map.sql:193`), and from then on SIMs with that prefix go to the
  provider it was first seen with and are never discovered (`routing.py:253`): one
  that another provider holds, under the same six digits, is 404 there until it is
  listed or imported. So `HeldIsResolved` promises a route, of its own or by prefix,
  and no more. The map has one row per
  ICCID whoever owns it: an import by another company takes the SIM, and the
  docstring at `sims.py:918` says it "updates last_seen_at only" (`routing.py:148`
  sets provider and company).
- Moabits. The docstring of `_v2_check` (`adapter.py:539`) calls a 401 of the v2 API
  fatal; its caller (`adapter.py:725`) and ADR-011:61 degrade it to missing fields,
  and so does the model. After a 401 every caller renews the token by itself, one after the
  other (`adapter.py:281`: a forced refresh does not look at the cache again);
  `RenewedWhenStale` leaves these out. The detail of a SIM that Moabits does not
  know is an answer with status unknown if one of its requests succeeds without
  rows (`adapter.py:1120`). The v2 cache drops only what has expired, so nothing
  bounds it while rows are fresh (`adapter.py:640`).
- Kite. GAPS_AND_RISKS.md:53 says retries are not implemented; Kite's reads have
  them (`kite/client.py:496`).
- Sessions. 000_init.sql:74 says a token is rotated at every use; two refreshes that
  read it before either commits both get a new one, and a logout may leave the one
  a concurrent refresh made (`auth.py:221`, `auth.py:238`). `OneTokenPerSession`
  excludes such sessions by `shared`, and holds for all others.
- Names. "Acme" and "ACME" can both be created at once, as the index on names
  knows no case; from then on the check for that name raises
  MultipleResultsFound, 500 (`company_validation.py:26`). Two e-mails that differ in
  case cannot, since both are stored normalised.
- Users. `delete_company` lists its users and then deletes them: one moved away
  in between is deleted all the same, one added makes it fail on the foreign key
  with a 500 (`companies.py:795`). Every IntegrityError of a user's update, a
  missing company too, is answered 409 "Email already exists" (`users.py:280`).
- Credentials. Two patches at once both merge into what they read: the later one
  undoes the earlier (`credentials.py:582`). What is stored was tested as a whole
  all the same. A manager's patch of a credential that is deactivated during its live
  test inserts a new active row, though `credentials.py:654` says managers cannot
  create credentials. Concurrent first inserts of a credential, a link or a
  discovered company end in an IntegrityError that nothing catches, 500.
- Links. Two discoveries at once write what each saw against what each had read;
  the cache may then be the mixture of both (`companies.py:176`).

## 6. Not modelled

Payload mapping of the adapters (`kite/mappers.py`, the builders of the Moabits and
Tele2 adapters), schemas, field normalisation, filters and what statistics count:
data without state. Tele2's other operations: one limited call each. The cursor
of a listing of one provider is the adapter's own. Company settings, account
scopes, the validation of credentials per provider, expiry dates of API keys and
the probe of a stored credential: single reads or writes of one row, or payload.
The listings of users, companies, credentials, jobs and `GET /v1/sync/status`
only read. Wiring, configuration, logging, middleware, encryption. A nonexistent
part: the exports that `worker.py` and ADR-012 announce.

## 7. Plan

The modules came in the order of what can go wrong: the crawl, writes, breaker and
limiter; the listings; resolution and reads; the provider clients; accounts and
tenancy. All are written, and all safety properties the runs check are proved.
The safety halves of `InFlightResolves` and `WalkEnds` are proved too. What is left:

1. The same for `CrawlEnds`: that a crawl over the limiter never returns to a page or
   to a detail.
2. For `CallsEnd` of `ProviderCalls` and `RequestsEnd`: a measure of what a call may
   still do, as `Deliveries` is one of a job.
