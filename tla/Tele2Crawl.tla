------------------------------ MODULE Tele2Crawl ------------------------------
(***************************************************************************)
(* The first crawl of a Tele2 account: routing_sync_for_provider           *)
(* (app/sync/tasks.py) over Tele2Adapter.list_subscriptions                *)
(* (app/providers/tele2/adapter.py), through the rate limiter it shares    *)
(* with the other calls of its process.                                    *)
(*                                                                         *)
(* The task asks for the last 365 days, counted back from the second it    *)
(* starts in, and carries that window along in the cursor.  The adapter    *)
(* compares it with 365 days before the second it is called in.  So all    *)
(* that matters is how far the present second is from the first one: `age` *)
(* counts from the beginning of that second, in ticks.                     *)
(***************************************************************************)
EXTENDS Tele2RateLimiter

CONSTANTS
  Crawler,   \* the call slot of the crawl
  Second,    \* ticks in a second, the resolution of the window
  MaxPages,  \* bound: pages of an account
  MaxDetails \* _DETAIL_ENRICHMENT_LIMIT

ASSUME CrawlAssumption ==
  /\ Crawler \in Calls
  /\ Second \in Nat \ {0} /\ MaxPages \in Nat \ {0} /\ MaxDetails \in Nat

VARIABLES
  pc,      \* where the crawl is
  page,    \* the page in the cursor
  left,    \* detail calls still to make for the page
  age,     \* time since the second `since` was computed in, saturating
  account  \* the provider's: its pages, and the detail calls after a full one

crawl == <<pc, page, left, age, account>>

Running == {"ask", "listing", "detail", "detailing"}
Ended == {"done", "failed", "rejected"}

\* Whole seconds have passed: now - since > timedelta(days=365).
TooOld == age >= Second

Accounts == [pages : 1 .. MaxPages, details : 0 .. MaxDetails]

CrawlTypeOK ==
  /\ TypeOK
  /\ pc \in Running \cup Ended \cup {"new"}
  /\ account \in Accounts
  /\ page \in 1 .. account.pages
  /\ left \in 0 .. account.details
  /\ age \in 0 .. Second

CrawlInit ==
  /\ Init
  /\ account \in Accounts
  /\ pc = "new" /\ page = 1 /\ left = 0 /\ age = 0

\* `since` is now without its fraction, less 365 days.
Begin ==
  /\ pc = "new"
  /\ pc' = "ask"
  /\ age' \in 0 .. Second - 1
  /\ UNCHANGED <<account, page, left, vars>>

\* The window is checked, then the limiter is entered.
AskPage ==
  /\ pc = "ask"
  /\ IF TooOld THEN pc' = "rejected" /\ UNCHANGED vars
     ELSE pc' = "listing" /\ Enter(Crawler)
  /\ UNCHANGED <<account, page, left, age>>

\* After a page and its details: the next page, or no more.
Turn ==
  IF page < account.pages THEN pc' = "ask" /\ page' = page + 1
  ELSE pc' = "done" /\ UNCHANGED page

\* A page that is not the last is full; the last may have less to enrich.
Listed ==
  /\ pc = "listing" /\ Succeed(Crawler)
  /\ left' \in IF page < account.pages THEN {account.details}
               ELSE 0 .. account.details
  /\ IF left' = 0 THEN Turn ELSE pc' = "detail" /\ UNCHANGED page
  /\ UNCHANGED <<account, age>>

\* The page cannot be had: the task fails.
NotListed ==
  /\ pc = "listing" /\ (RateLimited(Crawler) \/ Fail(Crawler))
  /\ pc' = "failed"
  /\ UNCHANGED <<account, page, left, age>>

AskDetail ==
  /\ pc = "detail"
  /\ Enter(Crawler)
  /\ pc' = "detailing"
  /\ UNCHANGED <<account, page, left, age>>

\* Mutant of Detailed: a detail that cannot be had is asked for again.
DetailedOrAgain ==
  /\ pc = "detailing"
  /\ \/ Succeed(Crawler) /\ left' = left - 1
     \/ (RateLimited(Crawler) \/ Fail(Crawler)) /\ UNCHANGED left
  /\ IF left' = 0 THEN Turn ELSE pc' = "detail" /\ UNCHANGED page
  /\ UNCHANGED <<account, age>>

\* A detail that cannot be had is done without.
Detailed ==
  /\ pc = "detailing" /\ Return(Crawler)
  /\ left' = left - 1
  /\ IF left' = 0 THEN Turn ELSE pc' = "detail" /\ UNCHANGED page
  /\ UNCHANGED <<account, age>>

\* An open circuit breaker, a page that cannot be saved, an end of the task
\* between two calls.
Abandoned ==
  /\ pc = "ask"
  /\ pc' = "failed"
  /\ UNCHANGED <<account, page, left, age, vars>>

\* job_timeout or shutdown.
Interrupted ==
  /\ pc \in {"listing", "detailing"}
  /\ Cancel(Crawler)
  /\ pc' = "failed"
  /\ UNCHANGED <<account, page, left, age>>

\* What goes on in the limiter in the meantime, for the crawl and for others.
Limiter ==
  /\ \/ Acquire(Crawler) \/ Pace(Crawler) \/ Start(Crawler)
     \/ \E c \in Calls \ {Crawler} : Enter(c) \/ Proceed(c) \/ Cancel(c)
  /\ UNCHANGED crawl

CrawlTick ==
  /\ Tick
  /\ age' = Smaller(age + 1, Second)
  /\ UNCHANGED <<pc, page, left, account>>

CrawlStep ==
  Begin \/ AskPage \/ Listed \/ NotListed \/ AskDetail \/ Detailed

CrawlNext == CrawlStep \/ Abandoned \/ Interrupted \/ Limiter \/ CrawlTick

CrawlSpec == CrawlInit /\ [][CrawlNext]_<<crawl, vars>>

\* The fairness of the limiter, and a task that goes on while it can.
FairCrawlSpec ==
  /\ CrawlSpec
  /\ WF_<<crawl, vars>>(CrawlTick) /\ WF_<<crawl, vars>>(CrawlStep)
  /\ WF_<<crawl, vars>>(Limiter /\ Proceed(Crawler))
  /\ \A c \in Calls \ {Crawler} :
       WF_<<crawl, vars>>(Limiter /\ Proceed(c))

-----------------------------------------------------------------------------
(* Properties *)

\* "On first run we cover the last year" (tasks.py): the window a first run asks
\* for, and whose first page it got, is good for its other pages too (violated: the
\* adapter counts the year back from now again at every page).
FirstRunCoversYear == page > 1 => pc # "rejected"

\* A crawl ends, done or not, whatever the provider refuses and whoever else
\* is calling.
CrawlEnds == pc = "new" ~> pc \in Ended
=============================================================================
