------------------------------- MODULE SimReads -------------------------------
(***************************************************************************)
(* How a request finds the provider of a SIM, and what it then reads:      *)
(* subscriptions/services/routing.py and the handlers of                   *)
(* subscriptions/routers/sims.py that use it.                              *)
(*   get     GET  /sims/{iccid}            keeps what discovery fetched    *)
(*   read    GET  /sims/{iccid}/usage, /presence, ...   asks the provider  *)
(*   batch   POST /sims/details            many SIMs, one after the other  *)
(*   search  GET  /sims?iccid=             failures are reported           *)
(*   list    GET  /sims?provider=          upserts what it shows           *)
(*   import  POST /sims/import             upserts what it is told         *)
(*   stats   GET  /sims/stats, /admin/sims/stats    pages through accounts *)
(*                                                                         *)
(* Req is one API process's requests in progress.  An action is what runs  *)
(* between two awaits, or one statement of PostgreSQL.  ICCIDs are already *)
(* normalised.  sim_routing_map has one row per ICCID, whoever owns it; a  *)
(* trigger of migration 001 keeps sim_routing_prefix_map, one row for the  *)
(* ICCIDs of all companies that begin with the same six digits.            *)
(***************************************************************************)
EXTENDS Naturals, Sequences, FiniteSets

CONSTANTS
  Req,           \* slots for requests
  Companies,
  Iccids,
  ProviderOrder, \* Provider, in the order of its enumeration
  Accounts,      \* Accounts[c]: providers c has working credentials for
  Holds,         \* Holds[c][p]: the SIMs of that account
  Prefixes,      \* six digits
  PrefixOf,      \* PrefixOf[x]: None if x has fewer digits
  Seeded,        \* what the migration put in sim_routing_prefix_map
  Asks,          \* Asks[r]: the requests made in slot r
  Ttl,           \* _NEGATIVE_CACHE_TTL_SECONDS
  MaxEntries,    \* _NEGATIVE_CACHE_MAX_ENTRIES
  DetailLimit,   \* max_detail_concurrent_requests
  StatsPage,     \* _STATS_PAGE_LIMIT
  StatsPages,    \* _STATS_MAX_PAGES
  None

Providers == {ProviderOrder[i] : i \in DOMAIN ProviderOrder}
Sources == [company : Companies, provider : Providers]
Reads == {"get", "read", "batch"}
Ops == Reads \cup {"search", "list", "import", "stats"}

RowIn == [iccid : Iccids, provider : Providers]

\* A request: the SIMs it asks for, the providers it keeps (batch), the rows it
\* brings along (import) or is shown (list), the accounts it goes through (stats).
AskType ==
  [op : Ops, company : Companies, iccids : Seq(Iccids), only : SUBSET Providers,
   rows : Seq(RowIn), accounts : Seq(Sources)]

ASSUME ReadsAssumption ==
  /\ ProviderOrder \in Seq(Providers)
  /\ Accounts \in [Companies -> SUBSET Providers]
  /\ Holds \in [Companies -> [Providers -> SUBSET Iccids]]
  /\ \A c \in Companies, p \in Providers : IsFiniteSet(Holds[c][p])
  /\ PrefixOf \in [Iccids -> Prefixes \cup {None}]
  /\ Seeded \in [Prefixes -> Providers \cup {None}]
  /\ Asks \in [Req -> SUBSET AskType]
  /\ \A r \in Req : \A a \in Asks[r] : a.op = "search" => Len(a.iccids) = 1
  /\ Ttl \in Nat \ {0} /\ MaxEntries \in Nat \ {0} /\ DetailLimit \in Nat \ {0}
  /\ StatsPage \in Nat \ {0} /\ StatsPages \in Nat \ {0}
  /\ None \notin Providers /\ None \notin Companies /\ None \notin Iccids
  /\ None \notin Prefixes

Row == [company : Companies \cup {None}, provider : Providers \cup {None}]
NoRow == [company |-> None, provider |-> None]

Answers == {"ok", "not_found", "failed"}
Verdicts == {"none", "unresolved", "filtered", "resolved", "running", "listed"} \cup Answers

VARIABLES
  routing, \* sim_routing_map, as committed
  prefix,  \* sim_routing_prefix_map, as committed: a provider or None
  cache,   \* _iccid_negative_cache, in the order of the dict
  healthy, \* from now on providers and database answer
  req,     \* the requests' local state
  known    \* history: SIMs routed to the request's company ever since it came

vars == <<routing, prefix, cache, healthy, req, known>>

Pcs == {"idle", "lookup", "missed", "asking", "upsert", "reread", "setup",
        "fetch", "list", "stats", "done"}

\* The state of a request: the SIMs still to resolve, the first of them in hand;
\* rows to upsert, the one whose trigger has not run yet, and what has been
\* written and not committed, by ICCID and by prefix; the first match; what became
\* of each SIM and through which provider; what an answer covers and what it
\* names as failed or cut; providers that cannot be used; where a statistic is.
Local ==
  [pc : Pcs, ask : AskType \cup {None}, todo : Seq(Iccids),
   rows : Seq(RowIn), fired : RowIn \cup {None},
   wrote : [Iccids -> Providers \cup {None}],
   touched : [Prefixes -> Providers \cup {None}], first : Providers \cup {None},
   verdict : [Iccids -> Verdicts], via : [Iccids -> Providers \cup {None}],
   found : SUBSET Sources, told : SUBSET Sources, bad : SUBSET Providers,
   left : Seq(Sources), page : Nat]

Fresh ==
  [pc |-> "idle", ask |-> None, todo |-> <<>>,
   rows |-> <<>>, fired |-> None, wrote |-> [x \in Iccids |-> None],
   touched |-> [f \in Prefixes |-> None], first |-> None,
   verdict |-> [x \in Iccids |-> "none"], via |-> [x \in Iccids |-> None],
   found |-> {}, told |-> {}, bad |-> {}, left |-> <<>>, page |-> 0]

Entry == [company : Companies, iccid : Iccids, left : 0 .. Ttl]

TypeOK ==
  /\ routing \in [Iccids -> Row]
  /\ prefix \in [Prefixes -> Providers \cup {None}]
  /\ cache \in Seq(Entry)
  /\ healthy \in BOOLEAN
  /\ req \in [Req -> Local]
  /\ known \in [Req -> SUBSET Iccids]

Init ==
  /\ routing = [x \in Iccids |-> NoRow]
  /\ prefix = Seeded
  /\ cache = <<>>
  /\ healthy = FALSE
  /\ req = [r \in Req |-> Fresh]
  /\ known = [r \in Req |-> {}]

At(r, pc) == req[r].pc = pc
Op(r) == req[r].ask.op
Company(r) == req[r].ask.company
Routed(x, c) == routing[x].company = c
Account(c, p) == [company |-> c, provider |-> p]

\* Providers without an account of c fail, others until nothing fails any more.
Fail(failing, c) ==
  /\ Providers \ Accounts[c] \subseteq failing
  /\ healthy => failing \cap Accounts[c] = {}

\* r goes on with local state l.
Goes(r, l) == req' = [req EXCEPT ![r] = l]
Shared == <<routing, prefix, cache, healthy, known>>

FirstPc ==
  [op \in Ops |->
     CASE op = "import" -> "upsert" [] op = "list" -> "list" [] op = "stats" -> "stats"
       [] OTHER -> "lookup"]

Elements(s) == {s[i] : i \in DOMAIN s}

\* What s holds at the positions in at, in order.
Only(s, at) ==
  LET upto[i \in 0 .. Len(s)] ==
        IF i = 0 THEN <<>>
        ELSE IF i \in at THEN Append(upto[i - 1], s[i]) ELSE upto[i - 1]
  IN upto[Len(s)]

\* A request comes in (a batch has made its ICCIDs distinct).
Begin(r, a) ==
  /\ req[r].pc \in {"idle", "done"}
  /\ Goes(r, [Fresh EXCEPT !.pc = FirstPc[a.op], !.ask = a, !.todo = a.iccids,
                           !.rows = a.rows, !.left = a.accounts])
  /\ known' = [known EXCEPT ![r] = {x \in Elements(a.iccids) : Routed(x, a.company)}]
  /\ UNCHANGED <<routing, prefix, cache, healthy>>

-----------------------------------------------------------------------------
(* Resolution: exact route, prefix, negative cache, discovery. *)

Of(c, x, e) == e.company = c /\ e.iccid = x

\* Mutant of Hit: nothing looks at the age of an entry.
HitOfAnyAge(c, x) == \E i \in DOMAIN cache : Of(c, x, cache[i])

\* _negative_cache_hit
Hit(c, x) == \E i \in DOMAIN cache : Of(c, x, cache[i]) /\ cache[i].left > 0

\* _negative_cache_forget, and the pop of an expired entry.
Without(s, c, x) == Only(s, {i \in DOMAIN s : ~Of(c, x, s[i])})

\* What became of x is v, through provider p: the next SIM, or the answers.
Settled(l, x, v, p) ==
  [l EXCEPT !.todo = Tail(@), !.first = None, !.verdict[x] = v, !.via[x] = p,
            !.pc = IF Tail(l.todo) = <<>> THEN "setup" ELSE "lookup"]

\* A batch may keep some providers only, going by the route.
Kept(l, x, route, v, p) ==
  Settled(l, x, IF l.ask.only # {} /\ route \notin l.ask.only THEN "filtered" ELSE v, p)

\* Mutant of Lookup: the negative cache is asked first.
LookupCacheFirst(r, x) ==
  /\ At(r, "lookup")
  /\ Goes(r, IF Op(r) # "search" /\ Hit(Company(r), x)
             THEN Settled(req[r], x, "unresolved", None)
             ELSE IF Routed(x, Company(r))
             THEN Kept(req[r], x, routing[x].provider, "resolved", routing[x].provider)
             ELSE [req[r] EXCEPT !.pc = "missed"])
  /\ UNCHANGED Shared

\* _find_routing
Lookup(r, x) ==
  /\ At(r, "lookup")
  /\ Goes(r, IF Routed(x, Company(r))
             THEN Kept(req[r], x, routing[x].provider, "resolved", routing[x].provider)
             ELSE [req[r] EXCEPT !.pc = "missed"])
  /\ UNCHANGED Shared

PrefixRoute(x) == IF PrefixOf[x] = None THEN None ELSE prefix[PrefixOf[x]]

\* _find_prefix_routing
ByPrefix(r, x) ==
  /\ At(r, "missed") /\ PrefixRoute(x) # None
  /\ Goes(r, Kept(req[r], x, PrefixRoute(x), "resolved", PrefixRoute(x)))
  /\ UNCHANGED Shared

\* Missed less than a minute ago; a search does not look.
CachedMiss(r, x) ==
  /\ At(r, "missed") /\ PrefixRoute(x) = None
  /\ Op(r) # "search" /\ Hit(Company(r), x)
  /\ Goes(r, Settled(req[r], x, "unresolved", None))
  /\ UNCHANGED Shared

\* Every provider is asked (asyncio.gather).
FanOut(r, x) ==
  /\ At(r, "missed") /\ PrefixRoute(x) = None
  /\ Op(r) = "search" \/ ~Hit(Company(r), x)
  /\ cache' = IF Op(r) = "search" THEN cache ELSE Without(cache, Company(r), x)
  /\ Goes(r, [req[r] EXCEPT !.pc = "asking"])
  /\ UNCHANGED <<routing, prefix, healthy, known>>

\* Mutant of Room: only expired entries make room.
RoomOfExpired(s) ==
  IF Len(s) < MaxEntries THEN s ELSE Only(s, {i \in DOMAIN s : s[i].left > 0})

\* In a full cache expired entries make room, or else the oldest does.
Room(s) ==
  LET kept == Only(s, {i \in DOMAIN s : s[i].left > 0})
  IN IF Len(s) < MaxEntries THEN s ELSE IF Len(kept) < MaxEntries THEN kept ELSE Tail(kept)

\* _negative_cache_record; a key that is there keeps its place in the dict.
Record(c, x) ==
  LET room == Room(cache)
      new == [company |-> c, iccid |-> x, left |-> Ttl]
  IN IF \E i \in DOMAIN room : Of(c, x, room[i])
     THEN [i \in DOMAIN room |-> IF Of(c, x, room[i]) THEN new ELSE room[i]]
     ELSE Append(room, new)

\* One row to upsert for each provider that lists x, in order.
RowsOf(x, holders) ==
  LET by == Only(ProviderOrder, {i \in DOMAIN ProviderOrder : ProviderOrder[i] \in holders})
  IN [i \in DOMAIN by |-> [iccid |-> x, provider |-> by[i]]]

\* What a search will answer: who lists the SIM, who failed.
Heard(l, x, holders, failing) ==
  LET heard == [l EXCEPT !.rows = RowsOf(x, holders)]
      sources(ps) == {Account(l.ask.company, p) : p \in ps}
  IN IF l.ask.op # "search" THEN heard
     ELSE [heard EXCEPT !.found = sources(holders), !.told = sources(failing)]

\* All have answered, or have failed: for want of credentials, or in the call.  A
\* failure is a miss, a miss is recorded; a search reports the failures and
\* records nothing.
Gathered(r, x) ==
  /\ At(r, "asking")
  /\ \E failing \in SUBSET Providers :
       LET c == Company(r)
           holders == {p \in Providers \ failing : x \in Holds[c][p]}
           l == Heard(req[r], x, holders, failing)
       IN /\ Fail(failing, c)
          /\ IF holders # {}
             THEN /\ Goes(r, [l EXCEPT !.pc = "upsert", !.first = l.rows[1].provider])
                  /\ UNCHANGED cache
             ELSE IF Op(r) = "search"
             THEN Goes(r, Settled(l, x, "listed", None)) /\ UNCHANGED cache
             ELSE /\ Goes(r, Settled(l, x, "unresolved", None))
                  /\ cache' = Record(c, x)
  /\ UNCHANGED <<routing, prefix, healthy, known>>

-----------------------------------------------------------------------------
(* Upserts, in one transaction of the request's session. *)

\* The listing of one provider gives a page, or fails.
ListProvider(r) ==
  /\ At(r, "list")
  /\ \/ Goes(r, [req[r] EXCEPT !.pc = "upsert"])
     \/ ~healthy /\ Goes(r, Fresh)
  /\ UNCHANGED Shared

\* r waits for a row that s has written and not committed: one of sim_routing_map,
\* or in the trigger, with its own row locked, one of sim_routing_prefix_map.
WaitsFor(r, s) ==
  /\ r # s /\ At(r, "upsert")
  /\ IF req[r].fired = None
     THEN req[r].rows # <<>> /\ req[s].wrote[Head(req[r].rows).iccid] # None
     ELSE LET f == PrefixOf[req[r].fired.iccid]
          IN f # None /\ req[s].touched[f] # None

\* r is on a circle of waiters.
Deadlocked(r) ==
  \E S \in SUBSET Req :
    r \in S /\ \A q \in S : \E s, t \in S : WaitsFor(q, s) /\ WaitsFor(t, q)

\* _upsert_routing
Upsert(r) ==
  /\ At(r, "upsert") /\ req[r].fired = None /\ req[r].rows # <<>>
  /\ \A s \in Req : ~WaitsFor(r, s)
  /\ LET row == Head(req[r].rows)
     IN Goes(r, [req[r] EXCEPT !.rows = Tail(@), !.fired = row, !.wrote[row.iccid] = row.provider])
  /\ UNCHANGED Shared

\* sync_sim_routing_prefix_map: the first provider of a prefix stays.
Trigger(r) ==
  /\ At(r, "upsert") /\ req[r].fired # None
  /\ \A s \in Req : ~WaitsFor(r, s)
  /\ LET f == PrefixOf[req[r].fired.iccid]
         touched == IF f = None \/ req[r].touched[f] # None THEN req[r].touched
                    ELSE [req[r].touched EXCEPT ![f] = req[r].fired.provider]
     IN Goes(r, [req[r] EXCEPT !.fired = None, !.touched = touched])
  /\ UNCHANGED Shared

Committed(l) ==
  CASE l.ask.op \in Reads -> [l EXCEPT !.pc = "reread"]
    [] l.ask.op = "search" -> Settled(l, Head(l.todo), "listed", None)
    [] OTHER -> Fresh

\* The rows become r's company's, whoever's they were; a prefix that nobody has
\* routed becomes the provider's.
Commit(r) ==
  LET wrote == req[r].wrote
      touched == req[r].touched
  IN /\ At(r, "upsert") /\ req[r].rows = <<>> /\ req[r].fired = None
     /\ routing' = [x \in Iccids |-> IF wrote[x] = None THEN routing[x]
                                     ELSE Account(Company(r), wrote[x])]
     /\ prefix' = [f \in Prefixes |-> IF prefix[f] = None THEN touched[f] ELSE prefix[f]]
     /\ known' = [s \in Req |-> {x \in known[s] : wrote[x] = None \/ Company(s) = Company(r)}]
     /\ Goes(r, [Committed(req[r]) EXCEPT !.wrote = Fresh.wrote, !.touched = Fresh.touched])
     /\ UNCHANGED <<cache, healthy>>

\* Mutant of Fails: what fails is tried again, as often as it takes.
FailsAndRetries(r) ==
  /\ At(r, "upsert") /\ (Deadlocked(r) \/ ~healthy)
  /\ Goes(r, [Fresh EXCEPT !.pc = "upsert", !.ask = req[r].ask, !.todo = req[r].todo,
                           !.rows = req[r].ask.rows])
  /\ UNCHANGED Shared

\* A statement fails, or PostgreSQL ends a deadlock: 500, and a rollback.
Fails(r) ==
  /\ At(r, "upsert") /\ (Deadlocked(r) \/ ~healthy)
  /\ Goes(r, Fresh)
  /\ known' = [known EXCEPT ![r] = {}]
  /\ UNCHANGED <<routing, prefix, cache, healthy>>

\* The miss is forgotten and the row read back: another company may have taken
\* it.  What get and batch keep is the first provider's, the route the last one's.
Reread(r, x) ==
  LET c == Company(r)
      l == req[r]
  IN /\ At(r, "reread")
     /\ cache' = Without(cache, c, x)
     /\ Goes(r, IF Routed(x, c)
                THEN Kept(l, x, routing[x].provider, IF l.ask.op = "get" THEN "ok" ELSE "resolved",
                          IF l.ask.op = "read" THEN routing[x].provider ELSE l.first)
                ELSE Settled(l, x, "unresolved", None))
     /\ UNCHANGED <<routing, prefix, healthy, known>>

-----------------------------------------------------------------------------
(* Answers of the providers to which the SIMs were resolved. *)

\* Credentials are loaded once for each provider that is needed.
Setup(r) ==
  /\ At(r, "setup")
  /\ \E failing \in SUBSET Providers :
       /\ Fail(failing, Company(r))
       /\ Goes(r, [req[r] EXCEPT !.pc = "fetch",
                     !.bad = failing \cap {req[r].via[x] : x \in Iccids}])
  /\ UNCHANGED Shared

With(l, v) == {x \in Iccids : l.verdict[x] = v}

Start(r, x) ==
  /\ At(r, "fetch") /\ req[r].verdict[x] = "resolved"
  /\ Cardinality(With(req[r], "running")) < DetailLimit
  /\ Goes(r, [req[r] EXCEPT !.verdict[x] = "running"])
  /\ UNCHANGED Shared

\* Mutant of Outcomes: what could not be set up is left out.
OutcomesIfSetUp(l, x) ==
  IF l.via[x] \in l.bad THEN {"none"}
  ELSE {IF x \in Holds[l.ask.company][l.via[x]] THEN "ok" ELSE "not_found"}
       \cup (IF healthy THEN {} ELSE {"failed"})

\* _fetch_one, _details_error_from_exception
Outcomes(l, x) ==
  IF l.via[x] \in l.bad THEN {"failed"}
  ELSE {IF x \in Holds[l.ask.company][l.via[x]] THEN "ok" ELSE "not_found"}
       \cup (IF healthy THEN {} ELSE {"failed"})

End(r, x) ==
  /\ At(r, "fetch") /\ req[r].verdict[x] = "running"
  /\ \E v \in Outcomes(req[r], x) : Goes(r, [req[r] EXCEPT !.verdict[x] = v])
  /\ UNCHANGED Shared

Reply(r) ==
  /\ At(r, "fetch") /\ With(req[r], "resolved") \cup With(req[r], "running") = {}
  /\ Goes(r, [req[r] EXCEPT !.pc = "done", !.bad = {}, !.via = Fresh.via])
  /\ known' = [known EXCEPT ![r] = {}]
  /\ UNCHANGED <<routing, prefix, cache, healthy>>

-----------------------------------------------------------------------------
(* Statistics: account by account, page by page. *)

NextAccount(l) == [l EXCEPT !.left = Tail(@), !.page = 0]

\* An account that fails is named, and nothing of it is counted.
StatsFails(r) ==
  LET s == Head(req[r].left)
  IN /\ At(r, "stats") /\ req[r].left # <<>>
     /\ healthy => s.provider \notin Accounts[s.company]
     /\ Goes(r, [NextAccount(req[r]) EXCEPT !.told = @ \cup {s}])
     /\ UNCHANGED Shared

\* Mutant of CutOff: a statistic that is cut off does not say so.
CutOffSilently(l, s) == NextAccount(l)

CutOff(l, s) == [NextAccount(l) EXCEPT !.told = @ \cup {s}]

\* One more page.  After a page that was full there may be a cursor all the same.
StatsPageOf(r) ==
  LET l == req[r]
      s == Head(l.left)
      held == Cardinality(Holds[s.company][s.provider])
      read == (l.page + 1) * StatsPage
  IN /\ At(r, "stats") /\ l.left # <<>>
     /\ s.provider \in Accounts[s.company]
     /\ \/ held <= read /\ Goes(r, [NextAccount(l) EXCEPT !.found = @ \cup {s}])
        \/ /\ held >= read
           /\ Goes(r, IF l.page + 1 = StatsPages THEN CutOff(l, s)
                      ELSE [l EXCEPT !.page = @ + 1])
     /\ UNCHANGED Shared

StatsReply(r) ==
  /\ At(r, "stats") /\ req[r].left = <<>>
  /\ Goes(r, [req[r] EXCEPT !.pc = "done", !.bad = {}, !.via = Fresh.via])
  /\ known' = [known EXCEPT ![r] = {}]
  /\ UNCHANGED <<routing, prefix, cache, healthy>>

-----------------------------------------------------------------------------

Tick ==
  /\ cache' = [i \in DOMAIN cache |->
                 [cache[i] EXCEPT !.left = IF @ > 0 THEN @ - 1 ELSE 0]]
  /\ UNCHANGED <<routing, prefix, healthy, req, known>>

\* Nothing fails any more.
Recover == ~healthy /\ healthy' = TRUE /\ UNCHANGED <<routing, prefix, cache, req, known>>

\* The process dies; PostgreSQL rolls its transactions back.
Restart ==
  /\ ~healthy
  /\ cache' = <<>>
  /\ req' = [r \in Req |-> Fresh]
  /\ known' = [r \in Req |-> {}]
  /\ UNCHANGED <<routing, prefix, healthy>>

Resolve(r) ==
  /\ req[r].todo # <<>>
  /\ LET x == Head(req[r].todo)
     IN \/ Lookup(r, x) \/ ByPrefix(r, x) \/ CachedMiss(r, x)
        \/ FanOut(r, x) \/ Gathered(r, x) \/ Reread(r, x)

Fetch(r) == Setup(r) \/ Reply(r) \/ \E x \in Iccids : Start(r, x) \/ End(r, x)

Stats(r) == StatsFails(r) \/ StatsPageOf(r) \/ StatsReply(r)

Write(r) == Upsert(r) \/ Trigger(r)

Step(r) == Resolve(r) \/ ListProvider(r) \/ Commit(r) \/ Fails(r) \/ Fetch(r) \/ Stats(r)

Next ==
  \/ \E r \in Req : Step(r) \/ Write(r) \/ \E a \in Asks[r] : Begin(r, a)
  \/ Tick \/ Recover \/ Restart

Spec == Init /\ [][Next]_vars

(***************************************************************************)
(* The event loop runs what can run; PostgreSQL serves row locks first     *)
(* come, first served, and breaks deadlocks; every call of a provider has  *)
(* a timeout; time passes; clients go on asking; and from some moment on   *)
(* nothing fails, without which no SIM need ever be found.                 *)
(***************************************************************************)
Fairness ==
  /\ WF_vars(Tick) /\ WF_vars(Recover)
  /\ \A r \in Req : WF_vars(Step(r)) /\ SF_vars(Write(r))
  /\ \A r \in Req : \A a \in Asks[r] : a.op \in Reads => SF_vars(Begin(r, a))

FairSpec == Spec /\ Fairness

-----------------------------------------------------------------------------
(* Properties *)

Answered(r, op) == At(r, "done") /\ Op(r) = op

\* What a listing or an import has routed is found (SimImportOut, routing.py):
\* a SIM that has been routed to the company since the request came, and that
\* nobody took away, is never unresolved, whatever the negative cache says.
RoutedIsFound ==
  \A r \in Req : \A x \in known[r] : req[r].verdict[x] # "unresolved"

\* Every requested ICCID of a batch comes back exactly once, in the results, in
\* unresolved or in filtered_out, whatever failed (get_sim_details_batch).
BatchAccounted ==
  \A r \in Req : Answered(r, "batch") =>
    \A x \in Elements(req[r].ask.iccids) :
      req[r].verdict[x] \in Answers \cup {"unresolved", "filtered"}

\* A search that went to all providers, and a statistic, are complete, or name
\* the account they leave out in failed_providers or by partial.
WholeOrTold ==
  \A r \in Req :
    LET l == req[r]
        c == l.ask.company
    IN /\ Answered(r, "search") => \A x \in With(l, "listed") : \A p \in Providers :
            x \in Holds[c][p] => Account(c, p) \in l.found \cup l.told
       /\ Answered(r, "stats") => Elements(l.ask.accounts)
                               \subseteq l.found \cup l.told

\* The negative cache does not grow beyond its limit, whichever requests miss at
\* the same time (_NEGATIVE_CACHE_MAX_ENTRIES).
CacheBounded == Len(cache) <= MaxEntries

\* SIMs of an account that clients of the account go on asking for.
Wanted ==
  {x \in Iccids : \E r \in Req : \E a \in Asks[r] :
                     /\ a.op \in Reads /\ x \in Elements(a.iccids)
                     /\ \E p \in Accounts[a.company] : x \in Holds[a.company][p]}

\* Once the providers answer, a SIM that clients keep asking for is resolved, by a
\* row of its own or by one of its prefix: a miss that was a failure is forgotten in
\* the end (routing.py: 404s are believed for _NEGATIVE_CACHE_TTL_SECONDS).
HeldIsResolved == healthy ~> \A x \in Wanted : routing[x] # NoRow \/ PrefixRoute(x) # None

\* Every request ends, although discovery, imports and listings upsert rows in
\* orders of their own, and hold them and the rows of their prefixes, which other
\* SIMs of other companies share, until they commit.
RequestsEnd == \A r \in Req : At(r, "upsert") ~> req[r].pc \in {"idle", "done"}
=============================================================================
