------------------------------ MODULE SimListing ------------------------------
(***************************************************************************)
(* A client walks a merged SIM listing page by page.  Four endpoints of    *)
(* subscriptions/services/listing.py answer it:                            *)
(*   global       GET  /sims          one source per provider              *)
(*   search       POST /sims/search   one source per provider and status   *)
(*   admin        GET  /admin/sims    one source per active credential     *)
(*   adminSearch  POST /admin/sims/search   per credential and status      *)
(* Each splits the limit of the page among the sources its cursor names,   *)
(* asks them all (asyncio.gather), merges what comes back, and encodes     *)
(* where each source goes on in the cursor of the next page.               *)
(*                                                                         *)
(* The SIMs of a source are numbered in the order its provider lists them, *)
(* and do not change during the walk; the client sends the same limit and  *)
(* filters at each page, and no limits or cursors of single providers.     *)
(* A position is what a source's own cursor says: an offset for Kite and   *)
(* Moabits, a page number from zero for Tele2; zero stands for None.       *)
(***************************************************************************)
EXTENDS Naturals, FiniteSets

CONSTANTS
  Owner,      \* companies
  Status,     \* native statuses asked for, or the one value for none
  Sources,    \* the sources of each endpoint
  Order,      \* the order in which the code goes through the sources
  PageCap,    \* the largest page each adapter asks its provider for
  Limits,     \* limits a client may choose
  MaxSims     \* bound: SIMs of a source

Endpoint == {"global", "search", "admin", "adminSearch"}
Tenant == {"global", "search"}
Provider == {"kite", "tele2", "moabits"}
Source == [provider : Provider, owner : Owner, status : Status]

ASSUME ListingAssumption ==
  /\ DOMAIN Sources \subseteq Endpoint
  /\ \A e \in DOMAIN Sources : Sources[e] \subseteq Source /\ IsFiniteSet(Sources[e])
  /\ Order \in [Source -> Nat]
  /\ \A e \in DOMAIN Sources : \A s, t \in Sources[e] : Order[s] = Order[t] => s = t
  /\ PageCap \in [Provider -> Nat \ {0}]
  /\ Limits \subseteq Nat \ {0}
  /\ MaxSims \in Nat

VARIABLES
  endpoint,   \* the endpoint walked
  limit,      \* the client's limit
  sims,       \* how many SIMs each source has
  cursor,     \* position of every source the next request will ask
  page,       \* SIMs of each source in the last answer
  got,        \* SIMs of each source in all answers
  told,       \* providers some answer named in failed_providers
  routed      \* SIMs upserted into sim_routing_map

vars == <<endpoint, limit, sims, cursor, page, got, told, routed>>

Listed == Sources[endpoint]
Asked == DOMAIN cursor
Nothing == [s \in Listed |-> {}]

\* Mutant of Share: the remainder given to everyone.
ShareRoundedUp(total, n, index) == total \div n + (IF total % n > 0 THEN 1 ELSE 0)

\* The code splits a limit into n shares, the remainder going to the first.
Share(total, n, index) == total \div n + (IF index < total % n THEN 1 ELSE 0)

Position(s, S) == Cardinality({t \in S : Order[t] < Order[s]})

-----------------------------------------------------------------------------
(* One request, of which the accounts in "unloaded" give no credentials. *)

Account(s) == [provider |-> s.provider, owner |-> s.owner]

\* adminSearch loads the credentials of every row before it looks at the cursor.
Accounts == {Account(s) : s \in IF endpoint = "adminSearch" THEN Listed ELSE Asked}

Calls(unloaded) == {s \in Asked : Account(s) \notin unloaded}

\* A search gives each provider its share, in its place among those still asked,
\* of as many shares as the body selects, and splits that among the statuses left.
SearchLimit(s) ==
  LET mine == {t \in Asked : t.provider = s.provider}
      before == {t \in Asked \ mine : Order[t] < Order[s]}
  IN Share(Share(limit, Cardinality({t.provider : t \in Listed}),
                 Cardinality({t.provider : t \in before})),
           Cardinality(mine), Position(s, mine))

CallLimit(s, calls) ==
  IF endpoint = "search" THEN SearchLimit(s)
                         ELSE Share(limit, Cardinality(calls), Position(s, calls))

\* Only a search asks a source for a page of zero; the adapters ask for one SIM.
Active(calls) == {s \in calls : endpoint = "search" \/ CallLimit(s, calls) > 0}

PageSize(s, calls) ==
  LET n == CallLimit(s, calls)
  IN IF n = 0 THEN 1 ELSE IF n > PageCap[s.provider] THEN PageCap[s.provider] ELSE n

First(s, size) == IF s.provider = "tele2" THEN cursor[s] * size ELSE cursor[s]

\* Mutant of Listing: both ends of a page included.
ListingFromCursor(s, size) ==
  {i \in 1..sims[s] : First(s, size) <= i /\ i <= First(s, size) + size}

Listing(s, size) == {i \in 1..sims[s] : First(s, size) < i /\ i <= First(s, size) + size}

\* Kite goes on after a full batch, the others while SIMs are left.
More(s, size) ==
  \/ First(s, size) + size < sims[s]
  \/ s.provider = "kite" /\ First(s, size) + size = sims[s]

\* Mutant of Following: Tele2's page number is not advanced.
FollowingShort(s, size) ==
  IF s.provider = "tele2" THEN cursor[s] ELSE cursor[s] + size

Following(s, size) == IF s.provider = "tele2" THEN cursor[s] + 1 ELSE cursor[s] + size

\* Mutant of Carried: encode_cursor for the global cursor too.
CarriedUnlessNone(calls) ==
  {s \in calls \ Active(calls) : endpoint \in {"global", "admin"} /\ cursor[s] > 0}

\* Sources that got no share keep their position: in the global cursor as it is,
\* in the admin cursor unless it is None (encode_cursor), in adminSearch never.
Carried(calls) ==
  {s \in calls \ Active(calls) :
     endpoint = "global" \/ (endpoint = "admin" /\ cursor[s] > 0)}

NextCursor(calls, answered) ==
  LET on == {s \in answered : More(s, PageSize(s, calls))}
  IN [s \in on \cup Carried(calls) |->
        IF s \in on THEN Following(s, PageSize(s, calls)) ELSE cursor[s]]

\* The admin listing has marked the provider of a credential that is absent from
\* the cursor not_queried, and then does not report the errors of the others.
Reported(unloaded, failed) ==
  {a.provider : a \in unloaded} \cup
  {p \in {s.provider : s \in failed} :
     endpoint = "admin" => \A s \in Listed : s.provider = p => s \in Asked}

\* When an upsert fails the transaction is aborted: so do those that follow, and
\* the commit rolls the earlier ones back.  The global listing reports such
\* sources as failed; a search answers 500, as if nothing had been asked.
Aborts(aborted, returned, calls) ==
  /\ aborted # {} => endpoint = "global"
  /\ \A s \in aborted : Listing(s, PageSize(s, calls)) # {}
  /\ \A s \in aborted, t \in returned \ aborted :
       Order[s] < Order[t] => Listing(t, PageSize(t, calls)) = {}

\* Mutant of Upserted: only the global listing commits.
UpsertedByGlobal(listing, aborted) ==
  IF endpoint = "global" /\ aborted = {}
  THEN [s \in Listed |-> routed[s] \cup listing[s]]
  ELSE routed

Upserted(listing, aborted) ==
  IF endpoint \in Tenant /\ aborted = {}
  THEN [s \in Listed |-> routed[s] \cup listing[s]]
  ELSE routed

Merged(calls, answered) ==
  [s \in Listed |-> IF s \in answered THEN Listing(s, PageSize(s, calls)) ELSE {}]

-----------------------------------------------------------------------------
Init ==
  /\ endpoint \in DOMAIN Sources
  /\ limit \in Limits
  /\ sims \in [Listed -> 0..MaxSims]
  /\ cursor = [s \in Listed |-> 0]
  /\ page = Nothing
  /\ got = Nothing
  /\ told = {}
  /\ routed = Nothing

\* The global listing raises 412 when it has failures and no SIM to show.
Refuses(listing, unloaded, failed) ==
  /\ endpoint = "global"
  /\ listing = Nothing
  /\ unloaded \cup failed # {}

Refused(listing, unloaded, failed) ==
  /\ Refuses(listing, unloaded, failed)
  /\ page' = Nothing
  /\ UNCHANGED <<endpoint, limit, sims, cursor, got, told, routed>>

Delivered(calls, answered, unloaded, failed, aborted) ==
  LET listing == Merged(calls, answered)
  IN /\ ~Refuses(listing, unloaded, failed)
     /\ page' = listing
     /\ got' = [s \in Listed |-> got[s] \cup listing[s]]
     /\ cursor' = NextCursor(calls, answered)
     /\ told' = told \cup Reported(unloaded, failed)
     /\ routed' = Upserted(listing, aborted)
     /\ UNCHANGED <<endpoint, limit, sims>>

\* The answer does not arrive: the client will ask with the same cursor again.
Lost(listing, aborted) ==
  /\ page' = Nothing
  /\ routed' = Upserted(listing, aborted)
  /\ UNCHANGED <<endpoint, limit, sims, cursor, got, told>>

Request ==
  /\ Asked # {}
  /\ \E unloaded \in SUBSET Accounts :
       LET calls == Calls(unloaded) IN
       \E failed \in SUBSET Active(calls) :
         LET returned == Active(calls) \ failed IN
         \E aborted \in SUBSET returned :
           LET answered == returned \ aborted
               listing == Merged(calls, answered)
           IN /\ Aborts(aborted, returned, calls)
              /\ \/ Refused(listing, unloaded, failed \cup aborted)
                 \/ Delivered(calls, answered, unloaded, failed \cup aborted, aborted)
                 \/ Lost(listing, aborted)

CleanRequest == Asked # {} /\ Delivered(Asked, Active(Asked), {}, {}, {})

Next == Request

Spec == Init /\ [][Next]_vars

\* The client keeps asking, and now and then every provider answers.
FairSpec == Spec /\ WF_vars(CleanRequest)

-----------------------------------------------------------------------------
TypeOK ==
  /\ endpoint \in DOMAIN Sources
  /\ limit \in Limits
  /\ sims \in [Listed -> 0..MaxSims]
  /\ Asked \subseteq Listed
  /\ cursor \in [Asked -> Nat]
  /\ page \in [Listed -> SUBSET (1..MaxSims)]
  /\ got \in [Listed -> SUBSET (1..MaxSims)]
  /\ told \subseteq Provider
  /\ routed \in [Listed -> SUBSET (1..MaxSims)]

Complete(s) == got[s] = 1..sims[s]

\* No answer repeats a SIM the client was given before, although the shares, and
\* with them the size of Tele2's pages, change from one request to the next.
NothingTwice == [][\A s \in Listed : page'[s] \cap got[s] = {}]_vars

\* An answer has no more SIMs than the limit, except of a search, where every
\* status is asked for one at least.
WithinLimit ==
  endpoint # "search" =>
    Cardinality({e \in Listed \X (1..MaxSims) : e[2] \in page[e[1]]}) <= limit

\* The walks whose end the client may rely on: offsets, and for an administrator
\* a limit that leaves no credential without a share and, in the plain listing,
\* a provider with one credential.
Reliable(s) ==
  /\ s.provider # "tele2"
  /\ \/ endpoint \in Tenant
     \/ /\ limit >= Cardinality(Listed)
        /\ endpoint = "admin" => \A t \in Listed : t.provider = s.provider => t = s

\* A source that is not asked any more has given all its SIMs, or its provider
\* was reported; one that is still asked has given all before its position.
CoveredOrTold ==
  \A s \in Listed : Reliable(s) =>
    IF s \in Asked THEN got[s] = 1..cursor[s]
                   ELSE Complete(s) \/ s.provider \in told

\* As long as no failure was reported, each SIM a tenant was shown is routed.
ShownIsRouted ==
  endpoint \in Tenant /\ told = {} => \A s \in Listed : got[s] \subseteq routed[s]

\* Every walk ends, whatever failed on the way.
WalkEnds == <>(Asked = {})

\* What a walk may still ask of a source: nothing once the cursor leaves it out.
Left(s) == IF s \in Asked THEN sims[s] + 1 - cursor[s] ELSE 0

\* Why a walk ends: no source is ever set back or taken up again, whatever fails,
\* and a request that every provider answers brings at least one source nearer
\* to its end, even with a limit smaller than the number of sources.
WalkAdvances ==
  [][/\ \A s \in Listed : Left(s)' <= Left(s)
     /\ CleanRequest => \E s \in Listed : Left(s)' < Left(s)]_vars

\* docs/architecture/domain-model.md:186, "El cliente no recibe datos
\* silenciosamente incompletos": at its end a walk has shown every SIM, or an
\* answer has named the provider of those it has not.
NeverSilentlyIncomplete ==
  Asked = {} => \A s \in Listed : Complete(s) \/ s.provider \in told
=============================================================================
