----------------------------- MODULE ProviderCalls -----------------------------
(***************************************************************************)
(* The HTTP clients under the Moabits and Kite adapters                    *)
(* (providers/moabits/adapter.py, providers/kite/adapter.py, client.py):   *)
(* what the concurrent calls of one account share in one process.          *)
(*   Moabits  a bearer token, cached until shortly before it expires and   *)
(*            renewed under a lock, or by force after a 401; a cached list *)
(*            of the company's SIMs, read under a lock of its own; a       *)
(*            cache of v2 rows; a number of slots for requests, which the  *)
(*            renewals of the token take as well.                          *)
(*   Kite     slots, and retries of reads that find the service overloaded.*)
(*                                                                         *)
(* The circuit breaker around most of these calls is CircuitBreaker.       *)
(* Payloads are left out, except which SIM a v2 row is of and whether a    *)
(* purge is confirmed.                                                     *)
(***************************************************************************)
EXTENDS Integers, FiniteSets

CONSTANTS
  Call,       \* slots for calls
  OpsOf,      \* OpsOf[c]: the operations called in slot c
  Sims,       \* the company's SIMs
  One,        \* the SIM of get_subscription
  Chunks,     \* the page of a listing, in chunks of moabits_v2_max_batch
  Slots,      \* moabits_max_concurrent_requests, kite_max_concurrent_requests
  V2Enabled,  \* moabits_v2_enrichment_enabled
  V2Slots,    \* moabits_v2_max_concurrent_chunks
  Attempts,   \* kite_retry_max_attempts
  Life, Margin, Grace, \* of a token: its time, _TOKEN_REFRESH_MARGIN_SECONDS,
                       \* _TOKEN_STALE_GRACE_SECONDS
  ListTtl,    \* moabits_sim_list_cache_ttl_seconds
  V2Ttl,      \* moabits_v2_enrichment_cache_ttl_seconds
  MaxTokens   \* bound on the tokens Moabits issues

\* read stands for get_usage, get_presence, get_sms_history, fetch_child_companies,
\* write for set_administrative_status and purge, kread for all that Kite may
\* repeat, kwrite for modifySubscription and networkReset.
Writes == {"write", "kwrite"}
Ops == {"read", "sim", "list", "kread"} \cup Writes

ASSUME CallsAssumption ==
  /\ OpsOf \in [Call -> SUBSET Ops]
  /\ One \in Sims /\ Chunks \subseteq SUBSET Sims
  /\ V2Enabled \in BOOLEAN
  /\ Slots \in Nat \ {0} /\ V2Slots \in Nat \ {0} /\ Attempts \in Nat \ {0}
  /\ Life \in Nat /\ Margin \in Nat /\ Grace \in Nat /\ Margin < Life
  /\ ListTtl \in Nat /\ V2Ttl \in Nat /\ MaxTokens \in Nat

VARIABLES
  token,  \* _TOKEN_CACHE: the token, by its rank, and the time it has left
  issued, \* the tokens Moabits has issued
  lists,  \* _SIM_LIST_CACHE: the time the list has left
  v2,     \* _V2_ENRICHMENT_CACHE: the time each row has left
  call    \* the calls

vars == <<token, issued, lists, v2, call>>

Labels == {"detail", "connectivity"}

\* A request to Moabits looks for a token, waits for the lock of the token, or for
\* a slot to renew it, renews it, waits for a slot of its own, and is sent.
Requesting == {"token", "lock", "fetch", "fetching", "slot", "wire"}
Busy == Requesting \cup {"list", "listlock", "enrich", "kslot", "kwire", "ksleep"}

\* The request in hand, and whether it was refused once; the token it carries; the
\* attempts of Kite; how often a write took effect; chunks to ask and being asked
\* for; whether v1 has answered, and whether there are v2 rows.
Local ==
  [op : Ops \cup {"none"}, pc : Busy \cup {"idle", "done"},
   stage : {"none", "read", "status", "details", "list", "write"},
   again : BOOLEAN, tok : 0 .. MaxTokens, tries : 0 .. Attempts, applied : 0 .. 2,
   todo : SUBSET (Labels \X SUBSET Sims), asking : SUBSET (Labels \X SUBSET Sims),
   heard : BOOLEAN, rows : BOOLEAN,
   answer : {"none", "ok", "failed"}]

NoCall ==
  [op |-> "none", pc |-> "idle", stage |-> "none", again |-> FALSE, tok |-> 0,
   tries |-> 0, applied |-> 0, todo |-> {}, asking |-> {}, heard |-> FALSE,
   rows |-> FALSE, answer |-> "none"]

TypeOK ==
  /\ token \in [id : 0 .. MaxTokens, left : -Grace .. Life]
  /\ issued \in 0 .. MaxTokens
  /\ lists \in 0 .. ListTtl
  /\ v2 \in [Labels -> [Sims -> 0 .. V2Ttl]]
  /\ call \in [Call -> Local]

Init ==
  /\ token = [id |-> 0, left |-> -Grace]
  /\ issued = 0
  /\ lists = 0
  /\ v2 = [l \in Labels |-> [x \in Sims |-> 0]]
  /\ call = [c \in Call |-> NoCall]

At(c, pc) == call[c].pc = pc
Shared == <<token, issued, lists, v2>>

\* c goes on with local state l.
Goes(c, l) == call' = [call EXCEPT ![c] = l]

Done(l, ok) ==
  [NoCall EXCEPT !.op = l.op, !.pc = "done", !.applied = l.applied, !.heard = l.heard,
                 !.rows = l.rows, !.answer = IF ok THEN "ok" ELSE "failed"]

\* _get and _put begin
Request(l, stage) == [l EXCEPT !.pc = "token", !.stage = stage, !.again = FALSE, !.tok = 0]

FirstStep ==
  [op \in Ops |->
     CASE op = "read" -> Request([NoCall EXCEPT !.op = op], "read")
       [] op = "sim" -> Request([NoCall EXCEPT !.op = op], "status")
       [] op = "list" -> [NoCall EXCEPT !.op = op, !.pc = "list"]
       [] op = "write" -> Request([NoCall EXCEPT !.op = op], "write")
       [] OTHER -> [NoCall EXCEPT !.op = op, !.pc = "kslot"]]

\* A call that passes the adapter's own checks (dates, filters, the feature flag,
\* the target of a write, the company code); one that does not touches nothing.
Start(c, op) ==
  /\ call[c].pc \in {"idle", "done"}
  /\ Goes(c, FirstStep[op])
  /\ UNCHANGED Shared

-----------------------------------------------------------------------------
(* The list of a company's SIMs: _company_sim_list_rows *)

Jobs(l) == Labels \X (IF l.op = "sim" THEN {{One}} ELSE Chunks)

Enriching(l) ==
  [l EXCEPT !.pc = "enrich", !.stage = "none", !.again = FALSE, !.tok = 0,
            !.todo = IF V2Enabled THEN Jobs(l) ELSE {}]

Listed(l) == Enriching([l EXCEPT !.heard = TRUE])

LookForList(c) ==
  /\ At(c, "list")
  /\ Goes(c, IF lists > 0 THEN Listed(call[c]) ELSE [call[c] EXCEPT !.pc = "listlock"])
  /\ UNCHANGED Shared

HoldsList(c) == call[c].stage = "list" /\ call[c].pc \in Requesting

LockList(c) ==
  /\ At(c, "listlock") /\ ~\E d \in Call : HoldsList(d)
  /\ Goes(c, IF lists > 0 THEN Listed(call[c]) ELSE Request(call[c], "list"))
  /\ UNCHANGED Shared

-----------------------------------------------------------------------------
(* The token: _authorization_token, _fetch_authorization_token *)

IsFresh == token.id # 0 /\ token.left > Margin

\* _cached_token_is_usable
IsUsable == token.id # 0 /\ token.left + Grace > 0

Carrying(l, id) == [l EXCEPT !.pc = "slot", !.tok = id]

LookForToken(c) ==
  /\ At(c, "token")
  /\ Goes(c, IF ~call[c].again /\ IsFresh THEN Carrying(call[c], token.id)
             ELSE [call[c] EXCEPT !.pc = "lock"])
  /\ UNCHANGED Shared

HoldsToken(c) == call[c].pc \in {"fetch", "fetching"}

\* Mutant of LockToken: there is no lock, only the second look.
LookAgain(c) ==
  /\ At(c, "lock")
  /\ Goes(c, IF ~call[c].again /\ IsFresh THEN Carrying(call[c], token.id)
             ELSE [call[c] EXCEPT !.pc = "fetch"])
  /\ UNCHANGED Shared

LockToken(c) ==
  /\ At(c, "lock") /\ ~\E d \in Call : HoldsToken(d)
  /\ Goes(c, IF ~call[c].again /\ IsFresh THEN Carrying(call[c], token.id)
             ELSE [call[c] EXCEPT !.pc = "fetch"])
  /\ UNCHANGED Shared

\* Mutant of Sending: a refused call keeps its slot until it has a new token.
SendingOrRefused ==
  {c \in Call : \/ call[c].pc \in {"fetching", "wire"}
                \/ call[c].again /\ call[c].pc \in {"token", "lock", "fetch"}}

Sending == {c \in Call : call[c].pc \in {"fetching", "wire"}}

SendFetch(c) ==
  /\ At(c, "fetch") /\ Cardinality(Sending) < Slots
  /\ Goes(c, [call[c] EXCEPT !.pc = "fetching", !.tok = 0])
  /\ UNCHANGED Shared

\* Moabits issues a token; the answer is on its way.
Issue(c) ==
  /\ At(c, "fetching") /\ call[c].tok = 0 /\ issued < MaxTokens
  /\ issued' = issued + 1
  /\ Goes(c, [call[c] EXCEPT !.tok = issued + 1])
  /\ UNCHANGED <<token, lists, v2>>

Fetched(c) ==
  /\ At(c, "fetching") /\ call[c].tok # 0
  /\ token' = [id |-> call[c].tok, left |-> Life]
  /\ Goes(c, Carrying(call[c], call[c].tok))
  /\ UNCHANGED <<issued, lists, v2>>

-----------------------------------------------------------------------------
(* Requests: _get and _put, and the operations that make them *)

\* Mutant of Ended: legacy details that fail make the call fail.
EndedByDetails(l, ok) ==
  LET m == [l EXCEPT !.heard = @ \/ ok]
  IN CASE l.stage = "status" \/ (l.stage = "list" /\ ok) -> Enriching(m)
       [] OTHER -> Done(m, ok)

\* The request of a stage has ended.  A SIM without status goes on to v2, a SIM
\* without v2 rows to the legacy details, which may fail if the status did not.
Ended(l, ok) ==
  LET m == [l EXCEPT !.heard = @ \/ ok]
  IN CASE l.stage = "status" \/ (l.stage = "list" /\ ok) -> Enriching(m)
       [] l.stage = "details" -> Done(m, m.heard)
       [] OTHER -> Done(m, ok)

\* A renewal that fails leaves the token that was cached if it still serves; 429
\* (and 403 on other paths) does not ask for it.
NotFetched(c) ==
  /\ At(c, "fetching")
  /\ \/ Goes(c, Ended(call[c], FALSE))
     \/ IsUsable /\ Goes(c, Carrying(call[c], token.id))
  /\ UNCHANGED Shared

Send(c) ==
  /\ At(c, "slot") /\ Cardinality(Sending) < Slots
  /\ Goes(c, [call[c] EXCEPT !.pc = "wire"])
  /\ UNCHANGED Shared

\* 401: once more, with a new token.
Refused(l) ==
  IF l.again THEN Ended(l, FALSE) ELSE [l EXCEPT !.again = TRUE, !.pc = "token"]

\* Mutant of Read: a refused token is dropped from the cache, which may hold a
\* newer one by now.
ReadForgets(c) ==
  /\ At(c, "wire") /\ call[c].stage # "write"
  /\ \/ Goes(c, Ended(call[c], TRUE)) /\ lists' = (IF call[c].stage = "list" THEN ListTtl ELSE lists)
        /\ UNCHANGED token
     \/ Goes(c, Ended(call[c], FALSE)) /\ UNCHANGED <<lists, token>>
     \/ Goes(c, Refused(call[c])) /\ token' = [id |-> 0, left |-> -Grace] /\ UNCHANGED lists
  /\ UNCHANGED <<issued, v2>>

\* What a GET comes back with; a list is cached.
Read(c) ==
  /\ At(c, "wire") /\ call[c].stage # "write"
  /\ \/ Goes(c, Ended(call[c], TRUE)) /\ lists' = (IF call[c].stage = "list" THEN ListTtl ELSE lists)
     \/ Goes(c, Ended(call[c], FALSE)) /\ UNCHANGED lists
     \/ Goes(c, Refused(call[c])) /\ UNCHANGED lists
  /\ UNCHANGED <<token, issued, v2>>

Applied(l) == [l EXCEPT !.applied = IF @ < 2 THEN @ + 1 ELSE 2]

\* Mutant of WriteFails: a write that timed out is sent again.
WriteFailsOnce(l) == IF l.again THEN Ended(l, FALSE) ELSE Refused(l)

WriteFails(l) == Ended(l, FALSE)

\* What a PUT comes back with: success; a failure after it took effect or without
\* (a timeout, an error, a purge that is not confirmed); 401, which had no effect.
Write(c) ==
  /\ At(c, "wire") /\ call[c].stage = "write"
  /\ \/ Goes(c, Ended(Applied(call[c]), TRUE))
     \/ \E l \in {call[c], Applied(call[c])} : Goes(c, WriteFails(l))
     \/ Goes(c, Refused(call[c]))
  /\ UNCHANGED Shared

-----------------------------------------------------------------------------
(* v2 rows: _fetch_v2_enrichment *)

\* A chunk asks for what is not cached, within the slots of its call.
AskV2(c, label, chunk) ==
  LET l == call[c]
      cached == {x \in chunk : v2[label][x] > 0}
  IN /\ At(c, "enrich") /\ <<label, chunk>> \in l.todo
     /\ Cardinality(l.asking) < V2Slots
     /\ Goes(c, [l EXCEPT !.todo = @ \ {<<label, chunk>>}, !.rows = @ \/ cached # {},
                          !.asking = @ \cup (IF cached = chunk THEN {}
                                             ELSE {<<label, chunk \ cached>>})])
     /\ UNCHANGED Shared

\* Rows of some of the SIMs come, or of none: not found, or failed.
V2Rows(c, label, missing) ==
  LET l == call[c]
  IN /\ At(c, "enrich") /\ <<label, missing>> \in l.asking
     /\ \E rows \in SUBSET missing :
          /\ Goes(c, [l EXCEPT !.asking = @ \ {<<label, missing>>},
                               !.rows = @ \/ rows # {}])
          /\ v2' = [v2 EXCEPT ![label] = [x \in Sims |-> IF x \in rows THEN V2Ttl ELSE @[x]]]
     /\ UNCHANGED <<token, issued, lists>>

Enriched(c) ==
  LET l == call[c]
  IN /\ At(c, "enrich") /\ l.todo = {} /\ l.asking = {}
     /\ Goes(c, IF l.op = "list" \/ l.rows THEN Done(l, TRUE) ELSE Request(l, "details"))
     /\ UNCHANGED Shared

-----------------------------------------------------------------------------
(* Kite: _call and _call_once *)

KiteSend(c) ==
  /\ At(c, "kslot") /\ Cardinality({d \in Call : At(d, "kwire")}) < Slots
  /\ Goes(c, [call[c] EXCEPT !.pc = "kwire", !.tries = @ + 1])
  /\ UNCHANGED Shared

MayRetry(l) == l.op = "kread" /\ l.tries < Attempts

\* Success, failure, or overloaded (429, SVR.1006); a write may have had its effect.
KiteAnswers(c) ==
  /\ At(c, "kwire")
  /\ \/ Goes(c, Done(IF call[c].op \in Writes THEN Applied(call[c]) ELSE call[c], TRUE))
     \/ \E l \in {call[c]} \cup (IF call[c].op \in Writes THEN {Applied(call[c])} ELSE {}) :
          \/ Goes(c, Done(l, FALSE))
          \/ MayRetry(l) /\ Goes(c, [l EXCEPT !.pc = "ksleep"])
  /\ UNCHANGED Shared

KiteSleeps(c) ==
  /\ At(c, "ksleep")
  /\ Goes(c, [call[c] EXCEPT !.pc = "kslot"])
  /\ UNCHANGED Shared

-----------------------------------------------------------------------------

Less(n, floor) == IF n > floor THEN n - 1 ELSE floor

Tick ==
  /\ token' = [token EXCEPT !.left = Less(@, -Grace)]
  /\ lists' = Less(lists, 0)
  /\ v2' = [l \in Labels |-> [x \in Sims |-> Less(v2[l][x], 0)]]
  /\ UNCHANGED <<issued, call>>

\* The worker's job_timeout cancels a listing; its locks and slots are released.
Cancel(c) ==
  /\ call[c].op = "list" /\ call[c].pc \in Busy
  /\ Goes(c, [NoCall EXCEPT !.pc = "done"])
  /\ UNCHANGED Shared

Waits(c) == LockList(c) \/ LockToken(c) \/ SendFetch(c) \/ Send(c) \/ KiteSend(c)

Ask(c) == \E l \in Labels : \E s \in SUBSET Sims : AskV2(c, l, s) \/ V2Rows(c, l, s)

Step(c) ==
  \/ LookForList(c) \/ LookForToken(c) \/ Issue(c) \/ Fetched(c) \/ NotFetched(c)
  \/ Read(c) \/ Write(c) \/ Ask(c) \/ Enriched(c) \/ KiteAnswers(c) \/ KiteSleeps(c)

Next ==
  \/ \E c \in Call : Step(c) \/ Waits(c) \/ Cancel(c) \/ \E op \in OpsOf[c] : Start(c, op)
  \/ Tick

Spec == Init /\ [][Next]_vars

\* Locks and semaphores of asyncio serve first come, first served; every request
\* has a timeout.
Fairness == \A c \in Call : WF_vars(Step(c)) /\ SF_vars(Waits(c))

FairSpec == Spec /\ Fairness

-----------------------------------------------------------------------------
(* Properties *)

\* A call makes a write take effect at most once, whatever is refused, renewed,
\* retried or lost on the way, and exactly once if it reports success (ADR-005:
\* no retry of mutations; info.purged).
WrittenOnce ==
  \A c \in Call :
    /\ call[c].applied <= 1
    /\ call[c].op \in Writes /\ call[c].answer = "ok" => call[c].applied = 1

\* A SIM is answered for exactly when one of its four sources has answered: no
\* failure hides an answer, and no answer is made of failures alone
\* (_get_subscription_impl, _fetch_v2_enrichment).
AnsweredBySome ==
  \A c \in Call :
    call[c].op \in {"sim", "list"} /\ call[c].answer # "none" =>
      (call[c].answer = "ok" <=> call[c].heard \/ call[c].rows)

\* An older token never replaces a newer one, however many callers renew it at
\* once (_authorization_token).
TokenOnlyAdvances == [][token'.id >= token.id]_token

\* Of several callers that find the token or the list out of date one renews it, and
\* what goes out for the others finds it still out of date (_authorization_token,
\* _company_sim_list_rows).
RenewedWhenStale ==
  [][\A c \in Call :
       /\ At(c, "fetch") /\ call'[c].pc = "fetching" => call[c].again \/ ~IsFresh
       /\ At(c, "slot") /\ call'[c].pc = "wire" /\ call[c].stage = "list" => lists = 0]_vars

\* Every call ends: the lock of the list, the lock of the token and the slots are
\* always taken in this order, and no slot is held while waiting for another.
CallsEnd == \A c \in Call : call[c].pc \in Busy ~> call[c].pc = "done"
=============================================================================
