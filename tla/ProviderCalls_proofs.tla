-------------------------- MODULE ProviderCalls_proofs --------------------------
(***************************************************************************)
(* Theorems about ProviderCalls, for any number of calls, SIMs, chunks,    *)
(* slots and tokens: what the concurrent calls of an account share (the    *)
(* token, its lock, the list and its lock) never misleads one of them.     *)
(***************************************************************************)
EXTENDS ProviderCalls, TLAPS

RenewsToken(l) == l.pc \in {"fetch", "fetching"}
ReadsList(l) == l.stage = "list" /\ l.pc \in Requesting

\* What is true of a call by itself: which operation makes which requests; what it
\* has heard, and that nothing has taken effect, as long as it goes on.
Fine(l) ==
  /\ l.pc \in Requesting <=> l.stage # "none"
  /\ l.stage # "none" =>
       l.op = IF l.stage \in {"status", "details"} THEN "sim" ELSE l.stage
  /\ l.pc \in {"list", "listlock"} => l.op = "list"
  /\ l.pc = "enrich" => l.op \in {"sim", "list"}
  /\ l.pc \in {"kslot", "kwire", "ksleep"} => l.op \in {"kread", "kwrite"}
  /\ l.pc \in {"kslot", "ksleep"} => l.tries < Attempts
  /\ l.pc \in Busy => l.applied = 0 /\ l.answer = "none"
  /\ l.pc \in {"list", "listlock"} \/ l.stage \in {"status", "list"} => ~l.heard /\ ~l.rows
  /\ l.pc = "enrich" /\ l.op = "list" => l.heard
  /\ l.stage = "details" => ~l.rows
  /\ l.applied <= 1
  /\ l.op \in Writes /\ l.answer = "ok" => l.applied = 1
  /\ l.op \in {"sim", "list"} /\ l.answer # "none" => (l.answer = "ok" <=> l.heard \/ l.rows)

\* A lock has one holder.
Alone ==
  \A c, d \in Call :
    \/ RenewsToken(call[c]) /\ RenewsToken(call[d])
    \/ ReadsList(call[c]) /\ ReadsList(call[d])
    => c = d

\* A token on its way is the last one issued.
Ranked ==
  /\ token.id <= issued
  /\ \A c \in Call :
       /\ call[c].tok <= issued
       /\ call[c].pc = "fetching" /\ call[c].tok # 0 => call[c].tok = issued

\* What a holder of a lock found out of date stays so until it is renewed.
Stale ==
  \A c \in Call :
    /\ call[c].pc = "fetch" => call[c].again \/ ~IsFresh
    /\ ReadsList(call[c]) => lists = 0

IInv == TypeOK /\ (\A c \in Call : Fine(call[c])) /\ Alone /\ Ranked /\ Stale

-----------------------------------------------------------------------------
(* Steps of a call. *)

LEMMA CallIs ==
  ASSUME IInv, NEW c \in Call
  PROVE  call[c] \in Local /\ Fine(call[c])
  BY DEF IInv, TypeOK

LEMMA GoesTo ==
  ASSUME IInv, NEW c \in Call, NEW l, Goes(c, l)
  PROVE  call'[c] = l /\ call' = [d \in Call |-> IF d = c THEN l ELSE call[d]]
  BY DEF IInv, TypeOK, Goes

SharedTyped ==
  /\ token \in [id : 0 .. MaxTokens, left : -Grace .. Life]
  /\ issued \in 0 .. MaxTokens
  /\ lists \in 0 .. ListTtl
  /\ v2 \in [Labels -> [Sims -> 0 .. V2Ttl]]

\* What a step of c has to respect of what it shares with the others.
Respects(c, l) ==
  /\ SharedTyped'
  /\ issued <= issued' /\ token'.id <= issued' /\ l.tok <= issued'
  /\ l.pc = "fetching" /\ l.tok # 0 => l.tok = issued'
  /\ RenewsToken(l) => RenewsToken(call[c]) \/ \A d \in Call : ~RenewsToken(call[d])
  /\ ReadsList(l) => lists' = 0 /\ (ReadsList(call[c]) \/ \A d \in Call : ~ReadsList(call[d]))
  /\ l.pc = "fetch" => l.again \/ ~IsFresh'
  /\ issued' # issued => RenewsToken(call[c])
  /\ IsFresh' => IsFresh \/ RenewsToken(call[c])
  /\ lists' # 0 => lists # 0 \/ ReadsList(call[c])

LEMMA CallMoves ==
  ASSUME IInv, NEW c \in Call, NEW l \in Local, Fine(l), Goes(c, l), Respects(c, l)
  PROVE  IInv'
<1>1. call' = [d \in Call |-> IF d = c THEN l ELSE call[d]]
  BY GoesTo
<1>2. call' \in [Call -> Local] /\ \A d \in Call : call'[d] = IF d = c THEN l ELSE call[d]
  BY <1>1 DEF IInv, TypeOK
<1>3. TypeOK'
  BY <1>2 DEF Respects, SharedTyped, TypeOK
<1>4. \A d \in Call : Fine(call'[d])
  BY <1>2, CallIs
<1>5. Alone'
  BY <1>2 DEF IInv, Alone, Respects
<1>6. Ranked'
  <2>1. \A d \in Call : call[d].tok \in Nat
    BY CallIs, CallsAssumption DEF Local
  <2>2. issued \in Nat /\ issued' \in Nat
    BY CallsAssumption DEF Respects, SharedTyped, IInv, TypeOK
  <2>3. ASSUME NEW d \in Call
        PROVE  /\ call'[d].tok <= issued'
               /\ call'[d].pc = "fetching" /\ call'[d].tok # 0 => call'[d].tok = issued'
    <3>1. CASE d = c
      BY <1>2, <3>1 DEF Respects
    <3>2. CASE d # c
      <4>1. call'[d] = call[d]
        BY <1>2, <3>2
      <4>2. call[d].pc = "fetching" => issued' = issued
        BY <3>2 DEF Respects, RenewsToken, IInv, Alone
      <4> QED
        BY <2>1, <2>2, <4>1, <4>2 DEF Respects, IInv, Ranked
    <3> QED
      BY <3>1, <3>2
  <2> QED
    BY <2>3 DEF Ranked, Respects
<1>7. Stale'
  <2> SUFFICES ASSUME NEW d \in Call
               PROVE  /\ call'[d].pc = "fetch" => call'[d].again \/ ~IsFresh'
                      /\ ReadsList(call'[d]) => lists' = 0
    BY DEF Stale
  <2>1. CASE d = c
    BY <1>2, <2>1 DEF Respects
  <2>2. CASE d # c
    BY <1>2, <2>2 DEF Respects, IInv, Stale, Alone, RenewsToken
  <2> QED
    BY <2>1, <2>2
<1> QED
  BY <1>3, <1>4, <1>5, <1>6, <1>7 DEF IInv

\* A step that leaves what is shared alone.
LEMMA CallGoes ==
  ASSUME IInv, NEW c \in Call, NEW l \in Local, Fine(l), Goes(c, l), UNCHANGED Shared,
         l.tok <= issued,
         l.pc = "fetching" /\ l.tok # 0 => l.tok = issued,
         RenewsToken(l) => RenewsToken(call[c]) \/ \A d \in Call : ~RenewsToken(call[d]),
         ReadsList(l) => lists = 0 /\ (ReadsList(call[c]) \/ \A d \in Call : ~ReadsList(call[d])),
         l.pc = "fetch" => l.again \/ ~IsFresh
  PROVE  IInv'
<1>1. SharedTyped' /\ (IsFresh' <=> IsFresh) /\ token'.id <= issued' /\ issued <= issued'
  BY CallsAssumption DEF Shared, SharedTyped, IsFresh, IInv, TypeOK, Ranked
<1>2. issued' = issued /\ lists' = lists
  BY DEF Shared
<1> QED
  BY <1>1, <1>2, CallMoves DEF Respects

-----------------------------------------------------------------------------
(* Local states. *)

LEMMA NoCallIs ==
  /\ NoCall \in Local /\ NoCall.pc = "idle" /\ NoCall.stage = "none" /\ NoCall.tok = 0
  /\ NoCall.tries = 0 /\ NoCall.applied = 0 /\ ~NoCall.heard /\ ~NoCall.rows
  /\ NoCall.answer = "none" /\ NoCall.op = "none" /\ ~NoCall.again
  BY CallsAssumption DEF NoCall, Local, Busy, Requesting

LEMMA DoneIs ==
  ASSUME NEW l \in Local, NEW ok \in BOOLEAN
  PROVE  LET m == Done(l, ok)
         IN /\ m \in Local /\ m.pc = "done" /\ m.stage = "none" /\ m.tok = 0
            /\ m.op = l.op /\ m.applied = l.applied /\ m.heard = l.heard /\ m.rows = l.rows
            /\ m.answer = IF ok THEN "ok" ELSE "failed"
<1> DEFINE m == Done(l, ok)
<1>1. m = [NoCall EXCEPT !.op = l.op, !.pc = "done", !.applied = l.applied, !.heard = l.heard,
                         !.rows = l.rows, !.answer = IF ok THEN "ok" ELSE "failed"]
  BY DEF Done
<1> HIDE DEF m
<1>2. /\ m.pc = "done" /\ m.stage = "none" /\ m.tok = 0
      /\ m.op = l.op /\ m.applied = l.applied /\ m.heard = l.heard /\ m.rows = l.rows
      /\ m.answer = IF ok THEN "ok" ELSE "failed"
  BY <1>1, NoCallIs DEF NoCall
<1>3. m \in Local
  BY <1>1, NoCallIs DEF Local
<1> QED
  BY <1>2, <1>3 DEF m

LEMMA RequestIs ==
  ASSUME NEW l \in Local, NEW stage \in {"read", "status", "details", "list", "write"}
  PROVE  LET m == Request(l, stage)
         IN /\ m \in Local /\ m.pc = "token" /\ m.stage = stage /\ m.tok = 0
            /\ m.op = l.op /\ m.applied = l.applied /\ m.heard = l.heard /\ m.rows = l.rows
            /\ m.answer = l.answer
<1>1. 0 \in 0 .. MaxTokens /\ "token" \in Busy \cup {"idle", "done"}
  BY CallsAssumption DEF Busy, Requesting
<1> QED
  BY <1>1 DEF Request, Local

LEMMA EnrichingIs ==
  ASSUME NEW l \in Local
  PROVE  LET m == Enriching(l)
         IN /\ m \in Local /\ m.pc = "enrich" /\ m.stage = "none" /\ m.tok = 0
            /\ m.op = l.op /\ m.applied = l.applied /\ m.heard = l.heard /\ m.rows = l.rows
            /\ m.answer = l.answer
<1>1. Jobs(l) \subseteq Labels \X SUBSET Sims
  BY CallsAssumption DEF Jobs
<1>2. 0 \in 0 .. MaxTokens /\ "enrich" \in Busy \cup {"idle", "done"}
  BY CallsAssumption DEF Busy
<1> HIDE DEF Labels
<1> DEFINE todo == IF V2Enabled THEN Jobs(l) ELSE {}
           m == [l EXCEPT !.pc = "enrich", !.stage = "none", !.again = FALSE, !.tok = 0, !.todo = todo]
<1>3. todo \in SUBSET (Labels \X SUBSET Sims) /\ m = Enriching(l)
  BY <1>1 DEF Enriching
<1> HIDE DEF todo
<1> QED
  BY <1>2, <1>3 DEF Local

LEMMA HearsIs ==
  ASSUME NEW l \in Local, NEW ok \in BOOLEAN
  PROVE  LET m == [l EXCEPT !.heard = @ \/ ok]
         IN /\ m \in Local /\ m.pc = l.pc /\ m.stage = l.stage /\ m.tok = l.tok
            /\ m.op = l.op /\ m.applied = l.applied /\ m.heard = (l.heard \/ ok) /\ m.rows = l.rows
            /\ m.answer = l.answer
  BY DEF Local

\* What a call is when its request has ended; a write that ends may have had its
\* effect, once if it reports success.
LEMMA EndedIs ==
  ASSUME NEW l \in Local, NEW ok \in BOOLEAN, l.stage # "none", l.answer = "none",
         l.op = IF l.stage \in {"status", "details"} THEN "sim" ELSE l.stage,
         l.stage \in {"status", "list"} => ~l.heard /\ ~l.rows,
         l.stage = "details" => ~l.rows,
         l.applied \in {0, 1},
         l.applied = 1 => l.stage = "write",
         l.stage = "write" /\ ok => l.applied = 1
  PROVE  LET m == Ended(l, ok)
         IN m \in Local /\ Fine(m) /\ m.pc \in {"enrich", "done"} /\ m.tok = 0
<1> DEFINE h == [l EXCEPT !.heard = @ \/ ok]
           m == Ended(l, ok)
<1>1. /\ h \in Local /\ h.stage = l.stage /\ h.op = l.op /\ h.applied = l.applied
      /\ h.heard = (l.heard \/ ok) /\ h.rows = l.rows /\ h.answer = "none"
  BY HearsIs
<1> HIDE DEF h
<1>2. CASE l.stage = "status" \/ (l.stage = "list" /\ ok)
  <2>1. m = Enriching(h)
    BY <1>2 DEF Ended, h
  <2> HIDE DEF m
  <2>2. /\ m \in Local /\ m.pc = "enrich" /\ m.stage = "none" /\ m.tok = 0
        /\ m.op = h.op /\ m.applied = h.applied /\ m.heard = h.heard /\ m.rows = h.rows
        /\ m.answer = h.answer
    BY <1>1, <2>1, EnrichingIs
  <2> QED
    BY <1>1, <1>2, <2>2 DEF Fine, Busy, Requesting, Writes, m
<1>3. CASE ~(l.stage = "status" \/ (l.stage = "list" /\ ok))
  <2> DEFINE good == IF l.stage = "details" THEN h.heard ELSE ok
  <2>1. m = Done(h, good) /\ good \in BOOLEAN
    BY <1>1, <1>3 DEF Ended, h, Local
  <2> HIDE DEF m
  <2>2. /\ m \in Local /\ m.pc = "done" /\ m.stage = "none" /\ m.tok = 0
        /\ m.op = h.op /\ m.applied = h.applied /\ m.heard = h.heard /\ m.rows = h.rows
        /\ m.answer = IF good THEN "ok" ELSE "failed"
    BY <1>1, <2>1, DoneIs
  <2>3. l.stage \in {"read", "details", "list", "write"}
    BY <1>3 DEF Local
  <2> QED
    BY <1>1, <1>3, <2>2, <2>3 DEF Fine, Busy, Requesting, Writes, m
<1> QED
  BY <1>2, <1>3

-----------------------------------------------------------------------------
(* Steps that neither take a lock nor change what is shared. *)

LEMMA Quietly ==
  ASSUME IInv, NEW c \in Call, NEW l \in Local, Fine(l), Goes(c, l), UNCHANGED Shared,
         ~RenewsToken(l), l.tok <= issued, ReadsList(l) => ReadsList(call[c])
  PROVE  IInv'
<1>1. l.pc \notin {"fetch", "fetching"}
  BY DEF RenewsToken
<1>2. ReadsList(l) => lists = 0
  BY DEF IInv, Stale
<1> QED
  BY <1>1, <1>2, CallGoes

\* c has nothing more to do with the token, nor with the list.
LEMMA Leaves ==
  ASSUME IInv, NEW c \in Call, NEW l \in Local, Fine(l), Goes(c, l), UNCHANGED Shared,
         l.pc \in {"enrich", "done"}, l.tok = 0
  PROVE  IInv'
<1>1. ~RenewsToken(l) /\ ~ReadsList(l)
  BY DEF RenewsToken, ReadsList, Requesting
<1>2. 0 <= issued
  BY CallsAssumption DEF IInv, TypeOK
<1> QED
  BY <1>1, <1>2, Quietly

\* l with another pc.
To(l, pc) == [l EXCEPT !.pc = pc]

LEMMA PcIs ==
  ASSUME NEW l \in Local, NEW pc \in Busy \cup {"idle", "done"}
  PROVE  LET m == To(l, pc)
         IN /\ m \in Local /\ m.pc = pc /\ m.stage = l.stage /\ m.tok = l.tok /\ m.again = l.again
            /\ m.op = l.op /\ m.applied = l.applied /\ m.heard = l.heard /\ m.rows = l.rows
            /\ m.answer = l.answer /\ m.tries = l.tries
  BY DEF Local, To

LEMMA CarryingIs ==
  ASSUME NEW l \in Local, NEW id \in 0 .. MaxTokens
  PROVE  LET m == Carrying(l, id)
         IN /\ m \in Local /\ m.pc = "slot" /\ m.stage = l.stage /\ m.tok = id
            /\ m.op = l.op /\ m.applied = l.applied /\ m.heard = l.heard /\ m.rows = l.rows
            /\ m.answer = l.answer
<1>1. "slot" \in Busy
  BY DEF Busy, Requesting
<1> QED
  BY <1>1 DEF Carrying, Local

\* A request that is renewed or sent again is the request it was.
LEMMA StillFine ==
  ASSUME NEW l \in Local, NEW m \in Local, Fine(l), l.pc \in Requesting, m.pc \in Requesting,
         m.stage = l.stage, m.op = l.op, m.applied = l.applied, m.heard = l.heard,
         m.rows = l.rows, m.answer = l.answer
  PROVE  Fine(m)
  BY DEF Fine, Requesting, Busy

LEMMA StartKeeps ==
  ASSUME IInv, NEW c \in Call, NEW op \in Ops, Start(c, op)
  PROVE  IInv'
<1> DEFINE n == [NoCall EXCEPT !.op = op]
           l == FirstStep[op]
<1>1. /\ n \in Local /\ n.op = op /\ n.stage = "none" /\ n.tok = 0 /\ n.tries = 0 /\ n.applied = 0
      /\ ~n.heard /\ ~n.rows /\ n.answer = "none"
  BY NoCallIs DEF Local
<1>2. /\ op = "read" => l = Request(n, "read")
      /\ op = "sim" => l = Request(n, "status")
      /\ op = "write" => l = Request(n, "write")
      /\ op = "list" => l = To(n, "list")
      /\ op \in {"kread", "kwrite"} => l = To(n, "kslot")
  BY DEF FirstStep, Ops, Writes, To
<1> HIDE DEF n, l
<1>3. "list" \in Busy /\ "kslot" \in Busy
  BY DEF Busy
<1>4. l \in Local /\ Fine(l) /\ l.tok = 0 /\ ~RenewsToken(l) /\ ~ReadsList(l)
  <2>1. CASE op = "list"
    <3>1. /\ l \in Local /\ l.pc = "list" /\ l.stage = n.stage /\ l.tok = n.tok
          /\ l.op = n.op /\ l.applied = n.applied /\ l.heard = n.heard /\ l.rows = n.rows
          /\ l.answer = n.answer
      BY <1>1, <1>2, <1>3, <2>1, PcIs
    <3> QED
      BY <1>1, <2>1, <3>1 DEF Fine, Requesting, Writes, RenewsToken, ReadsList
  <2>2. CASE op \in {"kread", "kwrite"}
    <3>1. /\ l \in Local /\ l.pc = "kslot" /\ l.stage = n.stage /\ l.tok = n.tok
          /\ l.op = n.op /\ l.applied = n.applied /\ l.heard = n.heard /\ l.rows = n.rows
          /\ l.answer = n.answer /\ l.tries = n.tries
      BY <1>1, <1>2, <1>3, <2>2, PcIs
    <3> QED
      BY <1>1, <2>2, <3>1, CallsAssumption DEF Fine, Requesting, Writes, RenewsToken, ReadsList
  <2>3. CASE op \in {"read", "sim", "write"}
    <3> DEFINE stage == IF op = "sim" THEN "status" ELSE op
    <3>1. l = Request(n, stage) /\ stage \in {"read", "status", "details", "list", "write"}
      BY <1>2, <2>3
    <3>2. /\ l \in Local /\ l.pc = "token" /\ l.stage = stage /\ l.tok = 0
          /\ l.op = n.op /\ l.applied = n.applied /\ l.heard = n.heard /\ l.rows = n.rows
          /\ l.answer = n.answer
      BY <1>1, <3>1, RequestIs
    <3> QED
      BY <1>1, <2>3, <3>2 DEF Fine, Requesting, Busy, Writes, RenewsToken, ReadsList
  <2> QED
    BY <2>1, <2>2, <2>3 DEF Ops, Writes
<1>5. 0 <= issued
  BY CallsAssumption DEF IInv, TypeOK
<1> QED
  BY <1>4, <1>5, Quietly DEF Start, l

-----------------------------------------------------------------------------
(* The list. *)

LEMMA ListedKeeps ==
  ASSUME IInv, NEW c \in Call, call[c].pc \in {"list", "listlock"}, Goes(c, Listed(call[c])),
         UNCHANGED Shared
  PROVE  IInv'
<1> DEFINE l == call[c]
           h == [l EXCEPT !.heard = TRUE]
           m == Enriching(h)
<1>1. l \in Local /\ Fine(l)
  BY CallIs
<1>2. /\ h \in Local /\ h.op = l.op /\ h.applied = l.applied /\ h.heard /\ h.rows = l.rows
      /\ h.answer = l.answer
  BY <1>1 DEF Local
<1> HIDE DEF h
<1>3. /\ m \in Local /\ m.pc = "enrich" /\ m.stage = "none" /\ m.tok = 0
      /\ m.op = h.op /\ m.applied = h.applied /\ m.heard = h.heard /\ m.rows = h.rows
      /\ m.answer = h.answer
  BY <1>2, EnrichingIs
<1> HIDE DEF m
<1>4. Fine(m)
  BY <1>1, <1>2, <1>3 DEF Fine, Busy, Requesting
<1> QED
  BY <1>3, <1>4, Leaves DEF Listed, m, h

LEMMA LookForListKeeps ==
  ASSUME IInv, NEW c \in Call, LookForList(c)
  PROVE  IInv'
<1> DEFINE l == call[c]
           m == To(l, "listlock")
<1>1. l \in Local /\ Fine(l) /\ l.pc = "list" /\ 0 <= issued
  BY CallIs, CallsAssumption DEF LookForList, At, IInv, TypeOK
<1>2. CASE Goes(c, Listed(l))
  BY <1>1, <1>2, ListedKeeps DEF LookForList
<1>3. CASE Goes(c, m)
  <2>1. "listlock" \in Busy
    BY DEF Busy
  <2>2. /\ m \in Local /\ m.pc = "listlock" /\ m.stage = l.stage /\ m.tok = l.tok
        /\ m.op = l.op /\ m.applied = l.applied /\ m.heard = l.heard /\ m.rows = l.rows
        /\ m.answer = l.answer
    BY <1>1, <2>1, PcIs
  <2> HIDE DEF m
  <2>3. Fine(m) /\ ~RenewsToken(m) /\ ~ReadsList(m)
    BY <1>1, <2>2 DEF Fine, Busy, Requesting, RenewsToken, ReadsList
  <2>4. m.tok <= issued
    BY <2>2 DEF IInv, Ranked
  <2> QED
    BY <1>3, <2>2, <2>3, <2>4, Quietly DEF LookForList
<1> QED
  BY <1>2, <1>3 DEF LookForList, To

\* The list is read by one who found no list under the lock.
LEMMA LockListKeeps ==
  ASSUME IInv, NEW c \in Call, LockList(c)
  PROVE  IInv'
<1> DEFINE l == call[c]
           m == Request(l, "list")
<1>1. l \in Local /\ Fine(l) /\ l.pc = "listlock" /\ 0 <= issued
  BY CallIs, CallsAssumption DEF LockList, At, IInv, TypeOK
<1>2. CASE Goes(c, Listed(l))
  BY <1>1, <1>2, ListedKeeps DEF LockList
<1>3. CASE ~(lists > 0) /\ Goes(c, m)
  <2>1. /\ m \in Local /\ m.pc = "token" /\ m.stage = "list" /\ m.tok = 0
        /\ m.op = l.op /\ m.applied = l.applied /\ m.heard = l.heard /\ m.rows = l.rows
        /\ m.answer = l.answer
    BY <1>1, RequestIs
  <2> HIDE DEF m
  <2>2. Fine(m) /\ ~RenewsToken(m)
    BY <1>1, <2>1 DEF Fine, Busy, Requesting, RenewsToken, Writes
  <2>3. lists = 0
    BY <1>3, CallsAssumption DEF IInv, TypeOK
  <2>4. \A d \in Call : ~ReadsList(call[d])
    BY DEF LockList, HoldsList, ReadsList
  <2>5. m.pc # "fetch" /\ m.pc # "fetching" /\ m.tok <= issued
    BY <1>1, <2>1
  <2> QED
    BY <1>3, <2>1, <2>2, <2>3, <2>4, <2>5, CallGoes DEF LockList
<1> QED
  BY <1>2, <1>3 DEF LockList

-----------------------------------------------------------------------------
(* The token. *)

\* A request that is under way goes on with another pc, or with a token.
LEMMA RequestKeeps ==
  ASSUME IInv, NEW c \in Call, call[c].pc \in Requesting, UNCHANGED Shared,
         \/ \E pc \in Requesting \ {"fetch", "fetching"} : Goes(c, To(call[c], pc))
         \/ Goes(c, Carrying(call[c], token.id))
  PROVE  IInv'
<1> DEFINE l == call[c]
<1>1. l \in Local /\ Fine(l) /\ l.tok <= issued /\ token.id <= issued /\ token.id \in 0 .. MaxTokens
  BY CallIs DEF IInv, Ranked, TypeOK
<1>2. ASSUME NEW m \in Local, Goes(c, m), m.pc \in Requesting \ {"fetch", "fetching"},
             m.stage = l.stage, m.op = l.op, m.applied = l.applied, m.heard = l.heard,
             m.rows = l.rows, m.answer = l.answer, m.tok <= issued
      PROVE  IInv'
  <2>1. Fine(m)
    BY <1>1, <1>2, StillFine
  <2>2. ~RenewsToken(m) /\ (ReadsList(m) => ReadsList(l))
    BY <1>2 DEF RenewsToken, ReadsList
  <2> QED
    BY <1>2, <2>1, <2>2, Quietly
<1>3. ASSUME NEW pc \in Requesting \ {"fetch", "fetching"}, Goes(c, To(l, pc))
      PROVE  IInv'
  <2> DEFINE m == To(l, pc)
  <2>1. pc \in Busy \cup {"idle", "done"}
    BY DEF Busy
  <2>2. /\ m \in Local /\ m.pc = pc /\ m.stage = l.stage /\ m.tok = l.tok
        /\ m.op = l.op /\ m.applied = l.applied /\ m.heard = l.heard /\ m.rows = l.rows
        /\ m.answer = l.answer
    BY <1>1, <2>1, PcIs
  <2> HIDE DEF m
  <2> QED
    BY <1>1, <1>2, <1>3, <2>2 DEF m
<1>4. CASE Goes(c, Carrying(l, token.id))
  <2> DEFINE m == Carrying(l, token.id)
  <2>1. /\ m \in Local /\ m.pc = "slot" /\ m.stage = l.stage /\ m.tok = token.id
        /\ m.op = l.op /\ m.applied = l.applied /\ m.heard = l.heard /\ m.rows = l.rows
        /\ m.answer = l.answer
    BY <1>1, CarryingIs
  <2>2. m.pc \in Requesting \ {"fetch", "fetching"}
    BY <2>1 DEF Requesting
  <2> HIDE DEF m
  <2> QED
    BY <1>1, <1>2, <1>4, <2>1, <2>2 DEF m
<1> QED
  BY <1>3, <1>4

\* l holds the lock and waits for a slot, or for the token.
Renewing(l, pc) == [l EXCEPT !.pc = pc, !.tok = IF pc = "fetching" THEN 0 ELSE @]

LEMMA RenewingIs ==
  ASSUME NEW l \in Local, Fine(l), l.pc \in Requesting, NEW pc \in {"fetch", "fetching"}
  PROVE  LET m == Renewing(l, pc)
         IN /\ m \in Local /\ Fine(m) /\ m.pc = pc /\ m.stage = l.stage /\ m.again = l.again
            /\ m.tok = IF pc = "fetching" THEN 0 ELSE l.tok
<1> DEFINE m == Renewing(l, pc)
           tok == IF pc = "fetching" THEN 0 ELSE l.tok
<1>1. pc \in Busy \cup {"idle", "done"} /\ pc \in Requesting
  BY DEF Busy, Requesting
<1>2. m = [l EXCEPT !.pc = pc, !.tok = tok] /\ tok \in 0 .. MaxTokens
  BY CallsAssumption DEF Renewing, Local
<1> HIDE DEF m, tok
<1>3. /\ m \in Local /\ m.pc = pc /\ m.stage = l.stage /\ m.again = l.again /\ m.tok = tok
      /\ m.op = l.op /\ m.applied = l.applied /\ m.heard = l.heard /\ m.rows = l.rows
      /\ m.answer = l.answer
  BY <1>1, <1>2 DEF Local
<1> QED
  BY <1>1, <1>3, StillFine DEF m, tok

LEMMA LockTokenKeeps ==
  ASSUME IInv, NEW c \in Call, LockToken(c)
  PROVE  IInv'
<1> DEFINE l == call[c]
           m == Renewing(l, "fetch")
<1>1. l \in Local /\ Fine(l) /\ l.pc = "lock" /\ l.pc \in Requesting
  BY CallIs DEF LockToken, At, Requesting
<1>2. CASE Goes(c, Carrying(l, token.id))
  BY <1>1, <1>2, RequestKeeps DEF LockToken
<1>3. CASE ~(~l.again /\ IsFresh) /\ Goes(c, m)
  <2>1. m \in Local /\ Fine(m) /\ m.pc = "fetch" /\ m.stage = l.stage /\ m.again = l.again /\ m.tok = l.tok
    BY <1>1, RenewingIs
  <2> HIDE DEF m
  <2>2. \A d \in Call : ~RenewsToken(call[d])
    BY DEF LockToken, HoldsToken, RenewsToken
  <2>3. ReadsList(m) => lists = 0 /\ ReadsList(l)
    BY <1>1, <2>1 DEF ReadsList, IInv, Stale
  <2>4. m.tok <= issued /\ (m.again \/ ~IsFresh) /\ m.pc # "fetching"
    BY <1>3, <2>1 DEF IInv, Ranked, Local
  <2> QED
    BY <1>3, <2>1, <2>2, <2>3, <2>4, CallGoes DEF LockToken
<1>4. [l EXCEPT !.pc = "fetch"] = m
  BY <1>1 DEF Renewing, Local
<1> QED
  BY <1>2, <1>3, <1>4 DEF LockToken

LEMMA SendFetchKeeps ==
  ASSUME IInv, NEW c \in Call, SendFetch(c)
  PROVE  IInv'
<1> DEFINE l == call[c]
           m == Renewing(l, "fetching")
<1>1. l \in Local /\ Fine(l) /\ l.pc = "fetch" /\ l.pc \in Requesting /\ RenewsToken(l)
  BY CallIs DEF SendFetch, At, Requesting, RenewsToken
<1>2. m \in Local /\ Fine(m) /\ m.pc = "fetching" /\ m.stage = l.stage /\ m.tok = 0
  BY <1>1, RenewingIs
<1>3. Goes(c, m) /\ UNCHANGED Shared
  BY DEF SendFetch, Renewing
<1> HIDE DEF m
<1>4. ReadsList(m) => lists = 0 /\ ReadsList(l)
  BY <1>1, <1>2 DEF ReadsList, IInv, Stale
<1>5. 0 <= issued
  BY CallsAssumption DEF IInv, TypeOK
<1> QED
  BY <1>1, <1>2, <1>3, <1>4, <1>5, CallGoes

LEMMA IssueKeeps ==
  ASSUME IInv, NEW c \in Call, Issue(c)
  PROVE  IInv'
<1> DEFINE l == call[c]
           m == [l EXCEPT !.tok = issued + 1]
<1>1. l \in Local /\ Fine(l) /\ l.pc = "fetching" /\ l.pc \in Requesting /\ RenewsToken(l)
  BY CallIs DEF Issue, At, Requesting, RenewsToken
<1>2. /\ issued \in Nat /\ issued' = issued + 1 /\ issued + 1 \in 0 .. MaxTokens
      /\ token.id \in Nat /\ token.id <= issued
  BY CallsAssumption DEF Issue, IInv, TypeOK, Ranked
<1>3. /\ m \in Local /\ m.pc = l.pc /\ m.stage = l.stage /\ m.tok = issued + 1
      /\ m.op = l.op /\ m.applied = l.applied /\ m.heard = l.heard /\ m.rows = l.rows
      /\ m.answer = l.answer
  BY <1>1, <1>2 DEF Local
<1>4. Goes(c, m) /\ UNCHANGED <<token, lists, v2>>
  BY DEF Issue
<1> HIDE DEF m
<1>5. Fine(m)
  BY <1>1, <1>3, StillFine
<1>6. SharedTyped' /\ (IsFresh' <=> IsFresh)
  BY <1>2, <1>4 DEF SharedTyped, IInv, TypeOK, IsFresh
<1>7. ReadsList(m) => lists = 0 /\ ReadsList(l)
  BY <1>1, <1>3 DEF ReadsList, IInv, Stale
<1> HIDE DEF l
<1>8. Respects(c, m)
  BY <1>1, <1>2, <1>3, <1>4, <1>6, <1>7 DEF Respects, l
<1> QED
  BY <1>3, <1>4, <1>5, <1>8, CallMoves

\* The token that replaces the cached one is the last that was issued: nobody else
\* holds the lock.
LEMMA FetchedKeeps ==
  ASSUME IInv, NEW c \in Call, Fetched(c)
  PROVE  IInv' /\ token'.id >= token.id
<1> DEFINE l == call[c]
           m == Carrying(l, l.tok)
<1>1. l \in Local /\ Fine(l) /\ l.pc = "fetching" /\ l.pc \in Requesting /\ RenewsToken(l)
  BY CallIs DEF Fetched, At, Requesting, RenewsToken
<1>2. /\ l.tok = issued /\ issued \in 0 .. MaxTokens
      /\ token.id \in Nat /\ token.id <= issued
  BY <1>1 DEF Fetched, IInv, TypeOK, Ranked
<1>3. Goes(c, m) /\ UNCHANGED <<issued, lists, v2>> /\ token' = [id |-> issued, left |-> Life]
  BY <1>2 DEF Fetched
<1>4. /\ m \in Local /\ m.pc = "slot" /\ m.stage = l.stage /\ m.tok = issued
      /\ m.op = l.op /\ m.applied = l.applied /\ m.heard = l.heard /\ m.rows = l.rows
      /\ m.answer = l.answer
  BY <1>1, <1>2, CarryingIs
<1> HIDE DEF m
<1>5. Fine(m)
  <2>1. "slot" \in Requesting
    BY DEF Requesting
  <2> QED
    BY <1>1, <1>4, <2>1, StillFine
<1>6. SharedTyped' /\ token'.id = issued
  BY <1>2, <1>3, CallsAssumption DEF SharedTyped, IInv, TypeOK
<1>7. ReadsList(m) => lists = 0 /\ ReadsList(l)
  BY <1>1, <1>4 DEF ReadsList, IInv, Stale
<1>8. ~RenewsToken(m)
  BY <1>4 DEF RenewsToken
<1> HIDE DEF l
<1>9. Respects(c, m)
  BY <1>1, <1>2, <1>3, <1>4, <1>6, <1>7, <1>8 DEF Respects, l
<1> QED
  BY <1>2, <1>3, <1>4, <1>5, <1>6, <1>9, CallMoves

-----------------------------------------------------------------------------
(* Requests. *)

\* l is c when its request has ended: as it was, or after its write took effect.
Lately(c, l, ok) ==
  /\ l = call[c] \/ (l = Applied(call[c]) /\ call[c].stage = "write")
  /\ call[c].stage = "write" /\ ok => l = Applied(call[c])

LEMMA RequestEnds ==
  ASSUME IInv, NEW c \in Call, call[c].pc \in Requesting, NEW ok \in BOOLEAN,
         NEW l, Lately(c, l, ok)
  PROVE  LET m == Ended(l, ok)
         IN m \in Local /\ Fine(m) /\ m.pc \in {"enrich", "done"} /\ m.tok = 0
<1>1. call[c] \in Local /\ Fine(call[c]) /\ call[c].pc \in Busy
  BY CallIs DEF Busy
<1>2. call[c].applied = 0 /\ call[c].answer = "none"
  BY <1>1 DEF Fine
<1>3. LET a == Applied(call[c])
      IN /\ a \in Local /\ a.applied = 1 /\ a.stage = call[c].stage /\ a.op = call[c].op
         /\ a.answer = call[c].answer /\ a.heard = call[c].heard /\ a.rows = call[c].rows
  BY <1>1, <1>2 DEF Applied, Local
<1>4. /\ l \in Local /\ l.stage = call[c].stage /\ l.op = call[c].op /\ l.applied \in {0, 1}
      /\ l.answer = "none" /\ l.heard = call[c].heard /\ l.rows = call[c].rows
      /\ l.applied = 1 => l.stage = "write"
      /\ l.stage = "write" /\ ok => l.applied = 1
  BY <1>1, <1>2, <1>3 DEF Lately
<1>5. l.stage # "none" /\ l.op = (IF l.stage \in {"status", "details"} THEN "sim" ELSE l.stage)
  BY <1>1, <1>4 DEF Fine
<1>6. /\ l.stage \in {"status", "list"} => ~l.heard /\ ~l.rows
      /\ l.stage = "details" => ~l.rows
  BY <1>1, <1>4 DEF Fine
<1> QED
  BY <1>4, <1>5, <1>6, EndedIs

LEMMA EndedKeeps ==
  ASSUME IInv, NEW c \in Call, call[c].pc \in Requesting, NEW ok \in BOOLEAN,
         NEW l, Lately(c, l, ok), Goes(c, Ended(l, ok)), UNCHANGED Shared
  PROVE  IInv'
  BY RequestEnds, Leaves

LEMMA RefusedKeeps ==
  ASSUME IInv, NEW c \in Call, call[c].pc = "wire", Goes(c, Refused(call[c])), UNCHANGED Shared
  PROVE  IInv'
<1> DEFINE l == call[c]
           m == [l EXCEPT !.again = TRUE, !.pc = "token"]
<1>1. l \in Local /\ Fine(l) /\ l.pc \in Requesting
  BY CallIs DEF Requesting
<1>2. CASE l.again
  <2>1. Lately(c, l, FALSE)
    BY DEF Lately
  <2> QED
    BY <1>1, <1>2, <2>1, EndedKeeps DEF Refused
<1>3. CASE ~l.again
  <2>1. "token" \in Requesting /\ "token" \in Busy
    BY DEF Busy, Requesting
  <2>2. /\ m \in Local /\ m.pc = "token" /\ m.stage = l.stage /\ m.tok = l.tok
        /\ m.op = l.op /\ m.applied = l.applied /\ m.heard = l.heard /\ m.rows = l.rows
        /\ m.answer = l.answer
    BY <1>1, <2>1 DEF Local
  <2>3. Goes(c, m)
    BY <1>3 DEF Refused
  <2> HIDE DEF m
  <2>4. Fine(m)
    BY <1>1, <2>1, <2>2, StillFine
  <2>5. ~RenewsToken(m) /\ (ReadsList(m) => ReadsList(l)) /\ m.tok <= issued
    BY <1>1, <2>2 DEF RenewsToken, ReadsList, IInv, Ranked
  <2> QED
    BY <2>2, <2>3, <2>4, <2>5, Quietly
<1> QED
  BY <1>2, <1>3

LEMMA NotFetchedKeeps ==
  ASSUME IInv, NEW c \in Call, NotFetched(c)
  PROVE  IInv'
<1>1. call[c].pc \in Requesting
  BY DEF NotFetched, At, Requesting
<1>2. Lately(c, call[c], FALSE)
  BY DEF Lately
<1> QED
  BY <1>1, <1>2, EndedKeeps, RequestKeeps DEF NotFetched

LEMMA ReadKeeps ==
  ASSUME IInv, NEW c \in Call, Read(c)
  PROVE  IInv'
<1> DEFINE l == call[c]
<1>1. l.pc = "wire" /\ l.pc \in Requesting /\ l.stage # "write"
  BY DEF Read, At, Requesting
<1>2. \A ok \in BOOLEAN : Lately(c, l, ok)
  BY <1>1 DEF Lately
<1>3. CASE UNCHANGED Shared
  BY <1>1, <1>2, <1>3, EndedKeeps, RefusedKeeps DEF Read
<1>4. CASE /\ l.stage = "list" /\ Goes(c, Ended(l, TRUE))
           /\ lists' = ListTtl /\ UNCHANGED <<token, issued, v2>>
  <2> DEFINE m == Ended(l, TRUE)
  <2>1. m \in Local /\ Fine(m) /\ m.pc \in {"enrich", "done"} /\ m.tok = 0
    BY <1>1, <1>2, RequestEnds
  <2>2. ReadsList(l)
    BY <1>1, <1>4 DEF ReadsList
  <2> HIDE DEF m
  <2>3. ~RenewsToken(m) /\ ~ReadsList(m)
    BY <2>1 DEF RenewsToken, ReadsList, Requesting
  <2>4. SharedTyped' /\ (IsFresh' <=> IsFresh) /\ issued \in Nat /\ token.id <= issued
    BY <1>4, CallsAssumption DEF SharedTyped, IInv, TypeOK, IsFresh, Ranked
  <2>5. Respects(c, m)
    BY <1>4, <2>1, <2>2, <2>3, <2>4 DEF Respects
  <2> QED
    BY <1>4, <2>1, <2>5, CallMoves DEF m
<1> QED
  BY <1>3, <1>4 DEF Read, Shared

LEMMA WriteKeeps ==
  ASSUME IInv, NEW c \in Call, Write(c)
  PROVE  IInv'
<1>1. call[c].pc = "wire" /\ call[c].pc \in Requesting /\ call[c].stage = "write" /\ UNCHANGED Shared
  BY DEF Write, At, Requesting
<1>2. /\ Lately(c, Applied(call[c]), TRUE)
      /\ \A l \in {call[c], Applied(call[c])} : Lately(c, l, FALSE)
  BY <1>1 DEF Lately
<1> QED
  BY <1>1, <1>2, EndedKeeps, RefusedKeeps DEF Write, WriteFails

-----------------------------------------------------------------------------
(* v2 rows. *)

\* The chunks asked and to ask, and whether there are rows.
Chunked(l, todo, asking, rows) == [l EXCEPT !.todo = todo, !.asking = asking, !.rows = rows]

LEMMA ChunkedKeeps ==
  ASSUME IInv, NEW c \in Call, call[c].pc = "enrich",
         NEW todo \in SUBSET (Labels \X SUBSET Sims), NEW asking \in SUBSET (Labels \X SUBSET Sims),
         NEW rows \in BOOLEAN, Goes(c, Chunked(call[c], todo, asking, rows)),
         UNCHANGED <<token, issued, lists>>, v2' \in [Labels -> [Sims -> 0 .. V2Ttl]]
  PROVE  IInv'
<1> DEFINE l == call[c]
           m == Chunked(l, todo, asking, rows)
<1>1. l \in Local /\ Fine(l) /\ l.pc = "enrich" /\ l.stage = "none"
  BY CallIs DEF Fine, Requesting
<1>2. /\ m \in Local /\ m.pc = l.pc /\ m.stage = l.stage /\ m.tok = l.tok
      /\ m.op = l.op /\ m.applied = l.applied /\ m.heard = l.heard /\ m.answer = l.answer
  BY <1>1 DEF Local, Chunked
<1> HIDE DEF m
<1>3. Fine(m)
  BY <1>1, <1>2 DEF Fine, Requesting, Busy
<1>4. ~RenewsToken(m) /\ ~ReadsList(m) /\ m.tok <= issued /\ m.pc \notin {"fetch", "fetching"}
  BY <1>1, <1>2 DEF RenewsToken, ReadsList, IInv, Ranked
<1>5. SharedTyped' /\ (IsFresh' <=> IsFresh) /\ issued \in Nat /\ token.id <= issued
  BY CallsAssumption DEF SharedTyped, IInv, TypeOK, IsFresh, Ranked
<1>6. Respects(c, m)
  BY <1>4, <1>5 DEF Respects
<1> QED
  BY <1>2, <1>3, <1>6, CallMoves DEF m

LEMMA AskKeeps ==
  ASSUME IInv, NEW c \in Call, Ask(c)
  PROVE  IInv'
<1> DEFINE l == call[c]
<1>1. l \in Local /\ l.pc = "enrich"
  BY CallIs DEF Ask, AskV2, V2Rows, At
<1>2. PICK label \in Labels, chunk \in SUBSET Sims : AskV2(c, label, chunk) \/ V2Rows(c, label, chunk)
  BY DEF Ask
<1> HIDE DEF Labels
<1>3. CASE AskV2(c, label, chunk)
  <2> DEFINE cached == {x \in chunk : v2[label][x] > 0}
             todo == l.todo \ {<<label, chunk>>}
             asking == l.asking \cup (IF cached = chunk THEN {} ELSE {<<label, chunk \ cached>>})
             rows == l.rows \/ cached # {}
  <2>1. /\ todo \in SUBSET (Labels \X SUBSET Sims) /\ asking \in SUBSET (Labels \X SUBSET Sims)
        /\ rows \in BOOLEAN
    BY <1>1 DEF Local
  <2>2. Goes(c, Chunked(l, todo, asking, rows)) /\ UNCHANGED Shared
    BY <1>1, <1>3 DEF AskV2, Chunked, Local
  <2> HIDE DEF todo, asking, rows
  <2> QED
    BY <1>1, <2>1, <2>2, ChunkedKeeps DEF Shared, IInv, TypeOK
<1>4. CASE V2Rows(c, label, chunk)
  <2>1. PICK found \in SUBSET chunk :
          /\ Goes(c, [l EXCEPT !.asking = @ \ {<<label, chunk>>}, !.rows = @ \/ found # {}])
          /\ v2' = [v2 EXCEPT ![label] = [x \in Sims |-> IF x \in found THEN V2Ttl ELSE @[x]]]
    BY <1>4 DEF V2Rows
  <2> DEFINE asking == l.asking \ {<<label, chunk>>}
             rows == l.rows \/ found # {}
  <2>2. /\ l.todo \in SUBSET (Labels \X SUBSET Sims) /\ asking \in SUBSET (Labels \X SUBSET Sims)
        /\ rows \in BOOLEAN
    BY <1>1 DEF Local
  <2>3. Goes(c, Chunked(l, l.todo, asking, rows))
    BY <1>1, <2>1 DEF Chunked, Local
  <2>4. v2 \in [Labels -> [Sims -> 0 .. V2Ttl]] /\ V2Ttl \in 0 .. V2Ttl
    BY CallsAssumption DEF IInv, TypeOK
  <2>5. [x \in Sims |-> IF x \in found THEN V2Ttl ELSE v2[label][x]] \in [Sims -> 0 .. V2Ttl]
    BY <2>4
  <2>6. v2' \in [Labels -> [Sims -> 0 .. V2Ttl]]
    BY <2>1, <2>4, <2>5
  <2>7. UNCHANGED <<token, issued, lists>>
    BY <1>4 DEF V2Rows
  <2> HIDE DEF asking, rows
  <2> QED
    BY <1>1, <2>2, <2>3, <2>6, <2>7, ChunkedKeeps
<1> QED
  BY <1>2, <1>3, <1>4

LEMMA EnrichedKeeps ==
  ASSUME IInv, NEW c \in Call, Enriched(c)
  PROVE  IInv'
<1> DEFINE l == call[c]
<1>1. l \in Local /\ Fine(l) /\ l.pc = "enrich" /\ UNCHANGED Shared
  BY CallIs DEF Enriched, At
<1>2. CASE (l.op = "list" \/ l.rows) /\ Goes(c, Done(l, TRUE))
  <2> DEFINE m == Done(l, TRUE)
  <2>1. /\ m \in Local /\ m.pc = "done" /\ m.stage = "none" /\ m.tok = 0
        /\ m.op = l.op /\ m.applied = l.applied /\ m.heard = l.heard /\ m.rows = l.rows
        /\ m.answer = "ok"
    BY <1>1, DoneIs
  <2> HIDE DEF m
  <2>2. Fine(m)
    BY <1>1, <1>2, <2>1 DEF Fine, Requesting, Busy, Writes
  <2> QED
    BY <1>1, <1>2, <2>1, <2>2, Leaves DEF m
<1>3. CASE ~(l.op = "list" \/ l.rows) /\ Goes(c, Request(l, "details"))
  <2> DEFINE m == Request(l, "details")
  <2>1. /\ m \in Local /\ m.pc = "token" /\ m.stage = "details" /\ m.tok = 0
        /\ m.op = l.op /\ m.applied = l.applied /\ m.heard = l.heard /\ m.rows = l.rows
        /\ m.answer = l.answer
    BY <1>1, RequestIs
  <2> HIDE DEF m
  <2>2. Fine(m)
    BY <1>1, <1>3, <2>1 DEF Fine, Requesting, Busy, Writes
  <2>3. ~RenewsToken(m) /\ ~ReadsList(m) /\ m.tok <= issued
    BY <2>1, CallsAssumption DEF RenewsToken, ReadsList, IInv, TypeOK
  <2> QED
    BY <1>1, <1>3, <2>1, <2>2, <2>3, Quietly DEF m
<1> QED
  BY <1>2, <1>3 DEF Enriched

-----------------------------------------------------------------------------
(* Kite, and the rest. *)

\* A call of Kite that goes on is fine as long as it may be repeated.
LEMMA KiteGoes ==
  ASSUME IInv, NEW c \in Call, NEW l \in Local, call[c].pc \in {"kslot", "kwire", "ksleep"},
         Goes(c, l), UNCHANGED Shared, l.pc \in {"kslot", "kwire", "ksleep"},
         l.pc \in {"kslot", "ksleep"} => l.tries < Attempts,
         l.stage = call[c].stage, l.op = call[c].op, l.applied = call[c].applied,
         l.answer = call[c].answer, l.tok = call[c].tok
  PROVE  IInv'
<1>1. Fine(call[c]) /\ call[c].tok <= issued
  BY CallIs DEF IInv, Ranked
<1>2. Fine(l)
  BY <1>1 DEF Fine, Requesting, Busy
<1>3. ~RenewsToken(l) /\ ~ReadsList(l)
  BY DEF RenewsToken, ReadsList, Requesting
<1> QED
  BY <1>1, <1>2, <1>3, Quietly

LEMMA KiteSendKeeps ==
  ASSUME IInv, NEW c \in Call, KiteSend(c)
  PROVE  IInv'
<1> DEFINE l == call[c]
           m == [l EXCEPT !.pc = "kwire", !.tries = @ + 1]
<1>1. l \in Local /\ l.pc = "kslot" /\ l.tries < Attempts
  BY CallIs DEF KiteSend, At, Fine
<1>2. "kwire" \in Busy /\ l.tries + 1 \in 0 .. Attempts
  BY <1>1, CallsAssumption DEF Busy, Local
<1>3. /\ m \in Local /\ m.pc = "kwire" /\ m.stage = l.stage /\ m.op = l.op
      /\ m.applied = l.applied /\ m.answer = l.answer /\ m.tok = l.tok
  BY <1>1, <1>2 DEF Local
<1>4. Goes(c, m) /\ UNCHANGED Shared
  BY DEF KiteSend
<1> HIDE DEF m
<1> QED
  BY <1>1, <1>3, <1>4, KiteGoes

LEMMA KiteSleepsKeeps ==
  ASSUME IInv, NEW c \in Call, KiteSleeps(c)
  PROVE  IInv'
<1> DEFINE l == call[c]
           m == To(l, "kslot")
<1>1. l \in Local /\ l.pc = "ksleep" /\ l.tries < Attempts /\ "kslot" \in Busy
  BY CallIs DEF KiteSleeps, At, Fine, Busy
<1>2. /\ m \in Local /\ m.pc = "kslot" /\ m.stage = l.stage /\ m.op = l.op
      /\ m.applied = l.applied /\ m.answer = l.answer /\ m.tok = l.tok /\ m.tries = l.tries
  BY <1>1, PcIs
<1>3. Goes(c, m) /\ UNCHANGED Shared
  BY DEF KiteSleeps, To
<1> HIDE DEF m
<1> QED
  BY <1>1, <1>2, <1>3, KiteGoes

LEMMA KiteAnswersKeeps ==
  ASSUME IInv, NEW c \in Call, KiteAnswers(c)
  PROVE  IInv'
<1> DEFINE l == call[c]
<1>1. /\ l \in Local /\ Fine(l) /\ l.pc = "kwire" /\ UNCHANGED Shared
  BY CallIs DEF KiteAnswers, At
<1>2. l.op \in {"kread", "kwrite"} /\ l.applied = 0 /\ l.answer = "none"
  BY <1>1 DEF Fine, Busy
<1>3. LET a == Applied(l)
      IN a \in Local /\ a.applied = 1 /\ a.op = l.op /\ a.pc = l.pc
  BY <1>1, <1>2 DEF Applied, Local
<1>4. ASSUME NEW m \in {l, Applied(l)}, NEW ok \in BOOLEAN, Goes(c, Done(m, ok)),
             l.op = "kwrite" /\ ok => m = Applied(l)
      PROVE  IInv'
  <2> DEFINE d == Done(m, ok)
  <2>1. m \in Local /\ m.op = l.op /\ m.applied \in {0, 1} /\ (l.op = "kwrite" /\ ok => m.applied = 1)
    BY <1>1, <1>2, <1>3, <1>4
  <2>2. /\ d \in Local /\ d.pc = "done" /\ d.stage = "none" /\ d.tok = 0 /\ d.op = m.op
        /\ d.applied = m.applied /\ d.answer = IF ok THEN "ok" ELSE "failed"
    BY <2>1, DoneIs
  <2> HIDE DEF d
  <2>3. Fine(d)
    BY <1>2, <2>1, <2>2 DEF Fine, Requesting, Busy, Writes
  <2> QED
    BY <1>1, <1>4, <2>2, <2>3, Leaves DEF d
<1>5. CASE \E m \in {l, Applied(l)} : MayRetry(m) /\ Goes(c, To(m, "ksleep")) /\ (m = l \/ l.op \in Writes)
  <2> DEFINE m == To(l, "ksleep")
  <2>1. "ksleep" \in Busy
    BY DEF Busy
  <2>2. /\ m \in Local /\ m.pc = "ksleep" /\ m.stage = l.stage /\ m.op = l.op
        /\ m.applied = l.applied /\ m.answer = l.answer /\ m.tok = l.tok /\ m.tries = l.tries
    BY <1>1, <2>1, PcIs
  <2>3. l.tries < Attempts /\ Goes(c, m)
    BY <1>3, <1>5 DEF MayRetry, Writes
  <2> HIDE DEF m
  <2> QED
    BY <1>1, <2>2, <2>3, KiteGoes
<1> QED
  BY <1>1, <1>2, <1>4, <1>5 DEF KiteAnswers, Writes, To

LEMMA CancelKeeps ==
  ASSUME IInv, NEW c \in Call, Cancel(c)
  PROVE  IInv'
<1> DEFINE m == To(NoCall, "done")
<1>1. /\ m \in Local /\ m.pc = "done" /\ m.stage = "none" /\ m.tok = 0 /\ m.op = "none"
      /\ m.applied = 0 /\ m.answer = "none" /\ ~m.heard /\ ~m.rows
  BY NoCallIs, PcIs
<1>2. Goes(c, m) /\ UNCHANGED Shared
  BY DEF Cancel, To
<1> HIDE DEF m
<1>3. Fine(m)
  BY <1>1 DEF Fine, Requesting, Busy, Writes
<1> QED
  BY <1>1, <1>2, <1>3, Leaves

LEMMA TickKeeps ==
  ASSUME IInv, Tick
  PROVE  IInv' /\ token'.id = token.id
<1>1. token \in [id : 0 .. MaxTokens, left : -Grace .. Life] /\ lists \in 0 .. ListTtl
      /\ v2 \in [Labels -> [Sims -> 0 .. V2Ttl]]
  BY DEF IInv, TypeOK
<1>2. \A n \in Int, floor \in Int : n >= floor => Less(n, floor) \in floor .. n
  BY DEF Less
<1>3. token.left \in Int /\ token.left >= -Grace /\ -Grace \in Int
  BY <1>1, CallsAssumption
<1>4. Less(token.left, -Grace) \in -Grace .. Life /\ Less(token.left, -Grace) <= token.left
  BY <1>1, <1>2, <1>3, CallsAssumption
<1>5. token' \in [id : 0 .. MaxTokens, left : -Grace .. Life] /\ token'.id = token.id
      /\ token'.left <= token.left
  BY <1>1, <1>4 DEF Tick
<1>6. lists' \in 0 .. ListTtl /\ (lists = 0 => lists' = 0)
  BY <1>1, <1>2, CallsAssumption DEF Tick
<1>7. v2' \in [Labels -> [Sims -> 0 .. V2Ttl]]
  <2>1. \A n \in 0 .. V2Ttl : Less(n, 0) \in 0 .. V2Ttl
    BY CallsAssumption DEF Less
  <2> QED
    BY <1>1, <2>1 DEF Tick
<1>8. issued' = issued /\ call' = call
  BY DEF Tick
<1>9. IsFresh' => IsFresh
  BY <1>1, <1>5, CallsAssumption DEF IsFresh
<1>10. TypeOK' /\ Alone' /\ Ranked'
  BY <1>5, <1>6, <1>7, <1>8 DEF IInv, TypeOK, Alone, Ranked
<1>11. Stale'
  BY <1>6, <1>8, <1>9 DEF IInv, Stale
<1> QED
  BY <1>5, <1>8, <1>10, <1>11 DEF IInv

-----------------------------------------------------------------------------
(* Theorems. *)

LEMMA RequestStepsKeep ==
  ASSUME IInv, NEW c \in Call, LookForToken(c) \/ Send(c)
  PROVE  IInv'
<1>1. /\ "lock" \in Requesting \ {"fetch", "fetching"} /\ "wire" \in Requesting \ {"fetch", "fetching"}
      /\ call[c].pc \in Requesting
  BY DEF LookForToken, Send, At, Requesting
<1> QED
  BY <1>1, RequestKeeps DEF LookForToken, Send, To

\* A call is fine and a lock has one holder, whatever the calls do and whenever time
\* passes.
THEOREM Invariance == Spec => []IInv
<1>1. Init => IInv
  <2> SUFFICES ASSUME Init PROVE IInv
    OBVIOUS
  <2>1. TypeOK
    BY NoCallIs, CallsAssumption DEF Init, TypeOK
  <2>2. \A c \in Call : call[c] = NoCall
    BY DEF Init
  <2>3. Fine(NoCall) /\ ~RenewsToken(NoCall) /\ ~ReadsList(NoCall)
    BY NoCallIs DEF Fine, RenewsToken, ReadsList, Requesting, Busy, Writes
  <2>4. Alone
    BY <2>2, <2>3 DEF Alone
  <2>5. Ranked
    BY <2>2, NoCallIs DEF Ranked, Init
  <2>6. Stale
    BY <2>2, <2>3, NoCallIs DEF Stale
  <2> QED
    BY <2>1, <2>2, <2>3, <2>4, <2>5, <2>6 DEF IInv
<1>2. IInv /\ [Next]_vars => IInv'
  <2> SUFFICES ASSUME IInv, [Next]_vars PROVE IInv'
    OBVIOUS
  <2>1. ASSUME NEW c \in Call, Step(c)
        PROVE  IInv'
    BY <2>1, LookForListKeeps, RequestStepsKeep, IssueKeeps, FetchedKeeps, NotFetchedKeeps, ReadKeeps,
       WriteKeeps, AskKeeps, EnrichedKeeps, KiteAnswersKeeps, KiteSleepsKeeps DEF Step
  <2>2. ASSUME NEW c \in Call, Waits(c)
        PROVE  IInv'
    BY <2>2, LockListKeeps, LockTokenKeeps, SendFetchKeeps, RequestStepsKeep, KiteSendKeeps DEF Waits
  <2>3. ASSUME NEW c \in Call, NEW op \in OpsOf[c], Start(c, op)
        PROVE  IInv'
    BY <2>3, StartKeeps, CallsAssumption
  <2>4. CASE UNCHANGED vars
    BY <2>4 DEF vars, IInv, TypeOK, Alone, Ranked, Stale, IsFresh
  <2> QED
    BY <2>1, <2>2, <2>3, <2>4, CancelKeeps, TickKeeps DEF Next
<1> QED
  BY <1>1, <1>2, PTL DEF Spec

\* The caches, the token and the calls are of their types.
THEOREM TypeCorrect == Spec => []TypeOK
  BY Invariance, PTL DEF IInv

\* A write takes effect at most once, and did if it was reported: neither a 401, nor
\* a renewal of the token, nor Kite's retries send it again.
THEOREM WritesHappenOnce == Spec => []WrittenOnce
<1>1. IInv => WrittenOnce
  BY DEF IInv, WrittenOnce, Fine
<1> QED
  BY <1>1, Invariance, PTL

\* A SIM is answered for if one of its sources answered, and only then.
THEOREM AnswersHaveSources == Spec => []AnsweredBySome
<1>1. IInv => AnsweredBySome
  BY DEF IInv, AnsweredBySome, Fine
<1> QED
  BY <1>1, Invariance, PTL

\* The cached token is never replaced by an older one: a token on its way is the
\* last that was issued, as its renewal holds the lock.
THEOREM TokensAdvance == Spec => TokenOnlyAdvances
<1>1. IInv /\ [Next]_vars => [token'.id >= token.id]_token
  <2> SUFFICES ASSUME IInv, [Next]_vars, token' # token PROVE token'.id >= token.id
    OBVIOUS
  <2>1. CASE \E c \in Call : Fetched(c)
    BY <2>1, FetchedKeeps
  <2>2. CASE Tick
    BY <2>2, TickKeeps, CallsAssumption DEF IInv, TypeOK
  <2>3. ASSUME NEW c \in Call, Step(c), ~Fetched(c) PROVE FALSE
    BY <2>3 DEF Step, LookForList, LookForToken, Issue, NotFetched, Read, Write, Ask, AskV2, V2Rows,
       Enriched, KiteAnswers, KiteSleeps, Shared
  <2>4. ASSUME NEW c \in Call, Waits(c) PROVE FALSE
    BY <2>4 DEF Waits, LockList, LockToken, SendFetch, Send, KiteSend, Shared
  <2> QED
    BY <2>1, <2>2, <2>3, <2>4 DEF Next, Start, Cancel, Shared, vars
<1> QED
  BY <1>1, Invariance, PTL DEF Spec, TokenOnlyAdvances

\* Whoever renews the token or reads the list finds it still out of date when its
\* request goes out: only a holder of the lock could have renewed it.
THEOREM RenewalsAreDue == Spec => RenewedWhenStale
<1> DEFINE Due ==
      \A c \in Call :
        /\ At(c, "fetch") /\ call'[c].pc = "fetching" => call[c].again \/ ~IsFresh
        /\ At(c, "slot") /\ call'[c].pc = "wire" /\ call[c].stage = "list" => lists = 0
<1>1. IInv /\ [Next]_vars => [Due]_vars
  BY DEF IInv, Stale, At, ReadsList, Requesting
<1> QED
  BY <1>1, Invariance, PTL DEF Spec, RenewedWhenStale
================================================================================
