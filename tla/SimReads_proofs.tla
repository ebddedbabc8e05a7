----------------------------- MODULE SimReads_proofs -----------------------------
(***************************************************************************)
(* Theorems about SimReads, for any number of requests, companies, SIMs    *)
(* and providers: what a request answers for, whatever others route,       *)
(* commit or cache while it resolves one SIM after the other.              *)
(*                                                                         *)
(* What the cache keeps is a selection of its entries, Only(s, at), and so *)
(* are the rows to upsert.  What a selection is follows by induction on    *)
(* the length of s, from the least element of a set of numbers.            *)
(***************************************************************************)
EXTENDS SimReads, Integers, FiniteSetTheorems, TLAPS

Resolvers == Reads \cup {"search"}

\* The account of every provider that lists x is in what l answers.
Covered(l, x) ==
  \A p \in Providers :
    x \in Holds[l.ask.company][p] => Account(l.ask.company, p) \in l.found \cup l.told

Typed(l) ==
  /\ DOMAIN l = DOMAIN Fresh
  /\ l.pc \in Pcs
  /\ l.todo \in Seq(Iccids) /\ l.left \in Seq(Sources)
  /\ l.verdict \in [Iccids -> Verdicts]
  /\ l.pc # "idle" => l.ask \in AskType

\* Which requests get where.
Placed(l) ==
  /\ l.pc \in {"lookup", "missed", "asking", "setup", "fetch"} => l.ask.op \in Resolvers
  /\ l.pc = "reread" => l.ask.op \in Reads
  /\ l.pc = "stats" => l.ask.op = "stats"
  /\ l.pc = "list" => l.ask.op = "list"
  /\ l.pc = "upsert" => l.ask.op # "stats"
  /\ l.pc = "done" => l.ask.op \in Resolvers \cup {"stats"}

\* A SIM that was asked for is still to do, or has a verdict.
Accounted(l) ==
  l.pc # "idle" /\ l.ask.op \in Resolvers =>
    /\ l.pc \in {"missed", "asking", "upsert", "reread"} => l.todo # <<>>
    /\ l.pc \in {"setup", "fetch", "done"} => l.todo = <<>>
    /\ \A x \in Elements(l.ask.iccids) : x \in Elements(l.todo) \/ l.verdict[x] # "none"
    /\ l.pc = "done" => \A x \in Iccids : l.verdict[x] \notin {"resolved", "running"}
    /\ l.ask.op \in Reads => \A x \in Iccids : l.verdict[x] # "listed"

\* A search has its one SIM to do, and asks all providers for it once.
Searched(l) ==
  l.pc # "idle" /\ l.ask.op = "search" =>
    /\ Len(l.todo) <= 1
    /\ l.todo # <<>> => \A x \in Iccids : l.verdict[x] # "listed"
    /\ l.pc = "upsert" => Covered(l, Head(l.todo))
    /\ \A x \in With(l, "listed") : Covered(l, x)

Counted(l) ==
  l.pc \in {"stats", "done"} /\ l.ask.op = "stats" =>
    /\ Elements(l.ask.accounts) \subseteq Elements(l.left) \cup l.found \cup l.told
    /\ l.pc = "done" => l.left = <<>>

\* A local state on which no other request has any influence.
Fine(l) == Typed(l) /\ Placed(l) /\ Accounted(l) /\ Searched(l) /\ Counted(l)

\* l has not missed any of sims, nor is it about to.
Unmissed(l, sims) ==
  /\ \A x \in sims : l.verdict[x] # "unresolved"
  /\ l.pc \in {"missed", "asking"} => Head(l.todo) \notin sims

\* What a request may rely on is routed to its company, and it has not missed it.
Relied(l, sims) ==
  /\ l.pc # "idle" => \A x \in sims : Routed(x, l.ask.company)
  /\ Unmissed(l, sims)

IInv ==
  /\ req = [r \in Req |-> req[r]]
  /\ known \in [Req -> SUBSET Iccids]
  /\ \A r \in Req : Fine(req[r]) /\ Relied(req[r], known[r])

-----------------------------------------------------------------------------
(* Local states. *)

LEMMA FreshIs ==
  /\ DOMAIN Fresh = {"pc", "ask", "todo", "rows", "fired", "wrote", "touched", "first",
                     "verdict", "via", "found", "told", "bad", "left", "page"}
  /\ Fresh.pc = "idle" /\ Fresh.todo = <<>> /\ Fresh.left = <<>>
  /\ Fresh.verdict = [x \in Iccids |-> "none"]
  BY DEF Fresh

LEMMA FreshIsFine ==
  ASSUME NEW sims
  PROVE  Fine(Fresh) /\ (sims \subseteq Iccids => Relied(Fresh, sims))
<1>1. Typed(Fresh)
  BY FreshIs DEF Typed, Pcs, Verdicts
<1> QED
  BY <1>1, FreshIs DEF Fine, Placed, Accounted, Searched, Counted, Relied, Unmissed

LEMMA ElementsTail ==
  ASSUME NEW S, NEW s \in Seq(S), s # <<>>
  PROVE  /\ Tail(s) \in Seq(S) /\ Head(s) \in S /\ Len(Tail(s)) = Len(s) - 1
         /\ Elements(s) \subseteq S
         /\ \A x \in Elements(s) : x = Head(s) \/ x \in Elements(Tail(s))
<1>1. Tail(s) \in Seq(S) /\ Head(s) = s[1] /\ s[1] \in S /\ Len(Tail(s)) = Len(s) - 1
  OBVIOUS
<1>2. \A i \in DOMAIN s : i = 1 \/ (i - 1 \in DOMAIN Tail(s) /\ Tail(s)[i - 1] = s[i])
  OBVIOUS
<1>3. \A i \in DOMAIN s : s[i] \in S
  OBVIOUS
<1> QED
  BY <1>1, <1>2, <1>3 DEF Elements

LEMMA NoElements == Elements(<<>>) = {}
  BY DEF Elements

\* m is l, after it has settled x.
Follows(m, l, x, v) ==
  /\ DOMAIN m = DOMAIN Fresh /\ m.ask = l.ask /\ m.todo = Tail(l.todo)
  /\ m.pc = (IF Tail(l.todo) = <<>> THEN "setup" ELSE "lookup")
  /\ m.verdict \in [Iccids -> Verdicts]
  /\ \A y \in Iccids : m.verdict[y] = IF y = x THEN v ELSE l.verdict[y]
  /\ m.found = l.found /\ m.told = l.told /\ m.left = l.left

LEMMA SettledIs ==
  ASSUME NEW l, Typed(l), NEW x \in Iccids, NEW v \in Verdicts, NEW p
  PROVE  Follows(Settled(l, x, v, p), l, x, v)
<1>1. DOMAIN l = {"pc", "ask", "todo", "rows", "fired", "wrote", "touched", "first",
                  "verdict", "via", "found", "told", "bad", "left", "page"}
  BY FreshIs DEF Typed
<1> DEFINE m == Settled(l, x, v, p)
<1>2. m = [l EXCEPT !.todo = Tail(@), !.first = None, !.verdict[x] = v, !.via[x] = p,
                    !.pc = IF Tail(l.todo) = <<>> THEN "setup" ELSE "lookup"]
  BY DEF Settled
<1> HIDE DEF m
<1>3. m.pc = IF Tail(l.todo) = <<>> THEN "setup" ELSE "lookup"
  BY <1>1, <1>2
<1>4. DOMAIN m = DOMAIN Fresh
  BY <1>1, <1>2 DEF Typed
<1>5. m.ask = l.ask /\ m.found = l.found /\ m.told = l.told /\ m.left = l.left
  BY <1>1, <1>2
<1>6. m.todo = Tail(l.todo)
  BY <1>1, <1>2
<1>7. m.verdict = [l.verdict EXCEPT ![x] = v]
  BY <1>1, <1>2
<1>8. /\ m.verdict \in [Iccids -> Verdicts]
      /\ \A y \in Iccids : m.verdict[y] = IF y = x THEN v ELSE l.verdict[y]
  BY <1>7 DEF Typed
<1> QED
  <2>1. Follows(m, l, x, v)
    BY <1>3, <1>4, <1>5, <1>6, <1>8, Zenon DEF Follows
  <2> QED
    BY <2>1 DEF m

LEMMA SettledIsFine ==
  ASSUME NEW l, Fine(l), l.pc # "idle", l.ask.op \in Resolvers, l.todo # <<>>,
         NEW v \in {"unresolved", "filtered", "resolved", "listed", "ok"}, NEW p,
         v = "listed" => l.ask.op = "search" /\ Covered(l, Head(l.todo))
  PROVE  Fine(Settled(l, Head(l.todo), v, p))
<1> DEFINE x == Head(l.todo)
           m == Settled(l, x, v, p)
<1>1. Typed(l) /\ Accounted(l) /\ Searched(l)
  BY DEF Fine
<1>2. /\ Tail(l.todo) \in Seq(Iccids) /\ x \in Iccids /\ Len(Tail(l.todo)) = Len(l.todo) - 1
      /\ \A y \in Elements(l.todo) : y = x \/ y \in Elements(Tail(l.todo))
  BY <1>1, ElementsTail DEF Typed
<1>3. Follows(m, l, x, v)
  <2>1. v \in Verdicts
    BY DEF Verdicts, Answers
  <2> HIDE DEF x
  <2> QED
    BY <1>1, <1>2, <2>1, SettledIs, Zenon
<1> HIDE DEF m, x
<1> USE DEF Follows
<1>4. v \notin {"none", "running"}
  OBVIOUS
<1>6. Typed(m)
  BY <1>1, <1>2, <1>3 DEF Typed, Pcs
<1>7. Placed(m) /\ Counted(m)
  BY <1>3, <1>6 DEF Placed, Counted
<1>8. Accounted(m)
  <2>1. l.ask \in AskType
    BY <1>1 DEF Typed
  <2>2. Elements(l.ask.iccids) \subseteq Iccids
    BY <2>1 DEF AskType, Elements
  <2>3. \A y \in Elements(m.ask.iccids) : y \in Elements(m.todo) \/ m.verdict[y] # "none"
    BY <1>1, <1>2, <1>3, <1>4, <2>2 DEF Accounted
  <2>4. l.ask.op \in Reads => v # "listed"
    BY DEF Reads
  <2> QED
    BY <1>1, <1>3, <2>3, <2>4 DEF Accounted
<1>9. Searched(m)
  <2> SUFFICES ASSUME m.pc # "idle", m.ask.op = "search"
               PROVE  /\ Len(m.todo) <= 1
                      /\ m.todo # <<>> => \A y \in Iccids : m.verdict[y] # "listed"
                      /\ m.pc = "upsert" => Covered(m, Head(m.todo))
                      /\ \A y \in With(m, "listed") : Covered(m, y)
    BY DEF Searched
  <2>1. Len(l.todo) <= 1 /\ \A y \in Iccids : l.verdict[y] # "listed"
    BY <1>1, <1>3 DEF Searched
  <2>2. m.todo = <<>> /\ m.pc = "setup"
    <3>1. Len(l.todo) \in Nat /\ Tail(l.todo) = <<>>
      BY <1>1, <1>2, <2>1 DEF Typed
    <3> QED
      BY <1>3, <3>1
  <2>3. With(m, "listed") \subseteq {x} /\ (With(m, "listed") # {} => v = "listed")
    BY <1>3, <2>1 DEF With
  <2>4. v = "listed" => Covered(m, x)
    BY <1>3 DEF Covered, x
  <2> QED
    BY <2>2, <2>3, <2>4
<1>10. Fine(m)
  BY <1>6, <1>7, <1>8, <1>9 DEF Fine
<1> QED
  BY <1>10 DEF m, x

LEMMA SettledIsRelied ==
  ASSUME NEW l, Typed(l), l.pc # "idle", l.todo # <<>>, NEW sims \in SUBSET Iccids, Relied(l, sims),
         NEW v \in Verdicts, NEW p, v = "unresolved" => Head(l.todo) \notin sims
  PROVE  Relied(Settled(l, Head(l.todo), v, p), sims)
<1> DEFINE m == Settled(l, Head(l.todo), v, p)
<1>1. Head(l.todo) \in Iccids
  BY ElementsTail DEF Typed
<1>2. Follows(m, l, Head(l.todo), v)
  BY <1>1, SettledIs, Zenon
<1> HIDE DEF m
<1>3. Relied(m, sims)
  BY <1>2 DEF Relied, Unmissed, Follows
<1> QED
  BY <1>3 DEF m

\* Whatever a batch keeps, it does not miss the SIM.
LEMMA KeptIsFine ==
  ASSUME NEW l, Fine(l), l.pc # "idle", l.ask.op \in Resolvers, l.todo # <<>>,
         NEW route, NEW v \in {"resolved", "ok"}, NEW p,
         NEW sims \in SUBSET Iccids, Relied(l, sims)
  PROVE  /\ Fine(Kept(l, Head(l.todo), route, v, p))
         /\ Relied(Kept(l, Head(l.todo), route, v, p), sims)
<1> DEFINE w == IF l.ask.only # {} /\ route \notin l.ask.only THEN "filtered" ELSE v
<1>1. Kept(l, Head(l.todo), route, v, p) = Settled(l, Head(l.todo), w, p)
  BY DEF Kept
<1>2. w \in {"filtered", "resolved", "ok"} /\ w \in Verdicts
  BY DEF Verdicts, Answers
<1> HIDE DEF w
<1>3. Fine(Settled(l, Head(l.todo), w, p))
  BY <1>2, SettledIsFine
<1>4. Relied(Settled(l, Head(l.todo), w, p), sims)
  <2>1. Typed(l) /\ w # "unresolved"
    BY <1>2 DEF Fine
  <2> QED
    BY <1>2, <2>1, SettledIsRelied
<1> QED
  BY <1>1, <1>3, <1>4

LEMMA MissedIsFine ==
  ASSUME NEW l, Fine(l), l.pc # "idle", l.ask.op \in Resolvers, l.todo # <<>>, NEW p,
         NEW sims \in SUBSET Iccids, Relied(l, sims), Head(l.todo) \notin sims
  PROVE  /\ Fine(Settled(l, Head(l.todo), "unresolved", p))
         /\ Relied(Settled(l, Head(l.todo), "unresolved", p), sims)
<1>1. Typed(l) /\ "unresolved" \in Verdicts
  BY DEF Fine, Verdicts
<1>2. Fine(Settled(l, Head(l.todo), "unresolved", p))
  BY SettledIsFine
<1> QED
  BY <1>1, <1>2, SettledIsRelied

\* Only what the invariant does not look at is different.
Same(m, l) ==
  /\ DOMAIN m = DOMAIN l /\ m.pc = l.pc /\ m.ask = l.ask /\ m.todo = l.todo
  /\ m.left = l.left /\ m.verdict = l.verdict /\ m.found = l.found /\ m.told = l.told

LEMMA SameIsFine ==
  ASSUME NEW l, Fine(l), NEW m, Same(m, l), NEW sims
  PROVE  Fine(m) /\ (Relied(l, sims) => Relied(m, sims))
<1>1. Typed(m)
  BY DEF Fine, Typed, Same
<1>2. Placed(m)
  BY DEF Fine, Placed, Same
<1>3. Accounted(m)
  BY DEF Fine, Accounted, Same
<1>4. Searched(m)
  BY DEF Fine, Searched, Same, With, Covered
<1>5. Counted(m)
  BY DEF Fine, Counted, Same
<1>6. Relied(l, sims) => Relied(m, sims)
  BY DEF Relied, Unmissed, Same
<1> QED
  BY <1>1, <1>2, <1>3, <1>4, <1>5, <1>6 DEF Fine

\* Only the place in the handler is different.
Moved(m, l) ==
  /\ DOMAIN m = DOMAIN l /\ m.ask = l.ask /\ m.todo = l.todo
  /\ m.left = l.left /\ m.verdict = l.verdict /\ m.found = l.found /\ m.told = l.told

LEMMA MovedIs ==
  ASSUME NEW l, Typed(l), NEW pc
  PROVE  [l EXCEPT !.pc = pc].pc = pc /\ Moved([l EXCEPT !.pc = pc], l)
<1>1. DOMAIN l = {"pc", "ask", "todo", "rows", "fired", "wrote", "touched", "first",
                  "verdict", "via", "found", "told", "bad", "left", "page"}
  BY FreshIs DEF Typed
<1> QED
  BY <1>1 DEF Moved

\* On to a place of a request that resolves.
LEMMA MovedIsFine ==
  ASSUME NEW l, Fine(l), l.pc # "idle", l.ask.op \in Resolvers,
         NEW m, Moved(m, l),
         \/ m.pc \in {"missed", "asking"} /\ l.todo # <<>>
         \/ m.pc = "upsert" /\ l.todo # <<>>
            /\ (l.ask.op = "search" => Covered(l, Head(l.todo)))
         \/ m.pc = "reread" /\ l.todo # <<>> /\ l.ask.op \in Reads
         \/ m.pc = "fetch" /\ l.todo = <<>>
         \/ m.pc = "done" /\ l.todo = <<>>
            /\ \A x \in Iccids : l.verdict[x] \notin {"resolved", "running"}
  PROVE  Fine(m)
<1>1. Typed(m) /\ m.pc # "idle" /\ l.ask.op # "stats"
  BY DEF Fine, Typed, Moved, Pcs, Resolvers, Reads
<1>2. Placed(m) /\ Counted(m)
  BY <1>1 DEF Placed, Counted, Moved, Reads, Resolvers
<1>3. Accounted(m)
  BY DEF Fine, Accounted, Moved
<1>4. Searched(m)
  BY DEF Fine, Searched, Moved, With, Covered
<1> QED
  BY <1>1, <1>2, <1>3, <1>4 DEF Fine

-----------------------------------------------------------------------------
(* Steps of one request, which leave the routing map alone. *)

LEMMA LocalStep ==
  ASSUME IInv, NEW r \in Req, NEW l, Goes(r, l), Fine(l), UNCHANGED routing,
         NEW sims \in SUBSET Iccids, known' = [known EXCEPT ![r] = sims], Relied(l, sims)
  PROVE  IInv'
<1>1. req' = [s \in Req |-> req'[s]] /\ req'[r] = l /\ \A s \in Req : s # r => req'[s] = req[s]
  BY DEF IInv, Goes
<1>2. /\ known' \in [Req -> SUBSET Iccids] /\ known'[r] = sims
      /\ \A s \in Req : s # r => known'[s] = known[s]
  BY DEF IInv
<1>3. ASSUME NEW s \in Req
      PROVE  Fine(req[s])' /\ Relied(req[s], known[s])'
  <2>1. CASE s = r
    <3>1. Fine(req'[s])
      BY <1>1, <2>1
    <3> QED
      BY <1>1, <1>2, <2>1, <3>1 DEF Relied, Unmissed, Routed
  <2>2. CASE s # r
    <3>1. Fine(req'[s]) /\ Relied(req[s], known[s])
      BY <1>1, <2>2 DEF IInv
    <3> QED
      BY <1>1, <1>2, <2>2, <3>1 DEF Relied, Unmissed, Routed
  <2> QED
    BY <2>1, <2>2
<1> QED
  BY <1>1, <1>2, <1>3 DEF IInv

LEMMA QuietStep ==
  ASSUME IInv, NEW r \in Req, NEW l, Goes(r, l), Fine(l), UNCHANGED <<routing, known>>,
         Relied(l, known[r])
  PROVE  IInv'
<1>1. known[r] \in SUBSET Iccids /\ known' = [known EXCEPT ![r] = known[r]]
  BY DEF IInv
<1> QED
  BY <1>1, LocalStep

-----------------------------------------------------------------------------
(* One lemma for each action. *)

LEMMA BeginKeeps ==
  ASSUME IInv, NEW r \in Req, NEW a \in Asks[r], Begin(r, a)
  PROVE  IInv'
<1> DEFINE l == [Fresh EXCEPT !.pc = FirstPc[a.op], !.ask = a, !.todo = a.iccids,
                              !.rows = a.rows, !.left = a.accounts]
           sims == {x \in Elements(a.iccids) : Routed(x, a.company)}
<1>1. a \in AskType /\ (a.op = "search" => Len(a.iccids) = 1)
  BY ReadsAssumption
<1>2. /\ Goes(r, l) /\ UNCHANGED routing /\ known' = [known EXCEPT ![r] = sims]
  BY DEF Begin
<1>3. /\ a.op \in Ops /\ a.iccids \in Seq(Iccids) /\ a.accounts \in Seq(Sources)
      /\ sims \subseteq Iccids
  BY <1>1 DEF AskType, Elements
<1>4. /\ FirstPc[a.op] \in {"upsert", "list", "stats", "lookup"}
      /\ FirstPc[a.op] = "stats" <=> a.op = "stats"
      /\ FirstPc[a.op] = "list" <=> a.op = "list"
      /\ FirstPc[a.op] = "upsert" <=> a.op = "import"
  BY <1>3 DEF FirstPc, Ops, Reads
<1>5. /\ DOMAIN l = DOMAIN Fresh /\ l.pc = FirstPc[a.op] /\ l.ask = a /\ l.todo = a.iccids
      /\ l.left = a.accounts /\ l.verdict = [x \in Iccids |-> "none"]
  BY FreshIs
<1> HIDE DEF l
<1>6. Typed(l)
  BY <1>1, <1>3, <1>4, <1>5 DEF Typed, Pcs, Verdicts
<1>7. Placed(l)
  BY <1>3, <1>4, <1>5 DEF Placed, Resolvers, Ops, Reads
<1>8. Accounted(l)
  BY <1>3, <1>4, <1>5 DEF Accounted, Resolvers, Reads
<1>9. Searched(l)
  <2>1. With(l, "listed") = {} /\ \A x \in Iccids : l.verdict[x] # "listed"
    BY <1>5 DEF With
  <2>2. l.ask.op = "search" => Len(l.todo) = 1 /\ l.pc # "upsert"
    BY <1>1, <1>4, <1>5
  <2>3. Len(l.todo) = 1 => Len(l.todo) <= 1
    OBVIOUS
  <2> QED
    BY <2>1, <2>2, <2>3, Zenon DEF Searched
<1>10. Counted(l)
  BY <1>4, <1>5 DEF Counted
<1>11. Relied(l, sims)
  BY <1>3, <1>4, <1>5 DEF Relied, Unmissed
<1> HIDE DEF sims
<1> QED
  BY <1>2, <1>3, <1>6, <1>7, <1>8, <1>9, <1>10, <1>11, LocalStep DEF Fine

LEMMA LookupKeeps ==
  ASSUME IInv, NEW r \in Req, req[r].todo # <<>>, Lookup(r, Head(req[r].todo))
  PROVE  IInv'
<1> DEFINE l == req[r]
           x == Head(l.todo)
<1>1. /\ Fine(l) /\ Relied(l, known[r]) /\ l.pc = "lookup" /\ known[r] \in SUBSET Iccids
      /\ UNCHANGED <<routing, known>>
  BY DEF IInv, Lookup, At, Shared
<1>2. l.ask.op \in Resolvers /\ Typed(l)
  BY <1>1 DEF Fine, Placed
<1>3. CASE Routed(x, Company(r))
  <2> DEFINE m == Kept(l, x, routing[x].provider, "resolved", routing[x].provider)
  <2>1. Goes(r, m)
    BY <1>3 DEF Lookup
  <2>2. Fine(m) /\ Relied(m, known[r])
    BY <1>1, <1>2, KeptIsFine
  <2> HIDE DEF m
  <2> QED
    BY <1>1, <2>1, <2>2, QuietStep
<1>4. CASE ~Routed(x, Company(r))
  <2> DEFINE m == [l EXCEPT !.pc = "missed"]
  <2>1. Goes(r, m)
    BY <1>4 DEF Lookup
  <2>2. m.pc = "missed" /\ Moved(m, l)
    BY <1>2, MovedIs
  <2>3. x \notin known[r]
    BY <1>1, <1>4 DEF Relied, Company
  <2> HIDE DEF m
  <2>4. Fine(m)
    BY <1>1, <1>2, <2>2, MovedIsFine
  <2>5. Relied(m, known[r])
    BY <1>1, <2>2, <2>3 DEF Relied, Unmissed, Moved
  <2> QED
    BY <1>1, <2>1, <2>4, <2>5, QuietStep
<1> QED
  BY <1>3, <1>4

LEMMA ByPrefixKeeps ==
  ASSUME IInv, NEW r \in Req, req[r].todo # <<>>, ByPrefix(r, Head(req[r].todo))
  PROVE  IInv'
<1> DEFINE l == req[r]
           x == Head(l.todo)
           m == Kept(l, x, PrefixRoute(x), "resolved", PrefixRoute(x))
<1>1. /\ Fine(l) /\ Relied(l, known[r]) /\ l.pc = "missed" /\ known[r] \in SUBSET Iccids
      /\ UNCHANGED <<routing, known>> /\ Goes(r, m)
  BY DEF IInv, ByPrefix, At, Shared
<1>2. l.ask.op \in Resolvers
  BY <1>1 DEF Fine, Placed
<1>3. Fine(m) /\ Relied(m, known[r])
  BY <1>1, <1>2, KeptIsFine
<1> HIDE DEF m
<1> QED
  BY <1>1, <1>3, QuietStep

LEMMA CachedMissKeeps ==
  ASSUME IInv, NEW r \in Req, req[r].todo # <<>>, CachedMiss(r, Head(req[r].todo))
  PROVE  IInv'
<1> DEFINE l == req[r]
           x == Head(l.todo)
           m == Settled(l, x, "unresolved", None)
<1>1. /\ Fine(l) /\ Relied(l, known[r]) /\ l.pc = "missed" /\ known[r] \in SUBSET Iccids
      /\ UNCHANGED <<routing, known>> /\ Goes(r, m)
  BY DEF IInv, CachedMiss, At, Shared
<1>2. l.ask.op \in Resolvers /\ x \notin known[r]
  BY <1>1 DEF Fine, Placed, Relied, Unmissed
<1>3. Fine(m) /\ Relied(m, known[r])
  BY <1>1, <1>2, MissedIsFine
<1> HIDE DEF m
<1> QED
  BY <1>1, <1>3, QuietStep

LEMMA FanOutKeeps ==
  ASSUME IInv, NEW r \in Req, req[r].todo # <<>>, FanOut(r, Head(req[r].todo))
  PROVE  IInv'
<1> DEFINE l == req[r]
           m == [l EXCEPT !.pc = "asking"]
<1>1. /\ Fine(l) /\ Relied(l, known[r]) /\ l.pc = "missed" /\ UNCHANGED <<routing, known>>
      /\ Goes(r, m)
  BY DEF IInv, FanOut, At
<1>2. l.ask.op \in Resolvers /\ Typed(l)
  BY <1>1 DEF Fine, Placed
<1>3. m.pc = "asking" /\ Moved(m, l)
  BY <1>2, MovedIs
<1> HIDE DEF m
<1>4. Fine(m)
  BY <1>1, <1>2, <1>3, MovedIsFine
<1>5. Relied(m, known[r])
  BY <1>1, <1>3 DEF Relied, Unmissed, Moved
<1> QED
  BY <1>1, <1>4, <1>5, QuietStep

\* m is l with what was heard, and a search answers for it.
Hears(m, l, holders, failing) ==
  /\ DOMAIN m = DOMAIN l /\ m.pc = l.pc /\ m.ask = l.ask /\ m.todo = l.todo
  /\ m.left = l.left /\ m.verdict = l.verdict
  /\ l.ask.op # "search" => m.found = l.found /\ m.told = l.told
  /\ l.ask.op = "search" =>
       /\ m.found = {Account(l.ask.company, p) : p \in holders}
       /\ m.told = {Account(l.ask.company, p) : p \in failing}

LEMMA HeardIs ==
  ASSUME NEW l, Typed(l), NEW x, NEW holders, NEW failing
  PROVE  Hears(Heard(l, x, holders, failing), l, holders, failing)
<1>1. DOMAIN l = {"pc", "ask", "todo", "rows", "fired", "wrote", "touched", "first",
                  "verdict", "via", "found", "told", "bad", "left", "page"}
  BY FreshIs DEF Typed
<1> DEFINE rows == RowsOf(x, holders)
           found == {Account(l.ask.company, p) : p \in holders}
           told == {Account(l.ask.company, p) : p \in failing}
<1>2. PICK m : m = Heard(l, x, holders, failing)
  OBVIOUS
<1>3. CASE l.ask.op = "search"
  <2>1. m = [[l EXCEPT !.rows = rows] EXCEPT !.found = found, !.told = told]
    BY <1>2, <1>3 DEF Heard
  <2> HIDE DEF rows, found, told
  <2>2. m.found = found /\ m.told = told
    BY <1>1, <2>1
  <2>3. /\ DOMAIN m = DOMAIN l /\ m.pc = l.pc /\ m.ask = l.ask /\ m.todo = l.todo
        /\ m.left = l.left /\ m.verdict = l.verdict
    BY <1>1, <2>1
  <2> QED
    BY <1>2, <1>3, <2>2, <2>3 DEF Hears, found, told
<1>4. CASE l.ask.op # "search"
  <2>1. m = [l EXCEPT !.rows = rows]
    BY <1>2, <1>4 DEF Heard
  <2> HIDE DEF rows
  <2>2. Hears(m, l, holders, failing)
    BY <1>1, <1>4, <2>1 DEF Hears
  <2> QED
    BY <1>2, <2>2
<1> QED
  BY <1>3, <1>4

\* Who lists the SIM in hand, of those that answer.
Listing(l, failing) ==
  {p \in Providers \ failing : Head(l.todo) \in Holds[l.ask.company][p]}

LEMMA HeardIsFine ==
  ASSUME NEW l, Fine(l), l.pc = "asking", NEW failing \in SUBSET Providers,
         NEW sims, Relied(l, sims), NEW m,
         m = Heard(l, Head(l.todo), Listing(l, failing), failing)
  PROVE  /\ Fine(m) /\ Relied(m, sims)
         /\ m.pc = "asking" /\ m.ask = l.ask /\ m.todo = l.todo /\ m.verdict = l.verdict
         /\ m.ask.op \in Resolvers /\ m.todo # <<>>
         /\ m.ask.op = "search" => Covered(m, Head(m.todo))
<1> DEFINE x == Head(l.todo)
           holders == Listing(l, failing)
<1>1. Typed(l) /\ l.ask.op \in Resolvers /\ l.todo # <<>>
  BY DEF Fine, Placed, Accounted
<1> HIDE DEF x
<1>2. m = Heard(l, x, holders, failing)
  BY DEF x
<1>3. Hears(m, l, holders, failing)
  <2> HIDE DEF holders
  <2> QED
    BY <1>1, <1>2, HeardIs, Zenon
<1> USE DEF Hears
<1>4. m.ask.op = "search" => Covered(m, x)
  BY <1>3 DEF Covered, Listing, x
<1>5. Typed(m)
  BY <1>1, <1>3 DEF Typed
<1>6. Placed(m)
  BY <1>3 DEF Fine, Placed
<1>7. Accounted(m)
  BY <1>3 DEF Fine, Accounted
<1>8. Searched(m)
  <2>1. m.ask.op = "search" => Len(m.todo) <= 1 /\ \A y \in Iccids : m.verdict[y] # "listed"
    BY <1>1, <1>3 DEF Fine, Searched
  <2> QED
    BY <1>3, <2>1 DEF Searched, With
<1>9. Counted(m)
  BY <1>1, <1>3 DEF Counted
<1>10. Relied(m, sims)
  BY <1>3 DEF Relied, Unmissed
<1> QED
  BY <1>1, <1>3, <1>4, <1>5, <1>6, <1>7, <1>8, <1>9, <1>10 DEF Fine, x

LEMMA GatheredKeeps ==
  ASSUME IInv, NEW r \in Req, req[r].todo # <<>>, Gathered(r, Head(req[r].todo))
  PROVE  IInv'
<1> DEFINE x == Head(req[r].todo)
           holders(failing) == {p \in Providers \ failing : x \in Holds[Company(r)][p]}
           heard(failing) == Heard(req[r], x, holders(failing), failing)
<1>1. PICK failing \in SUBSET Providers :
        \/ Goes(r, [heard(failing) EXCEPT !.pc = "upsert", !.first = heard(failing).rows[1].provider])
        \/ Op(r) = "search" /\ Goes(r, Settled(heard(failing), x, "listed", None))
        \/ Op(r) # "search" /\ Goes(r, Settled(heard(failing), x, "unresolved", None))
  BY DEF Gathered
<1>2. /\ Fine(req[r]) /\ Relied(req[r], known[r]) /\ req[r].pc = "asking"
      /\ known[r] \in SUBSET Iccids /\ UNCHANGED <<routing, known>>
  BY DEF IInv, Gathered, At
<1>3. PICK l : l = heard(failing)
  OBVIOUS
<1>4. /\ Fine(l) /\ Relied(l, known[r]) /\ l.pc = "asking" /\ l.ask = req[r].ask
      /\ l.todo = req[r].todo /\ l.verdict = req[r].verdict
      /\ l.ask.op \in Resolvers /\ l.todo # <<>>
      /\ l.ask.op = "search" => Covered(l, Head(l.todo))
  <2>1. holders(failing) = Listing(req[r], failing)
    BY DEF Listing, Company
  <2>2. l = Heard(req[r], Head(req[r].todo), Listing(req[r], failing), failing)
    BY <1>3, <2>1, Zenon
  <2> HIDE DEF heard, holders, x
  <2> QED
    BY <1>2, <2>2, HeardIsFine
<1>5. CASE Goes(r, [heard(failing) EXCEPT !.pc = "upsert", !.first = heard(failing).rows[1].provider])
  <2>1. PICK f : f = l.rows[1].provider
    OBVIOUS
  <2>2. PICK m : m = [l EXCEPT !.pc = "upsert", !.first = f]
    OBVIOUS
  <2>3. Goes(r, m)
    BY <1>3, <1>5, <2>1, <2>2
  <2>4. m.pc = "upsert" /\ Moved(m, l)
    BY <1>4, <2>2, FreshIs DEF Fine, Typed, Moved
  <2>5. Fine(m)
    BY <1>4, <2>4, MovedIsFine
  <2>6. Relied(m, known[r])
    BY <1>4, <2>4 DEF Relied, Unmissed, Moved
  <2> QED
    BY <1>2, <2>3, <2>5, <2>6, QuietStep
<1>6. CASE Op(r) = "search" /\ Goes(r, Settled(heard(failing), x, "listed", None))
  <2>1. Goes(r, Settled(l, Head(l.todo), "listed", None)) /\ l.ask.op = "search"
    BY <1>3, <1>4, <1>6 DEF Op
  <2>2. Typed(l) /\ "listed" \in Verdicts
    BY <1>4 DEF Fine, Verdicts
  <2>3. Fine(Settled(l, Head(l.todo), "listed", None))
    BY <1>4, <2>1, SettledIsFine
  <2>4. Relied(Settled(l, Head(l.todo), "listed", None), known[r])
    BY <1>2, <1>4, <2>2, SettledIsRelied
  <2> QED
    BY <1>2, <2>1, <2>3, <2>4, QuietStep
<1>7. CASE Op(r) # "search" /\ Goes(r, Settled(heard(failing), x, "unresolved", None))
  <2>1. Goes(r, Settled(l, Head(l.todo), "unresolved", None))
    BY <1>3, <1>4, <1>7
  <2>2. Head(l.todo) \notin known[r]
    BY <1>4 DEF Relied, Unmissed
  <2>3. /\ Fine(Settled(l, Head(l.todo), "unresolved", None))
        /\ Relied(Settled(l, Head(l.todo), "unresolved", None), known[r])
    BY <1>2, <1>4, <2>2, MissedIsFine
  <2> QED
    BY <1>2, <2>1, <2>3, QuietStep
<1> QED
  BY <1>1, <1>5, <1>6, <1>7

LEMMA FreshKeeps ==
  ASSUME IInv, NEW r \in Req, Goes(r, Fresh), UNCHANGED routing,
         known' = [known EXCEPT ![r] = {}] \/ UNCHANGED known
  PROVE  IInv'
<1>1. Fine(Fresh) /\ Relied(Fresh, {}) /\ Relied(Fresh, known[r])
  BY FreshIsFine DEF IInv
<1>2. CASE known' = [known EXCEPT ![r] = {}]
  BY <1>1, <1>2, LocalStep
<1>3. CASE UNCHANGED known
  BY <1>1, <1>3, QuietStep
<1> QED
  BY <1>2, <1>3

LEMMA ListProviderKeeps ==
  ASSUME IInv, NEW r \in Req, ListProvider(r)
  PROVE  IInv'
<1>1. CASE Goes(r, [req[r] EXCEPT !.pc = "upsert"])
  <2>1. PICK m : m = [req[r] EXCEPT !.pc = "upsert"]
    OBVIOUS
  <2>2. /\ Fine(req[r]) /\ Relied(req[r], known[r]) /\ req[r].pc = "list"
        /\ req[r].ask.op = "list" /\ UNCHANGED <<routing, known>> /\ Goes(r, m)
    BY <1>1, <2>1 DEF IInv, ListProvider, At, Shared, Fine, Placed
  <2>3. m.pc = "upsert" /\ Moved(m, req[r])
    BY <2>1, <2>2, MovedIs DEF Fine
  <2>4. Typed(m)
    BY <2>2, <2>3 DEF Fine, Typed, Moved, Pcs
  <2>5. Placed(m) /\ Accounted(m) /\ Searched(m) /\ Counted(m)
    BY <2>2, <2>3 DEF Placed, Accounted, Searched, Counted, Moved, Resolvers, Reads
  <2>6. Relied(m, known[r])
    BY <2>2, <2>3 DEF Relied, Unmissed, Moved
  <2> QED
    BY <2>2, <2>4, <2>5, <2>6, QuietStep DEF Fine
<1>2. CASE Goes(r, Fresh)
  BY <1>2, FreshKeeps DEF ListProvider, Shared
<1> QED
  BY <1>1, <1>2 DEF ListProvider

LEMMA UpsertKeeps ==
  ASSUME IInv, NEW r \in Req, Upsert(r)
  PROVE  IInv'
<1> DEFINE row == Head(req[r].rows)
<1>1. PICK i, p : i = row.iccid /\ p = row.provider
  OBVIOUS
<1>2. PICK m : m = [req[r] EXCEPT !.rows = Tail(@), !.fired = row, !.wrote[i] = p]
  OBVIOUS
<1>3. Goes(r, m) /\ UNCHANGED <<routing, known>>
  BY <1>1, <1>2 DEF Upsert, Shared
<1>4. Fine(req[r]) /\ Relied(req[r], known[r])
  BY DEF IInv
<1>5. DOMAIN req[r] = {"pc", "ask", "todo", "rows", "fired", "wrote", "touched", "first",
                       "verdict", "via", "found", "told", "bad", "left", "page"}
  BY <1>4, FreshIs DEF Fine, Typed
<1>6. Same(m, req[r])
  BY <1>2, <1>5 DEF Same
<1> QED
  BY <1>3, <1>4, <1>6, SameIsFine, QuietStep

LEMMA TriggerKeeps ==
  ASSUME IInv, NEW r \in Req, Trigger(r)
  PROVE  IInv'
<1>1. PICK touched : Goes(r, [req[r] EXCEPT !.fired = None, !.touched = touched])
  BY DEF Trigger
<1>2. PICK m : m = [req[r] EXCEPT !.fired = None, !.touched = touched]
  OBVIOUS
<1>3. Goes(r, m) /\ UNCHANGED <<routing, known>>
  BY <1>1, <1>2 DEF Trigger, Shared
<1>4. Fine(req[r]) /\ Relied(req[r], known[r])
  BY DEF IInv
<1>5. DOMAIN req[r] = {"pc", "ask", "todo", "rows", "fired", "wrote", "touched", "first",
                       "verdict", "via", "found", "told", "bad", "left", "page"}
  BY <1>4, FreshIs DEF Fine, Typed
<1>6. Same(m, req[r])
  BY <1>2, <1>5 DEF Same
<1> QED
  BY <1>3, <1>4, <1>6, SameIsFine, QuietStep

LEMMA FailsKeeps ==
  ASSUME IInv, NEW r \in Req, Fails(r)
  PROVE  IInv'
  BY FreshKeeps DEF Fails

LEMMA RereadKeeps ==
  ASSUME IInv, NEW r \in Req, req[r].todo # <<>>, Reread(r, Head(req[r].todo))
  PROVE  IInv'
<1> DEFINE l == req[r]
           x == Head(l.todo)
<1>1. /\ Fine(l) /\ Relied(l, known[r]) /\ l.pc = "reread" /\ known[r] \in SUBSET Iccids
      /\ UNCHANGED <<routing, known>>
  BY DEF IInv, Reread, At
<1>2. l.ask.op \in Resolvers
  BY <1>1 DEF Fine, Placed, Resolvers
<1>3. CASE Routed(x, Company(r))
  <2>1. PICK v, p : /\ v = (IF l.ask.op = "get" THEN "ok" ELSE "resolved")
                    /\ p = (IF l.ask.op = "read" THEN routing[x].provider ELSE l.first)
    OBVIOUS
  <2>2. Goes(r, Kept(l, x, routing[x].provider, v, p))
    BY <1>3, <2>1 DEF Reread
  <2>3. v \in {"resolved", "ok"}
    BY <2>1
  <2>4. /\ Fine(Kept(l, x, routing[x].provider, v, p))
        /\ Relied(Kept(l, x, routing[x].provider, v, p), known[r])
    BY <1>1, <1>2, <2>3, KeptIsFine
  <2> QED
    BY <1>1, <2>2, <2>4, QuietStep
<1>4. CASE ~Routed(x, Company(r))
  <2>1. Goes(r, Settled(l, x, "unresolved", None))
    BY <1>4 DEF Reread
  <2>2. x \notin known[r]
    BY <1>1, <1>4 DEF Relied, Company
  <2>3. /\ Fine(Settled(l, x, "unresolved", None))
        /\ Relied(Settled(l, x, "unresolved", None), known[r])
    BY <1>1, <1>2, <2>2, MissedIsFine
  <2> QED
    BY <1>1, <2>1, <2>3, QuietStep
<1> QED
  BY <1>3, <1>4

\* What r wrote is its company's now; nobody relies on it for another company.
LEMMA CommitKeeps ==
  ASSUME IInv, NEW r \in Req, Commit(r)
  PROVE  IInv'
<1> DEFINE l == req[r]
           wrote == l.wrote
<1>1. PICK none, free : none = Fresh.wrote /\ free = Fresh.touched
  OBVIOUS
<1>2. PICK m : m = [Committed(l) EXCEPT !.wrote = none, !.touched = free]
  OBVIOUS
<1>3. /\ Fine(l) /\ Relied(l, known[r]) /\ l.pc = "upsert" /\ known[r] \in SUBSET Iccids
      /\ Goes(r, m)
  BY <1>1, <1>2 DEF IInv, Commit, At
<1>4. /\ known' = [s \in Req |-> {x \in known[s] : wrote[x] = None \/ Company(s) = Company(r)}]
      /\ routing' = [x \in Iccids |-> IF wrote[x] = None THEN routing[x]
                                      ELSE Account(Company(r), wrote[x])]
  BY DEF Commit
<1>5. /\ known' \in [Req -> SUBSET Iccids]
      /\ \A s \in Req : known'[s] \subseteq known[s]
      /\ \A s \in Req : \A x \in known'[s] :
           routing'[x].company = (IF wrote[x] = None THEN routing[x].company ELSE Company(s))
  BY <1>4 DEF IInv, Account
<1> HIDE DEF wrote
<1>6. \A s \in Req : \A x \in known'[s] :
        routing[x].company = Company(s) => routing'[x].company = Company(s)
  BY <1>5
<1>7. Fine(Committed(l)) /\ Unmissed(Committed(l), known[r])
      /\ (Committed(l).pc # "idle" => Committed(l).ask = l.ask)
  <2>1. CASE l.ask.op \in Reads
    <3>1. Committed(l) = [l EXCEPT !.pc = "reread"]
      BY <2>1 DEF Committed, Reads
    <3>2. Committed(l).pc = "reread" /\ Moved(Committed(l), l)
      BY <1>3, <3>1, MovedIs DEF Fine
    <3>3. l.ask.op \in Resolvers /\ l.todo # <<>>
      BY <1>3, <2>1 DEF Fine, Accounted, Resolvers
    <3>4. Fine(Committed(l))
      BY <1>3, <2>1, <3>2, <3>3, MovedIsFine
    <3> QED
      BY <1>3, <3>2, <3>4 DEF Relied, Unmissed, Moved
  <2>2. CASE l.ask.op = "search"
    <3>1. Committed(l) = Settled(l, Head(l.todo), "listed", None)
      BY <2>2 DEF Committed, Reads
    <3>2. l.ask.op \in Resolvers /\ l.todo # <<>> /\ Covered(l, Head(l.todo))
      BY <1>3, <2>2 DEF Fine, Accounted, Searched, Resolvers
    <3>3. Typed(l) /\ "listed" \in Verdicts /\ Head(l.todo) \in Iccids
      BY <1>3, <3>2, ElementsTail DEF Fine, Verdicts, Typed
    <3>4. Fine(Committed(l))
      BY <1>3, <2>2, <3>1, <3>2, SettledIsFine
    <3>5. Relied(Committed(l), known[r])
      BY <1>3, <3>1, <3>2, <3>3, SettledIsRelied
    <3>6. Follows(Committed(l), l, Head(l.todo), "listed")
      BY <3>1, <3>3, SettledIs, Zenon
    <3> QED
      BY <3>4, <3>5, <3>6 DEF Relied, Follows
  <2>3. CASE l.ask.op \notin Reads /\ l.ask.op # "search"
    <3>1. Committed(l) = Fresh
      BY <2>3 DEF Committed
    <3> QED
      BY <1>3, <3>1, FreshIs, FreshIsFine DEF Relied
  <2> QED
    BY <2>1, <2>2, <2>3
<1>8. Same(m, Committed(l))
  <2>1. DOMAIN Committed(l) = {"pc", "ask", "todo", "rows", "fired", "wrote", "touched", "first",
                               "verdict", "via", "found", "told", "bad", "left", "page"}
    BY <1>7, FreshIs DEF Fine, Typed
  <2> QED
    BY <1>2, <2>1 DEF Same
<1>9. Fine(m) /\ Unmissed(m, known[r]) /\ (m.pc # "idle" => m.ask = l.ask)
  BY <1>7, <1>8, SameIsFine DEF Same, Unmissed
<1>10. req' = [s \in Req |-> req'[s]] /\ req'[r] = m /\ \A s \in Req : s # r => req'[s] = req[s]
  BY <1>3 DEF IInv, Goes
<1>11. ASSUME NEW s \in Req
       PROVE  /\ Fine(req'[s]) /\ Unmissed(req'[s], known'[s])
              /\ req'[s].pc # "idle" => \A x \in known'[s] : routing'[x].company = req'[s].ask.company
  <2>1. CASE s = r
    <3>1. Unmissed(m, known'[s])
      BY <1>5, <1>9, <2>1 DEF Unmissed
    <3>2. \A x \in known'[s] : routing'[x].company = l.ask.company
      BY <1>3, <1>5, <1>6, <2>1 DEF Relied, Routed, Company
    <3> QED
      BY <1>9, <1>10, <2>1, <3>1, <3>2
  <2>2. CASE s # r
    <3>1. Fine(req[s]) /\ Relied(req[s], known[s]) /\ req'[s] = req[s]
      BY <1>10, <2>2 DEF IInv
    <3>2. Unmissed(req[s], known'[s])
      BY <1>5, <3>1 DEF Relied, Unmissed
    <3>3. req[s].pc # "idle" => \A x \in known'[s] : routing'[x].company = req[s].ask.company
      BY <1>5, <1>6, <3>1 DEF Relied, Routed, Company
    <3> QED
      BY <3>1, <3>2, <3>3
  <2> QED
    BY <2>1, <2>2
<1>12. ASSUME NEW s \in Req
       PROVE  Fine(req[s])' /\ Relied(req[s], known[s])'
  <2>1. /\ Fine(req'[s]) /\ Unmissed(req'[s], known'[s])
        /\ req'[s].pc # "idle" => \A x \in known'[s] : routing'[x].company = req'[s].ask.company
    BY <1>11
  <2> QED
    BY <2>1 DEF Relied, Routed
<1> QED
  BY <1>5, <1>10, <1>12 DEF IInv

-----------------------------------------------------------------------------
(* The answers. *)

LEMMA SetupKeeps ==
  ASSUME IInv, NEW r \in Req, Setup(r)
  PROVE  IInv'
<1>1. PICK failing \in SUBSET Providers :
        Goes(r, [req[r] EXCEPT !.pc = "fetch",
                   !.bad = failing \cap {req[r].via[x] : x \in Iccids}])
  BY DEF Setup
<1>2. PICK bad : bad = failing \cap {req[r].via[x] : x \in Iccids}
  OBVIOUS
<1>3. PICK m : m = [req[r] EXCEPT !.pc = "fetch", !.bad = bad]
  OBVIOUS
<1>4. /\ Fine(req[r]) /\ Relied(req[r], known[r]) /\ req[r].pc = "setup"
      /\ req[r].ask.op \in Resolvers /\ req[r].todo = <<>>
      /\ UNCHANGED <<routing, known>> /\ Goes(r, m)
  BY <1>1, <1>2, <1>3 DEF IInv, Setup, At, Shared, Fine, Placed, Accounted
<1>5. DOMAIN req[r] = {"pc", "ask", "todo", "rows", "fired", "wrote", "touched", "first",
                       "verdict", "via", "found", "told", "bad", "left", "page"}
  BY <1>4, FreshIs DEF Fine, Typed
<1>6. m.pc = "fetch" /\ Moved(m, req[r])
  BY <1>3, <1>5 DEF Moved
<1>7. Fine(m)
  BY <1>4, <1>6, MovedIsFine
<1>8. Relied(m, known[r])
  BY <1>4, <1>6 DEF Relied, Unmissed, Moved
<1> QED
  BY <1>4, <1>7, <1>8, QuietStep

\* A fetch starts, or it ends.
LEMMA FetchKeeps ==
  ASSUME IInv, NEW r \in Req, At(r, "fetch"), NEW x \in Iccids, NEW v \in Answers \cup {"running"},
         Goes(r, [req[r] EXCEPT !.verdict[x] = v]), UNCHANGED <<routing, known>>
  PROVE  IInv'
<1> DEFINE l == req[r]
<1>1. PICK m : m = [l EXCEPT !.verdict[x] = v]
  OBVIOUS
<1>2. /\ Fine(l) /\ Relied(l, known[r]) /\ l.pc = "fetch" /\ Goes(r, m)
      /\ l.ask.op \in Resolvers /\ l.todo = <<>>
  BY <1>1 DEF IInv, At, Fine, Placed, Accounted
<1>3. DOMAIN l = {"pc", "ask", "todo", "rows", "fired", "wrote", "touched", "first",
                  "verdict", "via", "found", "told", "bad", "left", "page"}
  BY <1>2, FreshIs DEF Fine, Typed
<1>4. /\ DOMAIN m = DOMAIN l /\ m.pc = "fetch" /\ m.ask = l.ask /\ m.todo = <<>>
      /\ m.left = l.left /\ m.found = l.found /\ m.told = l.told
  BY <1>1, <1>2, <1>3
<1>5. m.verdict = [l.verdict EXCEPT ![x] = v]
  BY <1>1, <1>3
<1>6. v \in Verdicts /\ v \notin {"none", "listed", "unresolved"} /\ l.verdict \in [Iccids -> Verdicts]
  BY <1>2 DEF Fine, Typed, Verdicts, Answers
<1>7. /\ m.verdict \in [Iccids -> Verdicts]
      /\ \A y \in Iccids : m.verdict[y] = IF y = x THEN v ELSE l.verdict[y]
  BY <1>5, <1>6
<1>8. Typed(m)
  BY <1>2, <1>4, <1>7 DEF Fine, Typed
<1>9. Placed(m) /\ Counted(m)
  BY <1>2, <1>4 DEF Placed, Counted
<1>10. Accounted(m)
  <2>1. Elements(l.ask.iccids) \subseteq Iccids
    BY <1>2 DEF Fine, Typed, AskType, Elements
  <2>2. \A y \in Elements(m.ask.iccids) : m.verdict[y] # "none"
    BY <1>2, <1>4, <1>6, <1>7, <2>1, NoElements DEF Fine, Accounted
  <2>3. l.ask.op \in Reads => \A y \in Iccids : m.verdict[y] # "listed"
    BY <1>2, <1>6, <1>7 DEF Fine, Accounted
  <2> QED
    BY <1>4, <2>2, <2>3 DEF Accounted
<1>11. Searched(m)
  <2>1. With(m, "listed") \subseteq With(l, "listed")
    BY <1>6, <1>7 DEF With
  <2>2. l.ask.op = "search" => Len(m.todo) <= 1 /\ \A y \in With(l, "listed") : Covered(m, y)
    BY <1>2, <1>4 DEF Fine, Searched, Covered
  <2> QED
    BY <1>4, <2>1, <2>2 DEF Searched
<1>12. Relied(m, known[r])
  <2>1. known[r] \subseteq Iccids
    BY DEF IInv
  <2> QED
    BY <1>2, <1>4, <1>6, <1>7, <2>1 DEF Relied, Unmissed
<1> QED
  BY <1>2, <1>8, <1>9, <1>10, <1>11, <1>12, QuietStep DEF Fine

LEMMA OutcomesAreAnswers ==
  ASSUME NEW l, NEW x
  PROVE  Outcomes(l, x) \subseteq Answers
  BY DEF Outcomes, Answers

LEMMA StartKeeps ==
  ASSUME IInv, NEW r \in Req, NEW x \in Iccids, Start(r, x)
  PROVE  IInv'
  BY FetchKeeps DEF Start, Shared

LEMMA EndKeeps ==
  ASSUME IInv, NEW r \in Req, NEW x \in Iccids, End(r, x)
  PROVE  IInv'
<1>1. PICK v \in Outcomes(req[r], x) : Goes(r, [req[r] EXCEPT !.verdict[x] = v])
  BY DEF End
<1>2. v \in Answers \cup {"running"}
  BY OutcomesAreAnswers
<1> QED
  BY <1>1, <1>2, FetchKeeps DEF End, Shared

LEMMA ReplyKeeps ==
  ASSUME IInv, NEW r \in Req, Reply(r)
  PROVE  IInv'
<1> DEFINE l == req[r]
<1>1. PICK via : via = Fresh.via
  OBVIOUS
<1>2. PICK m : m = [l EXCEPT !.pc = "done", !.bad = {}, !.via = via]
  OBVIOUS
<1>3. /\ Fine(l) /\ Relied(l, known[r]) /\ l.pc = "fetch" /\ Goes(r, m) /\ UNCHANGED routing
      /\ known' = [known EXCEPT ![r] = {}]
      /\ l.ask.op \in Resolvers /\ l.todo = <<>>
      /\ With(l, "resolved") \cup With(l, "running") = {}
  BY <1>1, <1>2 DEF IInv, Reply, At, Fine, Placed, Accounted
<1>4. \A x \in Iccids : l.verdict[x] \notin {"resolved", "running"}
  BY <1>3 DEF With
<1>5. DOMAIN l = {"pc", "ask", "todo", "rows", "fired", "wrote", "touched", "first",
                  "verdict", "via", "found", "told", "bad", "left", "page"}
  BY <1>3, FreshIs DEF Fine, Typed
<1>6. m.pc = "done" /\ Moved(m, l)
  BY <1>2, <1>5 DEF Moved
<1>7. Fine(m)
  BY <1>3, <1>4, <1>6, MovedIsFine
<1>8. Relied(m, {})
  BY <1>6 DEF Relied, Unmissed
<1> QED
  BY <1>3, <1>7, <1>8, LocalStep

\* A statistic turns to the next account, or goes on with the one it is at.
Turned(m, l) ==
  /\ DOMAIN m = DOMAIN l /\ m.pc = l.pc /\ m.ask = l.ask /\ m.todo = l.todo
  /\ m.verdict = l.verdict
  /\ \/ m.left = l.left /\ m.found = l.found /\ m.told = l.told
     \/ m.left = Tail(l.left) /\ m.found = l.found /\ m.told = l.told \cup {Head(l.left)}
     \/ m.left = Tail(l.left) /\ m.found = l.found \cup {Head(l.left)} /\ m.told = l.told

LEMMA TurnedKeeps ==
  ASSUME IInv, NEW r \in Req, At(r, "stats"), req[r].left # <<>>, NEW m, Goes(r, m),
         Turned(m, req[r]), UNCHANGED <<routing, known>>
  PROVE  IInv'
<1> DEFINE l == req[r]
<1>1. /\ Fine(l) /\ Relied(l, known[r]) /\ l.pc = "stats" /\ l.ask.op = "stats"
      /\ l.left \in Seq(Sources)
  BY DEF IInv, At, Fine, Placed, Typed
<1>2. /\ Tail(l.left) \in Seq(Sources)
      /\ \A s \in Elements(l.left) : s = Head(l.left) \/ s \in Elements(Tail(l.left))
  BY <1>1, ElementsTail
<1>3. Typed(m)
  BY <1>1, <1>2 DEF Fine, Typed, Turned
<1>4. Placed(m) /\ Accounted(m) /\ Searched(m)
  BY <1>1 DEF Placed, Accounted, Searched, Turned, Resolvers, Reads
<1>5. Counted(m)
  <2>1. Elements(l.ask.accounts) \subseteq Elements(l.left) \cup l.found \cup l.told
    BY <1>1 DEF Fine, Counted
  <2>2. Elements(m.ask.accounts) \subseteq Elements(m.left) \cup m.found \cup m.told
    BY <1>2, <2>1 DEF Turned
  <2> QED
    BY <1>1, <2>2 DEF Counted, Turned
<1>6. Relied(m, known[r])
  BY <1>1 DEF Relied, Unmissed, Turned
<1> QED
  BY <1>1, <1>3, <1>4, <1>5, <1>6, QuietStep DEF Fine

LEMMA TurnedAre ==
  ASSUME NEW l, Typed(l), NEW s, s = Head(l.left)
  PROVE  /\ Turned([NextAccount(l) EXCEPT !.told = @ \cup {s}], l)
         /\ Turned([NextAccount(l) EXCEPT !.found = @ \cup {s}], l)
         /\ Turned([l EXCEPT !.page = @ + 1], l)
<1>1. DOMAIN l = {"pc", "ask", "todo", "rows", "fired", "wrote", "touched", "first",
                  "verdict", "via", "found", "told", "bad", "left", "page"}
  BY FreshIs DEF Typed
<1>2. PICK n : n = NextAccount(l)
  OBVIOUS
<1>3. /\ DOMAIN n = DOMAIN l /\ n.pc = l.pc /\ n.ask = l.ask /\ n.todo = l.todo
      /\ n.verdict = l.verdict /\ n.left = Tail(l.left) /\ n.found = l.found /\ n.told = l.told
  BY <1>1, <1>2 DEF NextAccount
<1>4. Turned([n EXCEPT !.told = @ \cup {s}], l)
  BY <1>1, <1>3 DEF Turned
<1>5. Turned([n EXCEPT !.found = @ \cup {s}], l)
  BY <1>1, <1>3 DEF Turned
<1>6. Turned([l EXCEPT !.page = @ + 1], l)
  BY <1>1 DEF Turned
<1> QED
  BY <1>2, <1>4, <1>5, <1>6

LEMMA StatsFailsKeeps ==
  ASSUME IInv, NEW r \in Req, StatsFails(r)
  PROVE  IInv'
<1>1. PICK m : m = [NextAccount(req[r]) EXCEPT !.told = @ \cup {Head(req[r].left)}]
  OBVIOUS
<1>2. Goes(r, m) /\ At(r, "stats") /\ req[r].left # <<>> /\ UNCHANGED <<routing, known>>
  BY <1>1 DEF StatsFails, Shared
<1>3. Turned(m, req[r])
  BY <1>1, TurnedAre DEF IInv, Fine
<1> QED
  BY <1>2, <1>3, TurnedKeeps

LEMMA StatsPageOfKeeps ==
  ASSUME IInv, NEW r \in Req, StatsPageOf(r)
  PROVE  IInv'
<1> DEFINE l == req[r]
           s == Head(l.left)
<1>1. At(r, "stats") /\ l.left # <<>> /\ UNCHANGED <<routing, known>>
  BY DEF StatsPageOf, Shared
<1>2. \/ Goes(r, [NextAccount(l) EXCEPT !.found = @ \cup {s}])
      \/ Goes(r, [NextAccount(l) EXCEPT !.told = @ \cup {s}])
      \/ Goes(r, [l EXCEPT !.page = @ + 1])
  BY DEF StatsPageOf, CutOff
<1>3. Typed(l)
  BY DEF IInv, Fine
<1>4. /\ Turned([NextAccount(l) EXCEPT !.told = @ \cup {s}], l)
      /\ Turned([NextAccount(l) EXCEPT !.found = @ \cup {s}], l)
      /\ Turned([l EXCEPT !.page = @ + 1], l)
  BY <1>3, TurnedAre
<1>5. PICK m : Goes(r, m) /\ Turned(m, l)
  BY <1>2, <1>4
<1> QED
  BY <1>1, <1>5, TurnedKeeps

LEMMA StatsReplyKeeps ==
  ASSUME IInv, NEW r \in Req, StatsReply(r)
  PROVE  IInv'
<1> DEFINE l == req[r]
<1>1. PICK via : via = Fresh.via
  OBVIOUS
<1>2. PICK m : m = [l EXCEPT !.pc = "done", !.bad = {}, !.via = via]
  OBVIOUS
<1>3. /\ Fine(l) /\ l.pc = "stats" /\ l.ask.op = "stats" /\ l.left = <<>>
      /\ Goes(r, m) /\ UNCHANGED routing /\ known' = [known EXCEPT ![r] = {}]
  BY <1>1, <1>2 DEF IInv, StatsReply, At, Fine, Placed
<1>4. DOMAIN l = {"pc", "ask", "todo", "rows", "fired", "wrote", "touched", "first",
                  "verdict", "via", "found", "told", "bad", "left", "page"}
  BY <1>3, FreshIs DEF Fine, Typed
<1>5. m.pc = "done" /\ Moved(m, l)
  BY <1>2, <1>4 DEF Moved
<1>6. Typed(m)
  BY <1>3, <1>5 DEF Fine, Typed, Moved, Pcs
<1>7. Placed(m) /\ Accounted(m) /\ Searched(m)
  BY <1>3, <1>5 DEF Placed, Accounted, Searched, Moved, Resolvers, Reads
<1>8. Counted(m)
  BY <1>3, <1>5 DEF Fine, Counted, Moved
<1>9. Relied(m, {})
  BY <1>5 DEF Relied, Unmissed
<1> QED
  BY <1>3, <1>6, <1>7, <1>8, <1>9, LocalStep DEF Fine

LEMMA RestartKeeps ==
  ASSUME IInv, Restart
  PROVE  IInv'
<1>1. /\ req' = [r \in Req |-> Fresh] /\ known' = [r \in Req |-> {}] /\ UNCHANGED routing
  BY DEF Restart
<1>2. Fine(Fresh) /\ Relied(Fresh, {})
  BY FreshIsFine
<1>3. ASSUME NEW r \in Req
      PROVE  Fine(req[r])' /\ Relied(req[r], known[r])'
  BY <1>1, <1>2 DEF Relied, Unmissed, Routed
<1> QED
  BY <1>1, <1>3 DEF IInv

LEMMA OthersKeep ==
  ASSUME IInv, UNCHANGED <<routing, req, known>>
  PROVE  IInv'
<1>1. ASSUME NEW r \in Req
      PROVE  Fine(req[r])' /\ Relied(req[r], known[r])'
  <2>1. Fine(req[r]) /\ Relied(req[r], known[r])
    BY DEF IInv
  <2>2. req'[r] = req[r] /\ known'[r] = known[r]
    OBVIOUS
  <2> QED
    BY <2>1, <2>2 DEF Relied, Unmissed, Routed
<1> QED
  BY <1>1 DEF IInv


LEMMA InitHolds == Init => IInv
<1> SUFFICES ASSUME Init PROVE IInv
  OBVIOUS
<1>1. Fine(Fresh) /\ Relied(Fresh, {})
  BY FreshIsFine
<1> QED
  BY <1>1 DEF Init, IInv

LEMMA NextKeeps == IInv /\ [Next]_vars => IInv'
<1> SUFFICES ASSUME IInv, [Next]_vars PROVE IInv'
  OBVIOUS
<1>1. ASSUME NEW r \in Req, Resolve(r) PROVE IInv'
  BY <1>1, LookupKeeps, ByPrefixKeeps, CachedMissKeeps, FanOutKeeps, GatheredKeeps, RereadKeeps
     DEF Resolve
<1>2. ASSUME NEW r \in Req, Fetch(r) PROVE IInv'
  BY <1>2, SetupKeeps, ReplyKeeps, StartKeeps, EndKeeps DEF Fetch
<1>3. ASSUME NEW r \in Req, Stats(r) PROVE IInv'
  BY <1>3, StatsFailsKeeps, StatsPageOfKeeps, StatsReplyKeeps DEF Stats
<1>4. ASSUME NEW r \in Req, Step(r) \/ Write(r) \/ \E a \in Asks[r] : Begin(r, a) PROVE IInv'
  BY <1>1, <1>2, <1>3, <1>4, ListProviderKeeps, CommitKeeps, FailsKeeps, UpsertKeeps,
     TriggerKeeps, BeginKeeps DEF Step, Write
<1>5. CASE Tick \/ Recover
  BY <1>5, OthersKeep DEF Tick, Recover
<1>6. CASE Restart
  BY <1>6, RestartKeeps
<1>7. CASE UNCHANGED vars
  BY <1>7, OthersKeep DEF vars
<1> QED
  BY <1>4, <1>5, <1>6, <1>7 DEF Next


-----------------------------------------------------------------------------
(* Induction, from the fact that a set of finite sets has a least member. *)

LEMMA LeastNatural ==
  ASSUME NEW T \in SUBSET Nat, T # {}
  PROVE  \E n \in T : \A m \in T : n <= m
<1> DEFINE below == {0 .. n - 1 : n \in T}
<1>1. below \subseteq FiniteSubsetsOf(Nat) /\ below # {}
  <2>1. \A n \in T : IsFiniteSet(0 .. n - 1) /\ 0 .. n - 1 \subseteq Nat
    BY FS_Interval
  <2> QED
    BY <2>1 DEF FiniteSubsetsOf
<1>2. PICK x \in below : \A y \in below : <<y, x>> \notin StrictSubsetOrdering(Nat)
  BY <1>1, FS_StrictSubsetOrderingWellFounded, WFMin
<1>3. PICK n \in T : x = 0 .. n - 1
  OBVIOUS
<1>4. ASSUME NEW m \in T, m < n
      PROVE  FALSE
  <2>1. 0 .. m - 1 \subseteq 0 .. n - 1 /\ m \in 0 .. n - 1 /\ m \notin 0 .. m - 1
    BY <1>4
  <2>2. 0 .. m - 1 \in below /\ 0 .. m - 1 \subseteq Nat /\ 0 .. n - 1 \subseteq Nat
    OBVIOUS
  <2> QED
    BY <1>2, <1>3, <2>1, <2>2 DEF StrictSubsetOrdering
<1> QED
  BY <1>4

\* f selects from s, up to n, what is at the positions in at.
Selects(f, s, at, n) ==
  f = [i \in 0 .. n |-> IF i = 0 THEN <<>>
                        ELSE IF i \in at THEN Append(f[i - 1], s[i]) ELSE f[i - 1]]

LEMMA SelectionExists ==
  ASSUME NEW s, NEW at, NEW n \in Nat
  PROVE  \E f : Selects(f, s, at, n)
<1> DEFINE T == {k \in 0 .. n : ~ \E f : Selects(f, s, at, k)}
<1>1. SUFFICES ASSUME T # {} PROVE FALSE
  OBVIOUS
<1>2. PICK k \in T : \A m \in T : k <= m
  <2>1. T \in SUBSET Nat
    OBVIOUS
  <2> HIDE DEF T
  <2> QED
    BY <1>1, <2>1, LeastNatural
<1>3. k # 0
  <2>1. Selects([i \in 0 .. 0 |-> <<>>], s, at, 0)
    BY DEF Selects
  <2> QED
    BY <2>1
<1>4. k - 1 \in 0 .. n /\ k - 1 \notin T
  BY <1>2, <1>3
<1>5. PICK g : Selects(g, s, at, k - 1)
  BY <1>4
<1>6. PICK last : last = IF k \in at THEN Append(g[k - 1], s[k]) ELSE g[k - 1]
  OBVIOUS
<1>7. PICK h : h = [i \in 0 .. k |-> IF i < k THEN g[i] ELSE last]
  OBVIOUS
<1>8. /\ \A i \in 0 .. k - 1 : i \in 0 .. k /\ h[i] = g[i]
      /\ h[k] = last
  BY <1>3, <1>7
<1>9. ASSUME NEW i \in 0 .. k
      PROVE  h[i] = IF i = 0 THEN <<>>
                    ELSE IF i \in at THEN Append(h[i - 1], s[i]) ELSE h[i - 1]
  <2>1. CASE i = k
    <3>1. h[k - 1] = g[k - 1]
      BY <1>3, <1>8
    <3> QED
      BY <1>3, <1>6, <1>8, <2>1, <3>1
  <2>2. CASE i # k
    <3>1. i \in 0 .. k - 1 /\ h[i] = g[i] /\ (i # 0 => h[i - 1] = g[i - 1])
      BY <1>8, <2>2
    <3> QED
      BY <1>5, <3>1 DEF Selects
  <2> QED
    BY <2>1, <2>2
<1>10. Selects(h, s, at, k)
  <2>1. h = [i \in 0 .. k |-> h[i]]
    BY <1>7
  <2> QED
    BY <1>9, <2>1 DEF Selects
<1> QED
  BY <1>10

\* What is selected comes from s, is no longer than s, and not empty unless it has to be.
LEMMA OnlyIs ==
  ASSUME NEW S, NEW s \in Seq(S), NEW at
  PROVE  /\ Only(s, at) \in Seq(S) /\ Len(Only(s, at)) <= Len(s)
         /\ at \cap DOMAIN s # {} => Only(s, at) # <<>>
<1> DEFINE n == Len(s)
<1>1. PICK f : f = CHOOSE g : Selects(g, s, at, n)
  OBVIOUS
<1>2. n \in Nat /\ \A i \in 1 .. n : s[i] \in S
  OBVIOUS
<1>3. Selects(f, s, at, n)
  <2> HIDE DEF n
  <2> QED
    BY <1>1, <1>2, SelectionExists
<1>4. Only(s, at) = f[n]
  BY <1>1 DEF Only, Selects
<1> HIDE DEF n
<1>5. \A i \in 0 .. n : f[i] = IF i = 0 THEN <<>>
                               ELSE IF i \in at THEN Append(f[i - 1], s[i]) ELSE f[i - 1]
  BY <1>3 DEF Selects
<1> DEFINE Good(i) == /\ f[i] \in Seq(S) /\ Len(f[i]) <= i
                      /\ at \cap (1 .. i) # {} => f[i] # <<>>
           bad == {i \in 0 .. n : ~Good(i)}
<1>6. ASSUME bad # {} PROVE FALSE
  <2>1. PICK k \in bad : \A m \in bad : k <= m
    <3>1. bad \in SUBSET Nat
      BY <1>2
    <3> HIDE DEF bad
    <3> QED
      BY <1>6, <3>1, LeastNatural
  <2>2. k # 0
    <3>1. f[0] = <<>> /\ 1 .. 0 = {}
      BY <1>2, <1>5
    <3>2. Good(0)
      BY <3>1
    <3> QED
      BY <3>2
  <2>3. k - 1 \in 0 .. n /\ k \in 1 .. n /\ k \in 0 .. n /\ Good(k - 1)
    BY <1>2, <2>1, <2>2
  <2>4. /\ f[k - 1] \in Seq(S) /\ Len(f[k - 1]) <= k - 1 /\ s[k] \in S
        /\ f[k] = IF k \in at THEN Append(f[k - 1], s[k]) ELSE f[k - 1]
    BY <1>2, <1>5, <2>2, <2>3
  <2>5. f[k] \in Seq(S) /\ Len(f[k]) <= k /\ (k \in at => f[k] # <<>>)
    BY <2>3, <2>4
  <2>6. at \cap (1 .. k) # {} => k \in at \/ at \cap (1 .. k - 1) # {}
    BY <2>3
  <2>7. Good(k)
    BY <2>3, <2>4, <2>5, <2>6
  <2> QED
    BY <2>1, <2>7
<1>7. Good(n)
  BY <1>2, <1>6
<1> QED
  BY <1>4, <1>7 DEF n

-----------------------------------------------------------------------------
(* The negative cache. *)

\* To forget an entry leaves entries, and no more of them.
LEMMA WithoutIs ==
  ASSUME NEW s \in Seq(Entry), NEW c, NEW x
  PROVE  Without(s, c, x) \in Seq(Entry) /\ Len(Without(s, c, x)) <= Len(s)
  BY OnlyIs DEF Without

LEMMA RoomIs ==
  ASSUME NEW s \in Seq(Entry), Len(s) <= MaxEntries
  PROVE  Room(s) \in Seq(Entry) /\ Len(Room(s)) < MaxEntries
<1> DEFINE kept == Only(s, {i \in DOMAIN s : s[i].left > 0})
<1>1. kept \in Seq(Entry) /\ Len(kept) <= Len(s)
  BY OnlyIs
<1>2. MaxEntries \in Nat \ {0} /\ Len(s) \in Nat /\ Len(kept) \in Nat
  BY <1>1, ReadsAssumption
<1>3. CASE Len(s) < MaxEntries
  BY <1>3 DEF Room
<1>4. CASE ~(Len(s) < MaxEntries) /\ Len(kept) < MaxEntries
  <2>1. Room(s) = kept
    BY <1>4 DEF Room
  <2> HIDE DEF kept
  <2> QED
    BY <1>1, <1>4, <2>1
<1>5. CASE ~(Len(s) < MaxEntries) /\ ~(Len(kept) < MaxEntries)
  <2>1. Room(s) = Tail(kept)
    BY <1>5 DEF Room
  <2> HIDE DEF kept
  <2>2. Len(kept) = MaxEntries /\ kept # <<>>
    BY <1>1, <1>2, <1>5
  <2>3. Tail(kept) \in Seq(Entry) /\ Len(Tail(kept)) = Len(kept) - 1
    BY <1>1, <2>2
  <2> QED
    BY <1>2, <2>1, <2>2, <2>3
<1> QED
  BY <1>3, <1>4, <1>5

LEMMA RecordIs ==
  ASSUME cache \in Seq(Entry), CacheBounded, NEW c \in Companies, NEW x \in Iccids
  PROVE  Record(c, x) \in Seq(Entry) /\ Len(Record(c, x)) <= MaxEntries
<1>1. PICK room : room = Room(cache)
  OBVIOUS
<1>2. PICK new : new = [company |-> c, iccid |-> x, left |-> Ttl]
  OBVIOUS
<1>3. room \in Seq(Entry) /\ Len(room) < MaxEntries /\ new \in Entry /\ MaxEntries \in Nat
  <2>1. Ttl \in Nat \ {0} /\ MaxEntries \in Nat
    BY ReadsAssumption
  <2>2. new \in Entry
    BY <1>2, <2>1 DEF Entry
  <2>3. room \in Seq(Entry) /\ Len(room) < MaxEntries
    BY <1>1, RoomIs DEF CacheBounded
  <2> QED
    BY <2>1, <2>2, <2>3
<1>4. CASE \E i \in DOMAIN room : Of(c, x, room[i])
  <2>1. Record(c, x) = [i \in DOMAIN room |-> IF Of(c, x, room[i]) THEN new ELSE room[i]]
    BY <1>1, <1>2, <1>4 DEF Record
  <2>2. DOMAIN room = 1 .. Len(room) /\ Len(room) \in Nat /\ \A i \in 1 .. Len(room) : room[i] \in Entry
    BY <1>3
  <2>3. PICK t : t = [i \in 1 .. Len(room) |-> IF Of(c, x, room[i]) THEN new ELSE room[i]]
    OBVIOUS
  <2>4. t \in [1 .. Len(room) -> Entry]
    BY <1>3, <2>2, <2>3
  <2>5. t \in Seq(Entry) /\ Len(t) = Len(room)
    BY <2>2, <2>4
  <2> QED
    BY <1>3, <2>1, <2>2, <2>3, <2>5
<1>5. CASE ~ \E i \in DOMAIN room : Of(c, x, room[i])
  <2>1. Record(c, x) = Append(room, new)
    BY <1>1, <1>2, <1>5 DEF Record
  <2>2. Append(room, new) \in Seq(Entry) /\ Len(Append(room, new)) = Len(room) + 1 /\ Len(room) \in Nat
    BY <1>3
  <2> QED
    BY <1>3, <2>1, <2>2
<1> QED
  BY <1>4, <1>5

CacheInv == cache \in Seq(Entry) /\ CacheBounded

\* What the cache remembers is in a key of the company that asked.
LEMMA GatheredCache ==
  ASSUME IInv, CacheInv, NEW r \in Req, req[r].todo # <<>>, Gathered(r, Head(req[r].todo))
  PROVE  CacheInv'
<1>1. UNCHANGED cache \/ cache' = Record(Company(r), Head(req[r].todo))
  BY DEF Gathered
<1>2. Company(r) \in Companies /\ Head(req[r].todo) \in Iccids
  <2>1. Typed(req[r]) /\ req[r].pc = "asking"
    BY DEF IInv, Fine, Gathered, At
  <2> QED
    BY <2>1, ElementsTail DEF Typed, AskType, Company
<1>3. CASE UNCHANGED cache
  BY <1>3 DEF CacheInv, CacheBounded
<1>4. CASE cache' = Record(Company(r), Head(req[r].todo))
  <2>1. Record(Company(r), Head(req[r].todo)) \in Seq(Entry)
        /\ Len(Record(Company(r), Head(req[r].todo))) <= MaxEntries
    BY <1>2, RecordIs DEF CacheInv
  <2> QED
    BY <1>4, <2>1 DEF CacheInv, CacheBounded
<1> QED
  BY <1>1, <1>3, <1>4

\* To forget is to select.
LEMMA ForgetCache ==
  ASSUME CacheInv, NEW c, NEW x, cache' = Without(cache, c, x)
  PROVE  CacheInv'
<1>1. Without(cache, c, x) \in Seq(Entry) /\ Len(Without(cache, c, x)) <= Len(cache)
  BY WithoutIs DEF CacheInv
<1>2. Len(cache) \in Nat /\ Len(Without(cache, c, x)) \in Nat /\ MaxEntries \in Nat
  BY <1>1, ReadsAssumption DEF CacheInv
<1> QED
  BY <1>1, <1>2 DEF CacheInv, CacheBounded

LEMMA TickCache ==
  ASSUME CacheInv, Tick
  PROVE  CacheInv'
<1>1. cache \in Seq(Entry) /\ Len(cache) \in Nat /\ DOMAIN cache = 1 .. Len(cache)
      /\ \A i \in 1 .. Len(cache) : cache[i] \in Entry
  BY DEF CacheInv
<1>2. cache' = [i \in 1 .. Len(cache) |->
                  [cache[i] EXCEPT !.left = IF @ > 0 THEN @ - 1 ELSE 0]]
  BY <1>1 DEF Tick
<1>3. ASSUME NEW i \in 1 .. Len(cache)
      PROVE  [cache[i] EXCEPT !.left = IF @ > 0 THEN @ - 1 ELSE 0] \in Entry
  <2>1. Ttl \in Nat /\ cache[i] \in Entry
    BY <1>1, ReadsAssumption
  <2>2. PICK n : n = IF cache[i].left > 0 THEN cache[i].left - 1 ELSE 0
    OBVIOUS
  <2>3. n \in 0 .. Ttl
    BY <2>1, <2>2 DEF Entry
  <2>4. [cache[i] EXCEPT !.left = n] \in Entry
    BY <2>1, <2>3 DEF Entry
  <2> QED
    BY <2>2, <2>4
<1>4. cache' \in [1 .. Len(cache) -> Entry]
  BY <1>2, <1>3
<1>5. cache' \in Seq(Entry) /\ Len(cache') = Len(cache)
  BY <1>1, <1>4
<1> QED
  BY <1>5 DEF CacheInv, CacheBounded

LEMMA CacheKeeps == IInv /\ CacheInv /\ [Next]_vars => CacheInv'
<1> SUFFICES ASSUME IInv, CacheInv, [Next]_vars PROVE CacheInv'
  OBVIOUS
<1>1. UNCHANGED cache => CacheInv'
  BY DEF CacheInv, CacheBounded
<1>2. ASSUME NEW r \in Req, Resolve(r) PROVE CacheInv'
  <2> DEFINE x == Head(req[r].todo)
  <2>1. CASE Lookup(r, x) \/ ByPrefix(r, x) \/ CachedMiss(r, x)
    BY <1>1, <2>1 DEF Lookup, ByPrefix, CachedMiss, Shared
  <2>2. CASE FanOut(r, x)
    BY <1>1, <2>2, ForgetCache DEF FanOut
  <2>3. CASE Gathered(r, x)
    BY <1>2, <2>3, GatheredCache DEF Resolve
  <2>4. CASE Reread(r, x)
    BY <2>4, ForgetCache DEF Reread
  <2> QED
    BY <1>2, <2>1, <2>2, <2>3, <2>4 DEF Resolve
<1>3. ASSUME NEW r \in Req,
             \/ ListProvider(r) \/ Commit(r) \/ Fails(r) \/ Fetch(r) \/ Stats(r) \/ Write(r)
             \/ \E a \in Asks[r] : Begin(r, a)
      PROVE  UNCHANGED cache
  BY <1>3 DEF ListProvider, Commit, Fails, Fetch, Setup, Start, End, Reply, Stats, StatsFails,
     StatsPageOf, StatsReply, Write, Upsert, Trigger, Begin, Shared
<1>4. CASE Tick
  BY <1>4, TickCache
<1>5. CASE Recover \/ UNCHANGED vars
  BY <1>1, <1>5 DEF Recover, vars
<1>6. CASE Restart
  BY <1>6, ReadsAssumption DEF Restart, CacheInv, CacheBounded
<1> QED
  BY <1>1, <1>2, <1>3, <1>4, <1>5, <1>6 DEF Next, Step

-----------------------------------------------------------------------------
(* Types. *)

LEMMA FreshIsLocal == Fresh \in Local
<1>1. <<>> \in Seq(Iccids) /\ <<>> \in Seq(Sources)
      /\ <<>> \in Seq(RowIn)
  OBVIOUS
<1> QED
  BY <1>1 DEF Fresh, Local, Pcs, Verdicts

LEMMA SettledIsLocal ==
  ASSUME NEW l \in Local, l.todo # <<>>, NEW x \in Iccids, NEW v \in Verdicts,
         NEW p \in Providers \cup {None}
  PROVE  Settled(l, x, v, p) \in Local
<1>1. l.todo \in Seq(Iccids) /\ l.verdict \in [Iccids -> Verdicts]
      /\ l.via \in [Iccids -> Providers \cup {None}]
  BY DEF Local
<1>2. PICK todo, verdict, via, pc :
        /\ todo = Tail(l.todo) /\ verdict = [l.verdict EXCEPT ![x] = v]
        /\ via = [l.via EXCEPT ![x] = p]
        /\ pc = IF Tail(l.todo) = <<>> THEN "setup" ELSE "lookup"
  OBVIOUS
<1>3. /\ todo \in Seq(Iccids) /\ verdict \in [Iccids -> Verdicts]
      /\ via \in [Iccids -> Providers \cup {None}] /\ pc \in Pcs
  BY <1>1, <1>2 DEF Pcs
<1>4. Settled(l, x, v, p)
        = [l EXCEPT !.todo = todo, !.first = None, !.verdict = verdict, !.via = via, !.pc = pc]
  BY <1>2 DEF Settled
<1>5. PICK none : none = None
  OBVIOUS
<1>6. [l EXCEPT !.todo = todo, !.first = none, !.verdict = verdict, !.via = via, !.pc = pc] \in Local
  BY <1>3, <1>5 DEF Local
<1> QED
  BY <1>4, <1>5, <1>6

LEMMA KeptIsLocal ==
  ASSUME NEW l \in Local, l.todo # <<>>, NEW x \in Iccids, NEW v \in Verdicts,
         NEW p \in Providers \cup {None}, NEW route
  PROVE  Kept(l, x, route, v, p) \in Local
  BY SettledIsLocal DEF Kept, Verdicts

\* Whoever goes on with a local state of its type keeps the type of all.
LEMMA GoesIsTyped ==
  ASSUME TypeOK, NEW r \in Req, NEW l \in Local, Goes(r, l)
  PROVE  req' \in [Req -> Local]
  BY DEF TypeOK, Goes

\* The request in hand, and the SIM.
LEMMA HandIsTyped ==
  ASSUME IInv, TypeOK, NEW r \in Req
  PROVE  /\ req[r] \in Local /\ Fine(req[r])
         /\ req[r].pc # "idle" => req[r].ask \in AskType /\ Company(r) \in Companies
         /\ req[r].todo # <<>> => Head(req[r].todo) \in Iccids
<1>1. req[r] \in Local /\ Fine(req[r])
  BY DEF TypeOK, IInv
<1>2. req[r].pc # "idle" => req[r].ask \in AskType
  BY <1>1 DEF Fine, Typed
<1>3. req[r].todo # <<>> => Head(req[r].todo) \in Iccids
  BY <1>1, ElementsTail DEF Fine, Typed
<1> QED
  BY <1>1, <1>2, <1>3 DEF AskType, Company

LEMMA ProvidersAre ==
  ASSUME TypeOK, NEW x \in Iccids
  PROVE  PrefixRoute(x) \in Providers \cup {None} /\ routing[x].provider \in Providers \cup {None}
<1>1. PrefixRoute(x) \in Providers \cup {None}
  BY ReadsAssumption DEF PrefixRoute, TypeOK
<1>2. routing[x].provider \in Providers \cup {None}
  BY DEF TypeOK, Row
<1> QED
  BY <1>1, <1>2

\* Each provider that lists the SIM gives a row, and one at least does.
LEMMA RowsAre ==
  ASSUME NEW x \in Iccids, NEW holders \in SUBSET Providers
  PROVE  /\ RowsOf(x, holders) \in Seq(RowIn)
         /\ holders # {} => RowsOf(x, holders)[1].provider \in Providers
<1> DEFINE at == {i \in DOMAIN ProviderOrder : ProviderOrder[i] \in holders}
<1>1. PICK by : by = Only(ProviderOrder, at)
  OBVIOUS
<1>2. ProviderOrder \in Seq(Providers)
  BY ReadsAssumption
<1>3. by \in Seq(Providers) /\ (at \cap DOMAIN ProviderOrder # {} => by # <<>>)
  <2> HIDE DEF at
  <2> QED
    BY <1>1, <1>2, OnlyIs
<1>4. RowsOf(x, holders) = [i \in DOMAIN by |-> [iccid |-> x, provider |-> by[i]]]
  BY <1>1 DEF RowsOf
<1>5. holders # {} => by # <<>>
  BY <1>3 DEF Providers
<1>6. /\ DOMAIN by = 1 .. Len(by) /\ Len(by) \in Nat /\ \A i \in 1 .. Len(by) : by[i] \in Providers
      /\ by # <<>> => 1 \in 1 .. Len(by)
  BY <1>3
<1>7. PICK rows : rows = [i \in 1 .. Len(by) |-> [iccid |-> x, provider |-> by[i]]]
  OBVIOUS
<1>8. rows \in [1 .. Len(by) -> RowIn]
  BY <1>6, <1>7 DEF RowIn
<1>9. rows \in Seq(RowIn)
  BY <1>6, <1>8
<1>10. by # <<>> => rows[1].provider = by[1]
  BY <1>6, <1>7
<1>11. RowsOf(x, holders) = rows
  BY <1>4, <1>6, <1>7
<1> QED
  BY <1>5, <1>6, <1>9, <1>10, <1>11

LEMMA HeardIsLocal ==
  ASSUME NEW l \in Local, l.ask \in AskType, NEW x \in Iccids,
         NEW holders \in SUBSET Providers, NEW failing \in SUBSET Providers
  PROVE  /\ Heard(l, x, holders, failing) \in Local
         /\ holders # {} => Heard(l, x, holders, failing).rows[1].provider \in Providers
<1>1. PICK rows, found, told :
        /\ rows = RowsOf(x, holders) /\ found = {Account(l.ask.company, p) : p \in holders}
        /\ told = {Account(l.ask.company, p) : p \in failing}
  OBVIOUS
<1>2. rows \in Seq(RowIn) /\ (holders # {} => rows[1].provider \in Providers)
  BY <1>1, RowsAre
<1>3. found \in SUBSET Sources /\ told \in SUBSET Sources
  BY <1>1 DEF Account, Sources, AskType
<1>4. PICK h : h = [l EXCEPT !.rows = rows]
  OBVIOUS
<1>5. h \in Local /\ h.rows = rows
  BY <1>2, <1>4 DEF Local, RowIn
<1>6. [h EXCEPT !.found = found, !.told = told] \in Local
      /\ [h EXCEPT !.found = found, !.told = told].rows = rows
  BY <1>3, <1>5 DEF Local
<1>7. \/ Heard(l, x, holders, failing) = h
      \/ Heard(l, x, holders, failing) = [h EXCEPT !.found = found, !.told = told]
  BY <1>1, <1>4 DEF Heard
<1> QED
  BY <1>2, <1>5, <1>6, <1>7

LEMMA GatheredIsTyped ==
  ASSUME IInv, TypeOK, NEW r \in Req, req[r].todo # <<>>, Gathered(r, Head(req[r].todo))
  PROVE  req' \in [Req -> Local]
<1> DEFINE x == Head(req[r].todo)
<1>1. /\ req[r] \in Local /\ Fine(req[r]) /\ req[r].pc = "asking" /\ req[r].ask \in AskType
      /\ x \in Iccids
  BY HandIsTyped DEF Gathered, At
<1>2. PICK failing \in SUBSET Providers, holders \in SUBSET Providers : \E l :
        /\ l = Heard(req[r], x, holders, failing)
        /\ \/ holders # {} /\ Goes(r, [l EXCEPT !.pc = "upsert", !.first = l.rows[1].provider])
           \/ Goes(r, Settled(l, x, "listed", None))
           \/ Goes(r, Settled(l, x, "unresolved", None))
  BY DEF Gathered
<1>3. PICK l :
        /\ l = Heard(req[r], x, holders, failing)
        /\ \/ holders # {} /\ Goes(r, [l EXCEPT !.pc = "upsert", !.first = l.rows[1].provider])
           \/ Goes(r, Settled(l, x, "listed", None))
           \/ Goes(r, Settled(l, x, "unresolved", None))
  BY <1>2
<1>4. l \in Local /\ (holders # {} => l.rows[1].provider \in Providers)
  BY <1>1, <1>3, HeardIsLocal
<1>5. l.todo # <<>>
  <2>1. Hears(l, req[r], holders, failing)
    BY <1>1, <1>3, HeardIs DEF Fine
  <2> QED
    BY <2>1 DEF Hears
<1>6. CASE holders # {} /\ Goes(r, [l EXCEPT !.pc = "upsert", !.first = l.rows[1].provider])
  <2>1. [l EXCEPT !.pc = "upsert", !.first = l.rows[1].provider] \in Local
    BY <1>4, <1>6 DEF Local, Pcs
  <2> QED
    BY <1>6, <2>1, GoesIsTyped
<1>7. ASSUME NEW v \in {"listed", "unresolved"}, Goes(r, Settled(l, x, v, None))
      PROVE  req' \in [Req -> Local]
  <2>1. Settled(l, x, v, None) \in Local
    BY <1>1, <1>4, <1>5, SettledIsLocal DEF Verdicts
  <2> QED
    BY <1>7, <2>1, GoesIsTyped
<1> QED
  BY <1>3, <1>6, <1>7

LEMMA ResolveIsTyped ==
  ASSUME IInv, TypeOK, NEW r \in Req, Resolve(r)
  PROVE  req' \in [Req -> Local]
<1> DEFINE l == req[r]
           x == Head(l.todo)
<1>1. l \in Local /\ l.todo # <<>> /\ x \in Iccids
  BY HandIsTyped DEF Resolve
<1>2. PrefixRoute(x) \in Providers \cup {None} /\ routing[x].provider \in Providers \cup {None}
      /\ l.first \in Providers \cup {None}
  BY <1>1, ProvidersAre DEF Local
<1>3. {"resolved", "ok", "unresolved"} \subseteq Verdicts /\ {"missed", "asking"} \subseteq Pcs
  BY DEF Verdicts, Answers, Pcs
<1>4. CASE Lookup(r, x)
  <2>1. PICK p : p = routing[x].provider
    OBVIOUS
  <2>2. Kept(l, x, p, "resolved", p) \in Local /\ [l EXCEPT !.pc = "missed"] \in Local
    BY <1>1, <1>2, <1>3, <2>1, KeptIsLocal DEF Local
  <2>3. Goes(r, Kept(l, x, p, "resolved", p)) \/ Goes(r, [l EXCEPT !.pc = "missed"])
    BY <1>4, <2>1 DEF Lookup
  <2> QED
    BY <2>2, <2>3, GoesIsTyped
<1>5. CASE ByPrefix(r, x)
  <2>1. Kept(l, x, PrefixRoute(x), "resolved", PrefixRoute(x)) \in Local
    BY <1>1, <1>2, <1>3, KeptIsLocal
  <2> QED
    BY <1>5, <2>1, GoesIsTyped DEF ByPrefix
<1>6. CASE CachedMiss(r, x)
  <2>1. Settled(l, x, "unresolved", None) \in Local
    BY <1>1, <1>3, SettledIsLocal
  <2> QED
    BY <1>6, <2>1, GoesIsTyped DEF CachedMiss
<1>7. CASE FanOut(r, x)
  <2>1. [l EXCEPT !.pc = "asking"] \in Local
    BY <1>1, <1>3 DEF Local
  <2> QED
    BY <1>7, <2>1, GoesIsTyped DEF FanOut
<1>8. CASE Gathered(r, x)
  BY <1>1, <1>8, GatheredIsTyped
<1>9. CASE Reread(r, x)
  <2>1. PICK v, p : /\ v = (IF l.ask.op = "get" THEN "ok" ELSE "resolved")
                    /\ p = (IF l.ask.op = "read" THEN routing[x].provider ELSE l.first)
    OBVIOUS
  <2>2. \/ Goes(r, Kept(l, x, routing[x].provider, v, p))
        \/ Goes(r, Settled(l, x, "unresolved", None))
    BY <1>9, <2>1 DEF Reread
  <2>3. v \in Verdicts /\ p \in Providers \cup {None}
    BY <1>2, <1>3, <2>1
  <2>4. Kept(l, x, routing[x].provider, v, p) \in Local
    BY <1>1, <2>3, KeptIsLocal
  <2>5. Settled(l, x, "unresolved", None) \in Local
    BY <1>1, <1>3, SettledIsLocal
  <2> QED
    BY <2>2, <2>4, <2>5, GoesIsTyped
<1> QED
  BY <1>4, <1>5, <1>6, <1>7, <1>8, <1>9 DEF Resolve

LEMMA BeginIsTyped ==
  ASSUME IInv, TypeOK, NEW r \in Req, NEW a \in Asks[r], Begin(r, a)
  PROVE  req' \in [Req -> Local]
<1>1. a \in AskType /\ FirstPc[a.op] \in Pcs
  <2>1. a \in AskType
    BY ReadsAssumption
  <2>2. a.op \in Ops
    BY <2>1 DEF AskType
  <2>3. FirstPc[a.op] \in {"upsert", "list", "stats", "lookup"}
    BY <2>2 DEF FirstPc
  <2> QED
    BY <2>1, <2>3 DEF Pcs
<1>2. PICK pc : pc = FirstPc[a.op]
  OBVIOUS
<1>3. PICK m : m = [Fresh EXCEPT !.pc = pc, !.ask = a, !.todo = a.iccids, !.rows = a.rows,
                                 !.left = a.accounts]
  OBVIOUS
<1>4. PICK f : f = Fresh
  OBVIOUS
<1>5. m \in Local
  <2>1. f \in Local /\ m = [f EXCEPT !.pc = pc, !.ask = a, !.todo = a.iccids, !.rows = a.rows,
                                     !.left = a.accounts]
    BY <1>3, <1>4, FreshIsLocal
  <2> QED
    BY <1>1, <1>2, <2>1 DEF Local, AskType
<1> QED
  BY <1>2, <1>3, <1>5, GoesIsTyped DEF Begin

LEMMA WritesAreTyped ==
  ASSUME IInv, TypeOK, NEW r \in Req, ListProvider(r) \/ Write(r) \/ Commit(r) \/ Fails(r)
  PROVE  req' \in [Req -> Local]
<1>1. req[r] \in Local /\ Fine(req[r]) /\ (req[r].todo # <<>> => Head(req[r].todo) \in Iccids)
  BY HandIsTyped
<1>2. Goes(r, Fresh) => req' \in [Req -> Local]
  BY FreshIsLocal, GoesIsTyped
<1>3. CASE ListProvider(r)
  <2>1. [req[r] EXCEPT !.pc = "upsert"] \in Local
    BY <1>1 DEF Local, Pcs
  <2> QED
    BY <1>2, <1>3, <2>1, GoesIsTyped DEF ListProvider
<1>4. CASE Upsert(r)
  <2>1. PICK row, i, p : row = Head(req[r].rows) /\ i = row.iccid /\ p = row.provider
    OBVIOUS
  <2>2. req[r].rows \in Seq(RowIn) /\ req[r].rows # <<>>
        /\ req[r].wrote \in [Iccids -> Providers \cup {None}]
    BY <1>1, <1>4 DEF Upsert, Local, RowIn
  <2>3. Head(req[r].rows) \in RowIn /\ Tail(req[r].rows) \in Seq(RowIn)
    BY <2>2, ElementsTail
  <2>4. PICK rows, wrote : rows = Tail(req[r].rows) /\ wrote = [req[r].wrote EXCEPT ![i] = p]
    OBVIOUS
  <2>5. wrote \in [Iccids -> Providers \cup {None}] /\ rows \in Seq(RowIn) /\ row \in RowIn
    BY <2>1, <2>2, <2>3, <2>4 DEF RowIn
  <2>6. [req[r] EXCEPT !.rows = rows, !.fired = row, !.wrote = wrote] \in Local
    BY <1>1, <2>5 DEF Local
  <2>7. Goes(r, [req[r] EXCEPT !.rows = rows, !.fired = row, !.wrote = wrote])
    BY <1>4, <2>1, <2>4 DEF Upsert
  <2> QED
    BY <2>6, <2>7, GoesIsTyped
<1>5. CASE Commit(r)
  <2>1. PICK none, free : none = Fresh.wrote /\ free = Fresh.touched
    OBVIOUS
  <2>2. PICK l : l = Committed(req[r])
    OBVIOUS
  <2>3. l \in Local
    <3>1. CASE req[r].ask.op \in Reads
      <4>1. l = [req[r] EXCEPT !.pc = "reread"]
        BY <2>2, <3>1 DEF Committed, Reads
      <4> QED
        BY <1>1, <4>1 DEF Local, Pcs
    <3>2. CASE req[r].ask.op = "search"
      <4>1. l = Settled(req[r], Head(req[r].todo), "listed", None)
        BY <2>2, <3>2 DEF Committed, Reads
      <4>2. req[r].todo # <<>>
        BY <1>1, <1>5, <3>2 DEF Fine, Accounted, Resolvers, Commit, At
      <4> QED
        BY <1>1, <4>1, <4>2, SettledIsLocal DEF Verdicts
    <3>3. CASE req[r].ask.op \notin Reads /\ req[r].ask.op # "search"
      BY <2>2, <3>3, FreshIsLocal DEF Committed
    <3> QED
      BY <3>1, <3>2, <3>3
  <2>4. none \in [Iccids -> Providers \cup {None}] /\ free \in [Prefixes -> Providers \cup {None}]
    BY <2>1, FreshIsLocal DEF Local
  <2>5. [l EXCEPT !.wrote = none, !.touched = free] \in Local
    BY <2>3, <2>4 DEF Local
  <2>6. Goes(r, [l EXCEPT !.wrote = none, !.touched = free])
    BY <1>5, <2>1, <2>2 DEF Commit
  <2> QED
    BY <2>5, <2>6, GoesIsTyped
<1>6. CASE Fails(r)
  BY <1>2, <1>6 DEF Fails
<1>7. CASE Trigger(r)
  <2>1. PICK f : f = PrefixOf[req[r].fired.iccid]
    OBVIOUS
  <2>2. PICK p : p = req[r].fired.provider
    OBVIOUS
  <2>3. PICK touched : touched = IF f = None \/ req[r].touched[f] # None THEN req[r].touched
                                 ELSE [req[r].touched EXCEPT ![f] = p]
    OBVIOUS
  <2>4. req[r].fired \in RowIn /\ req[r].touched \in [Prefixes -> Providers \cup {None}]
    BY <1>1, <1>7 DEF Trigger, Local
  <2>5. f \in Prefixes \cup {None} /\ p \in Providers
    BY <2>1, <2>2, <2>4, ReadsAssumption DEF RowIn
  <2>6. touched \in [Prefixes -> Providers \cup {None}]
    BY <2>3, <2>4, <2>5
  <2>7. [req[r] EXCEPT !.fired = None, !.touched = touched] \in Local
    BY <1>1, <2>6 DEF Local
  <2>8. Goes(r, [req[r] EXCEPT !.fired = None, !.touched = touched])
    BY <1>7, <2>1, <2>2, <2>3 DEF Trigger
  <2> QED
    BY <2>7, <2>8, GoesIsTyped
<1> QED
  BY <1>3, <1>4, <1>5, <1>6, <1>7 DEF Write

LEMMA FetchIsTyped ==
  ASSUME IInv, TypeOK, NEW r \in Req, Fetch(r)
  PROVE  req' \in [Req -> Local]
<1>1. req[r] \in Local
  BY HandIsTyped
<1>2. PICK via : via = Fresh.via
  OBVIOUS
<1>3. via \in [Iccids -> Providers \cup {None}]
  BY <1>2 DEF Fresh
<1>4. CASE Setup(r)
  <2>1. PICK failing \in SUBSET Providers :
          Goes(r, [req[r] EXCEPT !.pc = "fetch",
                     !.bad = failing \cap {req[r].via[x] : x \in Iccids}])
    BY <1>4 DEF Setup
  <2>2. PICK bad : bad = failing \cap {req[r].via[x] : x \in Iccids}
    OBVIOUS
  <2>3. [req[r] EXCEPT !.pc = "fetch", !.bad = bad] \in Local
    BY <1>1, <2>2 DEF Local, Pcs
  <2> QED
    BY <2>1, <2>2, <2>3, GoesIsTyped
<1>5. CASE Reply(r)
  <2>1. [req[r] EXCEPT !.pc = "done", !.bad = {}, !.via = via] \in Local
    BY <1>1, <1>3 DEF Local, Pcs
  <2> QED
    BY <1>2, <1>5, <2>1, GoesIsTyped DEF Reply
<1>6. ASSUME NEW x \in Iccids, Start(r, x) \/ End(r, x)
      PROVE  req' \in [Req -> Local]
  <2>1. PICK v \in Verdicts : Goes(r, [req[r] EXCEPT !.verdict[x] = v])
    BY <1>6, OutcomesAreAnswers DEF Start, End, Verdicts, Answers
  <2>2. PICK verdict : verdict = [req[r].verdict EXCEPT ![x] = v]
    OBVIOUS
  <2>3. verdict \in [Iccids -> Verdicts]
    BY <1>1, <2>2 DEF Local
  <2>4. [req[r] EXCEPT !.verdict = verdict] \in Local
    BY <1>1, <2>3 DEF Local
  <2> QED
    BY <2>1, <2>2, <2>4, GoesIsTyped
<1> QED
  BY <1>4, <1>5, <1>6 DEF Fetch

LEMMA StatsIsTyped ==
  ASSUME IInv, TypeOK, NEW r \in Req, Stats(r)
  PROVE  req' \in [Req -> Local]
<1> DEFINE l == req[r]
<1>1. l \in Local
  BY HandIsTyped
<1>2. PICK s : s = Head(l.left)
  OBVIOUS
<1>3. l.left # <<>> => /\ s \in Sources
                       /\ l.found \cup {s} \in SUBSET Sources /\ l.told \cup {s} \in SUBSET Sources
  <2>1. l.left \in Seq(Sources) /\ l.found \in SUBSET Sources /\ l.told \in SUBSET Sources
    BY <1>1 DEF Local
  <2> QED
    BY <1>2, <2>1, ElementsTail
<1>4. PICK found, told, page, left :
        /\ found = l.found \cup {s} /\ told = l.told \cup {s} /\ page = l.page + 1
        /\ left = Tail(l.left)
  OBVIOUS
<1>5. PICK n : n = NextAccount(l)
  OBVIOUS
<1>6. ASSUME l.left # <<>>
      PROVE  /\ [n EXCEPT !.told = @ \cup {s}] \in Local
             /\ [n EXCEPT !.found = @ \cup {s}] \in Local
             /\ [l EXCEPT !.page = @ + 1] \in Local
  <2>1. left \in Seq(Sources) /\ page \in Nat
    <3>1. l.left \in Seq(Sources) /\ l.page \in Nat
      BY <1>1 DEF Local
    <3> QED
      BY <1>4, <1>6, <3>1, ElementsTail
  <2>2. n = [l EXCEPT !.left = left, !.page = 0]
    BY <1>4, <1>5 DEF NextAccount
  <2>3. n \in Local /\ n.told = l.told /\ n.found = l.found
    BY <1>1, <2>1, <2>2 DEF Local
  <2>4. [n EXCEPT !.told = told] \in Local /\ [n EXCEPT !.found = found] \in Local
    BY <1>3, <1>4, <1>6, <2>3 DEF Local
  <2>5. [l EXCEPT !.page = page] \in Local
    BY <1>1, <2>1 DEF Local
  <2> QED
    BY <1>4, <2>3, <2>4, <2>5
<1>7. CASE StatsFails(r)
  <2>1. l.left # <<>> /\ Goes(r, [n EXCEPT !.told = @ \cup {s}])
    BY <1>2, <1>5, <1>7 DEF StatsFails
  <2> QED
    BY <1>6, <2>1, GoesIsTyped
<1>8. CASE StatsPageOf(r)
  <2>1. /\ l.left # <<>>
        /\ \/ Goes(r, [n EXCEPT !.told = @ \cup {s}])
           \/ Goes(r, [n EXCEPT !.found = @ \cup {s}])
           \/ Goes(r, [l EXCEPT !.page = @ + 1])
    BY <1>2, <1>5, <1>8 DEF StatsPageOf, CutOff
  <2> QED
    BY <1>6, <2>1, GoesIsTyped
<1>9. CASE StatsReply(r)
  <2>1. PICK via : via = Fresh.via
    OBVIOUS
  <2>2. via \in [Iccids -> Providers \cup {None}]
    BY <2>1 DEF Fresh
  <2>3. [l EXCEPT !.pc = "done", !.bad = {}, !.via = via] \in Local
    BY <1>1, <2>2 DEF Local, Pcs
  <2> QED
    BY <1>9, <2>1, <2>3, GoesIsTyped DEF StatsReply
<1> QED
  BY <1>7, <1>8, <1>9 DEF Stats

\* What is committed was upserted for a provider, in the name of a company.
LEMMA RoutingIsTyped ==
  ASSUME IInv, TypeOK, NEW r \in Req, Commit(r)
  PROVE  routing' \in [Iccids -> Row] /\ prefix' \in [Prefixes -> Providers \cup {None}]
<1>1. /\ req[r].wrote \in [Iccids -> Providers \cup {None}] /\ Company(r) \in Companies
      /\ routing \in [Iccids -> Row]
  BY HandIsTyped DEF Local, Commit, At, TypeOK
<1>2. \A p \in Providers : Account(Company(r), p) \in Row
  BY <1>1 DEF Account, Row
<1>3. routing' = [x \in Iccids |-> IF req[r].wrote[x] = None THEN routing[x]
                                   ELSE Account(Company(r), req[r].wrote[x])]
  BY DEF Commit
<1>4. prefix' \in [Prefixes -> Providers \cup {None}]
  <2>1. /\ req[r].touched \in [Prefixes -> Providers \cup {None}]
        /\ prefix \in [Prefixes -> Providers \cup {None}]
    BY HandIsTyped DEF Local, TypeOK
  <2>2. prefix' = [f \in Prefixes |-> IF prefix[f] = None THEN req[r].touched[f] ELSE prefix[f]]
    BY DEF Commit
  <2> QED
    BY <2>1, <2>2
<1> QED
  BY <1>1, <1>2, <1>3, <1>4

LEMMA TypeKeeps == IInv /\ TypeOK /\ CacheInv /\ [Next]_vars => TypeOK'
<1> SUFFICES ASSUME IInv, TypeOK, CacheInv, [Next]_vars PROVE TypeOK'
  OBVIOUS
<1>1. cache' \in Seq(Entry) /\ known' \in [Req -> SUBSET Iccids]
  BY CacheKeeps, NextKeeps DEF CacheInv, IInv
<1>2. healthy' \in BOOLEAN
  <2>1. ASSUME NEW r \in Req, Step(r) \/ Write(r) \/ \E a \in Asks[r] : Begin(r, a)
        PROVE  UNCHANGED healthy
    BY <2>1 DEF Step, Resolve, Lookup, ByPrefix, CachedMiss, FanOut, Gathered, Reread,
       ListProvider, Commit, Fails, Fetch, Setup, Start, End, Reply, Stats, StatsFails,
       StatsPageOf, StatsReply, Write, Upsert, Trigger, Begin, Shared
  <2>2. Tick \/ Restart \/ UNCHANGED vars => UNCHANGED healthy
    BY DEF Tick, Restart, vars
  <2>3. Recover => healthy' = TRUE
    BY DEF Recover
  <2> QED
    BY <2>1, <2>2, <2>3 DEF Next, TypeOK
<1>3. req' \in [Req -> Local]
  <2>1. ASSUME NEW r \in Req, Step(r) \/ Write(r) \/ \E a \in Asks[r] : Begin(r, a)
        PROVE  req' \in [Req -> Local]
    BY <2>1, ResolveIsTyped, WritesAreTyped, FetchIsTyped, StatsIsTyped, BeginIsTyped DEF Step
  <2>2. CASE Restart
    BY <2>2, FreshIsLocal DEF Restart
  <2>3. CASE Tick \/ Recover \/ UNCHANGED vars
    BY <2>3 DEF Tick, Recover, vars, TypeOK
  <2> QED
    BY <2>1, <2>2, <2>3 DEF Next
<1>4. routing' \in [Iccids -> Row] /\ prefix' \in [Prefixes -> Providers \cup {None}]
  <2>1. ASSUME NEW r \in Req, Commit(r)
        PROVE  routing' \in [Iccids -> Row] /\ prefix' \in [Prefixes -> Providers \cup {None}]
    BY <2>1, RoutingIsTyped
  <2>2. UNCHANGED <<routing, prefix>>
          => routing' \in [Iccids -> Row] /\ prefix' \in [Prefixes -> Providers \cup {None}]
    BY DEF TypeOK
  <2>3. ASSUME NEW r \in Req,
               \/ Resolve(r) \/ ListProvider(r) \/ Fails(r) \/ Fetch(r) \/ Stats(r) \/ Write(r)
               \/ \E a \in Asks[r] : Begin(r, a)
        PROVE  UNCHANGED <<routing, prefix>>
    BY <2>3 DEF Resolve, Lookup, ByPrefix, CachedMiss, FanOut, Gathered, Reread, ListProvider,
       Fails, Fetch, Setup, Start, End, Reply, Stats, StatsFails, StatsPageOf, StatsReply,
       Write, Upsert, Trigger, Begin, Shared
  <2>4. Tick \/ Recover \/ Restart \/ UNCHANGED vars => UNCHANGED <<routing, prefix>>
    BY DEF Tick, Recover, Restart, vars
  <2> QED
    BY <2>1, <2>2, <2>3, <2>4 DEF Next, Step
<1> QED
  BY <1>1, <1>2, <1>3, <1>4 DEF TypeOK
-----------------------------------------------------------------------------
(* The theorems. *)

\* Requests keep account of every SIM they were asked for, of every account they
\* leave out, and rely on nothing that another company took from them, whatever
\* is routed, committed or cached between two of their awaits.
THEOREM Invariance == Spec => []IInv
  BY InitHolds, NextKeeps, PTL DEF Spec

\* Every variable keeps its type: what a request carries, the cache and the routes
\* it commits.
THEOREM TypeCorrect == Spec => []TypeOK
<1>1. Init => TypeOK /\ CacheInv
  <2>1. <<>> \in Seq(Entry) /\ Len(<<>>) = 0 /\ MaxEntries \in Nat \ {0}
    BY ReadsAssumption
  <2>2. Init => CacheInv
    BY <2>1 DEF Init, CacheInv, CacheBounded
  <2>3. Init => req \in [Req -> Local] /\ known \in [Req -> SUBSET Iccids]
    BY FreshIsLocal DEF Init
  <2>4. Init => routing \in [Iccids -> Row] /\ healthy \in BOOLEAN
    <3>1. NoRow \in Row
      BY DEF NoRow, Row
    <3> QED
      BY <3>1 DEF Init
  <2>5. Init => TypeOK
    BY <2>2, <2>3, <2>4, ReadsAssumption DEF Init, CacheInv, TypeOK
  <2> QED
    BY <2>2, <2>5
<1> QED
  BY <1>1, InitHolds, NextKeeps, CacheKeeps, TypeKeeps, PTL DEF Spec

\* The negative cache never holds more than _NEGATIVE_CACHE_MAX_ENTRIES,
\* whichever requests miss, forget and record between two of their awaits: what
\* is recorded in a full cache takes the place of an entry that goes.
THEOREM CacheStaysBounded == Spec => []CacheBounded
<1>1. Init => CacheInv
  BY ReadsAssumption DEF Init, CacheInv, CacheBounded
<1>2. CacheInv => CacheBounded
  BY DEF CacheInv
<1> QED
  BY <1>1, <1>2, InitHolds, NextKeeps, CacheKeeps, PTL DEF Spec

\* A SIM that is routed to the company while a request is under way is never
\* unresolved, whatever the negative cache remembers of it.
THEOREM RoutedAreFound == Spec => []RoutedIsFound
<1>1. IInv => RoutedIsFound
  BY DEF IInv, Relied, Unmissed, RoutedIsFound
<1> QED
  BY <1>1, Invariance, PTL

\* Every ICCID of a batch comes back with an answer, as unresolved or as
\* filtered out: none is lost on the way from the route to the reply.
THEOREM BatchesAccounted == Spec => []BatchAccounted
<1>1. IInv => BatchAccounted
  <2> SUFFICES ASSUME IInv, NEW r \in Req, Answered(r, "batch"),
                      NEW x \in Elements(req[r].ask.iccids)
               PROVE  req[r].verdict[x] \in Answers \cup {"unresolved", "filtered"}
    BY DEF BatchAccounted
  <2>1. /\ Typed(req[r]) /\ Accounted(req[r]) /\ req[r].pc = "done" /\ req[r].ask.op = "batch"
    BY DEF IInv, Fine, Answered, At, Op
  <2>2. x \in Iccids
    BY <2>1 DEF Typed, AskType, Elements
  <2>3. req[r].verdict[x] \in Verdicts
    BY <2>1, <2>2 DEF Typed
  <2>4. req[r].verdict[x] \notin {"none", "resolved", "running", "listed"}
    BY <2>1, <2>2, NoElements DEF Accounted, Resolvers, Reads
  <2> QED
    BY <2>3, <2>4 DEF Verdicts
<1> QED
  BY <1>1, Invariance, PTL

\* A search and a statistic are complete, or name the account they leave out.
THEOREM WholeOrToldAlways == Spec => []WholeOrTold
<1>1. IInv => WholeOrTold
  <2> SUFFICES ASSUME IInv, NEW r \in Req
               PROVE  /\ Answered(r, "search") =>
                           \A x \in With(req[r], "listed") : \A p \in Providers :
                             x \in Holds[req[r].ask.company][p] =>
                               Account(req[r].ask.company, p) \in req[r].found \cup req[r].told
                      /\ Answered(r, "stats") =>
                           Elements(req[r].ask.accounts) \subseteq req[r].found \cup req[r].told
    BY DEF WholeOrTold
  <2>1. Searched(req[r]) /\ Counted(req[r])
    BY DEF IInv, Fine
  <2>2. ASSUME Answered(r, "search")
        PROVE  \A x \in With(req[r], "listed") : Covered(req[r], x)
    BY <2>1, <2>2 DEF Searched, Answered, At, Op
  <2>3. ASSUME Answered(r, "stats")
        PROVE  Elements(req[r].ask.accounts) \subseteq req[r].found \cup req[r].told
    BY <2>1, <2>3, NoElements DEF Counted, Answered, At, Op
  <2> QED
    BY <2>2, <2>3 DEF Covered
<1> QED
  BY <1>1, Invariance, PTL
====
