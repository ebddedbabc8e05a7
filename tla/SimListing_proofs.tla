-------------------------- MODULE SimListing_proofs --------------------------
(***************************************************************************)
(* Proofs about SimListing, for any sources, limits and page caps.         *)
(***************************************************************************)
EXTENDS SimListing, Integers, FiniteSetTheorems, WellFoundedInduction, TLAPS

-----------------------------------------------------------------------------
(* Arithmetic of shares. *)

LEMMA DivMod ==
  ASSUME NEW a \in Nat, NEW n \in Nat, n > 0
  PROVE  /\ a \div n \in Nat
         /\ a % n \in Nat
         /\ a % n < n
         /\ a = n * (a \div n) + (a % n)
<1>1. a \div n \in Nat OBVIOUS
<1>2. a % n \in Nat OBVIOUS
<1>3. a % n < n OBVIOUS
<1>4. a = n * (a \div n) + (a % n) OBVIOUS
<1> QED BY <1>1, <1>2, <1>3, <1>4

LEMMA Multiples ==
  ASSUME NEW a \in Nat, NEW b \in Nat, NEW c \in Nat, b <= c
  PROVE  a * b <= a * c /\ b * a <= c * a /\ a * b \in Nat /\ a * c \in Nat
OBVIOUS

\* A larger total among fewer gives no smaller quotient, and of the same
\* quotient no smaller remainder.
LEMMA QuotientGrows ==
  ASSUME NEW a \in Nat, NEW b \in Nat, NEW n \in Nat, NEW m \in Nat,
         NEW p \in Nat, NEW q \in Nat, NEW r \in Nat, NEW t \in Nat,
         a <= b, m <= n, m > 0,
         a = n * q + r, b = m * p + t, r < n, t < m
  PROVE  q <= p /\ (q = p => r <= t)
<1>1. m * q <= n * q /\ m * q \in Nat /\ n * q \in Nat BY Multiples
<1>2. ASSUME p < q PROVE FALSE
  <2>1. p + 1 <= q BY <1>2
  <2>2. m * (p + 1) <= m * q BY <2>1, Multiples
  <2>3. m * (p + 1) = m * p + m OBVIOUS
  <2>4. m * p \in Nat OBVIOUS
  <2> QED BY <1>1, <2>2, <2>3, <2>4
<1>3. q <= p BY <1>2
<1>4. ASSUME q = p PROVE r <= t
  <2>1. m * p = m * q BY <1>4
  <2> QED BY <1>1, <2>1
<1> QED BY <1>3, <1>4

LEMMA ShareType ==
  ASSUME NEW total \in Nat, NEW n \in Nat, n > 0, NEW index \in Nat
  PROVE  Share(total, n, index) \in Nat
BY DivMod DEF Share

\* Fewer sources to share a larger limit, and an earlier place among them.
LEMMA ShareGrows ==
  ASSUME NEW a \in Nat, NEW b \in Nat, NEW n \in Nat, NEW m \in Nat,
         NEW i \in Nat, NEW j \in Nat,
         a <= b, m <= n, m > 0, j <= i
  PROVE  Share(a, n, i) <= Share(b, m, j)
<1>1. /\ a \div n \in Nat /\ a % n \in Nat /\ a % n < n
      /\ a = n * (a \div n) + (a % n)
  BY DivMod
<1>2. /\ b \div m \in Nat /\ b % m \in Nat /\ b % m < m
      /\ b = m * (b \div m) + (b % m)
  BY DivMod
<1>3. a \div n <= b \div m /\ (a \div n = b \div m => a % n <= b % m)
  BY <1>1, <1>2, QuotientGrows
<1> HIDE <1>1, <1>2
<1>4. a \div n \in Nat /\ a % n \in Nat /\ b \div m \in Nat /\ b % m \in Nat
  BY <1>1, <1>2
<1> QED BY <1>3, <1>4 DEF Share

LEMMA SharePositive ==
  ASSUME NEW total \in Nat, NEW n \in Nat, n > 0, NEW index \in Nat, n <= total
  PROVE  Share(total, n, index) > 0
<1>1. /\ total \div n \in Nat /\ total % n \in Nat /\ total % n < n
      /\ total = n * (total \div n) + (total % n)
  BY DivMod
<1>2. ASSUME total \div n = 0 PROVE FALSE
  <2>1. n * (total \div n) = 0 BY <1>2
  <2> QED BY <1>1, <2>1
<1> QED BY <1>1, <1>2 DEF Share

-----------------------------------------------------------------------------
(* Counting sources. *)

LEMMA Counted ==
  ASSUME NEW T, IsFiniteSet(T), NEW S \in SUBSET T
  PROVE  /\ IsFiniteSet(S)
         /\ Cardinality(S) \in Nat
         /\ Cardinality(T) \in Nat
         /\ Cardinality(S) <= Cardinality(T)
BY FS_Subset, FS_CardinalityType

LEMMA CountedMember ==
  ASSUME NEW T, IsFiniteSet(T), NEW x \in T
  PROVE  Cardinality(T) > 0
BY FS_EmptySet, FS_CardinalityType

LEMMA ProviderFinite == IsFiniteSet(Provider)
<1>1. IsFiniteSet({"kite"}) BY FS_Singleton
<1>2. IsFiniteSet({"kite"} \cup {"tele2"}) BY <1>1, FS_AddElement
<1>3. IsFiniteSet(({"kite"} \cup {"tele2"}) \cup {"moabits"}) BY <1>2, FS_AddElement
<1>4. Provider = ({"kite"} \cup {"tele2"}) \cup {"moabits"} BY DEF Provider
<1> QED BY <1>3, <1>4

LEMMA PositionGrows ==
  ASSUME NEW T, IsFiniteSet(T), NEW S \in SUBSET T, NEW s
  PROVE  /\ Position(s, S) \in Nat
         /\ Position(s, T) \in Nat
         /\ Position(s, S) <= Position(s, T)
<1> DEFINE before(R) == {t \in R : Order[t] < Order[s]}
<1>1. IsFiniteSet(before(T)) BY Counted
<1>2. before(S) \in SUBSET before(T) OBVIOUS
<1>3. /\ Cardinality(before(S)) \in Nat
      /\ Cardinality(before(T)) \in Nat
      /\ Cardinality(before(S)) <= Cardinality(before(T))
  BY <1>1, <1>2, Counted
<1> QED BY <1>3 DEF Position

-----------------------------------------------------------------------------
(* The page size as a function of the endpoint e, the limit l, the sources L, *)
(* those the cursor names, A, and those that are called, C.                   *)

Mine(A, s) == {t \in A : t.provider = s.provider}
Earlier(A, s) == {t.provider : t \in {t \in A \ Mine(A, s) : Order[t] < Order[s]}}
Selected(L) == {t.provider : t \in L}

LimitOf(e, l, L, A, C, s) ==
  IF e = "search"
  THEN Share(Share(l, Cardinality(Selected(L)), Cardinality(Earlier(A, s))),
             Cardinality(Mine(A, s)), Position(s, Mine(A, s)))
  ELSE Share(l, Cardinality(C), Position(s, C))

Clamp(n, cap) == IF n = 0 THEN 1 ELSE IF n > cap THEN cap ELSE n

SizeOf(e, l, L, A, C, s) == Clamp(LimitOf(e, l, L, A, C, s), PageCap[s.provider])

LEMMA CallLimitIs ==
  ASSUME NEW s, NEW C
  PROVE  CallLimit(s, C) = LimitOf(endpoint, limit, Listed, Asked, C, s)
BY DEF CallLimit, LimitOf, SearchLimit, Mine, Earlier, Selected

LEMMA PageSizeIs ==
  ASSUME NEW s, NEW C
  PROVE  PageSize(s, C) = SizeOf(endpoint, limit, Listed, Asked, C, s)
BY CallLimitIs DEF PageSize, SizeOf, Clamp

\* The page of a source if everything the cursor names is called.
AskedSize(s) == PageSize(s, Asked)

LEMMA AskedSizeIs ==
  ASSUME NEW s
  PROVE  AskedSize(s) = SizeOf(endpoint, limit, Listed, Asked, Asked, s)
BY PageSizeIs DEF AskedSize

LEMMA NextAskedSizeIs ==
  ASSUME NEW s
  PROVE  AskedSize(s)' = SizeOf(endpoint', limit', Listed', Asked', Asked', s)
BY DEF AskedSize, PageSize, SizeOf, Clamp, CallLimit, LimitOf, SearchLimit, Mine,
       Earlier, Selected

\* Limits are numbers, and do not shrink as sources leave the walk.
LEMMA LimitGrows ==
  ASSUME NEW e, NEW l \in Nat,
         NEW L \in SUBSET Source, IsFiniteSet(L),
         NEW A \in SUBSET L, NEW C \in SUBSET A,
         NEW B \in SUBSET A, NEW D \in SUBSET C, D \subseteq B,
         NEW s \in D
  PROVE  /\ LimitOf(e, l, L, A, C, s) \in Nat
         /\ LimitOf(e, l, L, B, D, s) \in Nat
         /\ LimitOf(e, l, L, A, C, s) <= LimitOf(e, l, L, B, D, s)
<1>1. IsFiniteSet(A) /\ IsFiniteSet(B) /\ IsFiniteSet(C) /\ IsFiniteSet(D)
  BY Counted
<1>2. ASSUME e # "search"
      PROVE  /\ Share(l, Cardinality(C), Position(s, C)) \in Nat
             /\ Share(l, Cardinality(D), Position(s, D)) \in Nat
             /\ Share(l, Cardinality(C), Position(s, C))
                  <= Share(l, Cardinality(D), Position(s, D))
  <2>1. /\ Cardinality(C) \in Nat /\ Cardinality(D) \in Nat
        /\ Cardinality(D) <= Cardinality(C)
        /\ Cardinality(C) > 0 /\ Cardinality(D) > 0
    BY <1>1, Counted, CountedMember
  <2>2. /\ Position(s, C) \in Nat /\ Position(s, D) \in Nat
        /\ Position(s, D) <= Position(s, C)
    BY <1>1, PositionGrows
  <2>3. l <= l OBVIOUS
  <2> QED BY <2>1, <2>2, <2>3, ShareType, ShareGrows
<1>3. ASSUME e = "search"
      PROVE  LET a == Share(l, Cardinality(Selected(L)), Cardinality(Earlier(A, s)))
                 b == Share(l, Cardinality(Selected(L)), Cardinality(Earlier(B, s)))
                 i == Share(a, Cardinality(Mine(A, s)), Position(s, Mine(A, s)))
                 j == Share(b, Cardinality(Mine(B, s)), Position(s, Mine(B, s)))
             IN  i \in Nat /\ j \in Nat /\ i <= j
  <2>1. /\ Selected(L) \in SUBSET Provider
        /\ Earlier(A, s) \in SUBSET Provider
        /\ Earlier(B, s) \in SUBSET Earlier(A, s)
    BY DEF Selected, Earlier, Mine, Source
  <2>2. s.provider \in Selected(L) BY DEF Selected
  <2>3. /\ Cardinality(Selected(L)) \in Nat
        /\ Cardinality(Selected(L)) > 0
    BY <2>1, <2>2, ProviderFinite, Counted, CountedMember
  <2>4. /\ Cardinality(Earlier(A, s)) \in Nat
        /\ Cardinality(Earlier(B, s)) \in Nat
        /\ Cardinality(Earlier(B, s)) <= Cardinality(Earlier(A, s))
    BY <2>1, ProviderFinite, Counted
  <2> DEFINE a == Share(l, Cardinality(Selected(L)), Cardinality(Earlier(A, s)))
             b == Share(l, Cardinality(Selected(L)), Cardinality(Earlier(B, s)))
  <2>5. a \in Nat /\ b \in Nat /\ a <= b
    <3>1. l <= l /\ Cardinality(Selected(L)) <= Cardinality(Selected(L)) BY <2>3
    <3> QED BY <2>3, <2>4, <3>1, ShareType, ShareGrows
  <2>6. /\ Mine(B, s) \in SUBSET Mine(A, s)
        /\ s \in Mine(B, s) /\ s \in Mine(A, s)
        /\ IsFiniteSet(Mine(A, s)) /\ IsFiniteSet(Mine(B, s))
    BY <1>1, Counted DEF Mine
  <2>7. /\ Cardinality(Mine(A, s)) \in Nat /\ Cardinality(Mine(B, s)) \in Nat
        /\ Cardinality(Mine(B, s)) <= Cardinality(Mine(A, s))
        /\ Cardinality(Mine(A, s)) > 0 /\ Cardinality(Mine(B, s)) > 0
    BY <2>6, Counted, CountedMember
  <2>8. /\ Position(s, Mine(A, s)) \in Nat /\ Position(s, Mine(B, s)) \in Nat
        /\ Position(s, Mine(B, s)) <= Position(s, Mine(A, s))
    BY <2>6, PositionGrows
  <2> HIDE DEF a, b
  <2>9. /\ Share(a, Cardinality(Mine(A, s)), Position(s, Mine(A, s))) \in Nat
        /\ Share(b, Cardinality(Mine(B, s)), Position(s, Mine(B, s))) \in Nat
        /\ Share(a, Cardinality(Mine(A, s)), Position(s, Mine(A, s)))
             <= Share(b, Cardinality(Mine(B, s)), Position(s, Mine(B, s)))
    BY <2>5, <2>7, <2>8, ShareType, ShareGrows
  <2> QED BY <2>9 DEF a, b
<1> QED BY <1>2, <1>3 DEF LimitOf

LEMMA SizeGrows ==
  ASSUME NEW e, NEW l \in Nat,
         NEW L \in SUBSET Source, IsFiniteSet(L),
         NEW A \in SUBSET L, NEW C \in SUBSET A,
         NEW B \in SUBSET A, NEW D \in SUBSET C, D \subseteq B,
         NEW s \in D
  PROVE  /\ SizeOf(e, l, L, A, C, s) \in Nat \ {0}
         /\ SizeOf(e, l, L, B, D, s) \in Nat \ {0}
         /\ SizeOf(e, l, L, A, C, s) <= SizeOf(e, l, L, B, D, s)
<1>1. PageCap[s.provider] \in Nat \ {0} BY ListingAssumption DEF Source
<1>2. /\ LimitOf(e, l, L, A, C, s) \in Nat
      /\ LimitOf(e, l, L, B, D, s) \in Nat
      /\ LimitOf(e, l, L, A, C, s) <= LimitOf(e, l, L, B, D, s)
  BY LimitGrows
<1> QED BY <1>1, <1>2 DEF SizeOf, Clamp

-----------------------------------------------------------------------------
(* The inductive invariant: what the client got of a source lies before the   *)
(* position at which it will be asked again, whatever size its page then has. *)

Reached(s) == IF s.provider = "tele2" THEN cursor[s] * AskedSize(s) ELSE cursor[s]

Behind == \A s \in Asked : \A i \in got[s] : i <= Reached(s)

Existing == \A s \in Listed : got[s] \subseteq 1..sims[s]

IInv == TypeOK /\ Existing /\ Behind /\ CoveredOrTold /\ ShownIsRouted

LEMMA ListedFinite ==
  ASSUME TypeOK
  PROVE  Listed \in SUBSET Source /\ IsFiniteSet(Listed)
BY ListingAssumption DEF TypeOK, Listed

LEMMA Initial == Init => IInv
<1> SUFFICES ASSUME Init PROVE IInv OBVIOUS
<1>1. Asked = Listed BY DEF Init, Asked
<1>2. TypeOK BY <1>1 DEF Init, TypeOK, Nothing, Asked
<1>3. \A s \in Listed : got[s] = {} /\ cursor[s] = 0 BY DEF Init, Nothing
<1>4. Existing /\ Behind /\ ShownIsRouted
  BY <1>1, <1>3 DEF Existing, Behind, ShownIsRouted
<1>5. 1..0 = {} OBVIOUS
<1>6. CoveredOrTold BY <1>1, <1>3, <1>5 DEF CoveredOrTold
<1> QED BY <1>2, <1>4, <1>6 DEF IInv

\* The pages of a request are no smaller than if everybody had been called, and
\* no larger than those of the next request.
LEMMA CalledSizes ==
  ASSUME TypeOK, NEW C \in SUBSET Asked, NEW s \in C
  PROVE  /\ PageSize(s, C) \in Nat \ {0}
         /\ AskedSize(s) \in Nat \ {0}
         /\ AskedSize(s) <= PageSize(s, C)
<1>1. /\ Listed \in SUBSET Source /\ IsFiniteSet(Listed)
      /\ Asked \in SUBSET Listed /\ limit \in Nat
  BY ListedFinite, ListingAssumption DEF TypeOK
<1> DEFINE e == endpoint
           l == limit
           L == Listed
           A == Asked
<1>2. /\ SizeOf(e, l, L, A, A, s) \in Nat \ {0}
      /\ SizeOf(e, l, L, A, C, s) \in Nat \ {0}
      /\ SizeOf(e, l, L, A, A, s) <= SizeOf(e, l, L, A, C, s)
  <2>1. /\ l \in Nat /\ L \in SUBSET Source /\ IsFiniteSet(L)
        /\ A \in SUBSET L /\ A \in SUBSET A /\ C \in SUBSET A /\ C \subseteq A
    BY <1>1
  <2> HIDE DEF e, l, L, A
  <2> QED BY <2>1, SizeGrows
<1> QED BY <1>2, PageSizeIs, AskedSizeIs

LEMMA NextSizes ==
  ASSUME TypeOK, NEW C \in SUBSET Asked, UNCHANGED <<endpoint, limit>>,
         Asked' \subseteq C, NEW s \in Asked'
  PROVE  /\ AskedSize(s)' \in Nat \ {0}
         /\ PageSize(s, C) <= AskedSize(s)'
<1>1. /\ Listed \in SUBSET Source /\ IsFiniteSet(Listed)
      /\ Asked \in SUBSET Listed /\ limit \in Nat
  BY ListedFinite, ListingAssumption DEF TypeOK
<1>2. Listed' = Listed BY DEF Listed
<1> DEFINE e == endpoint
           l == limit
           L == Listed
           A == Asked
           B == Asked'
<1>3. /\ SizeOf(e, l, L, A, C, s) \in Nat \ {0}
      /\ SizeOf(e, l, L, B, B, s) \in Nat \ {0}
      /\ SizeOf(e, l, L, A, C, s) <= SizeOf(e, l, L, B, B, s)
  <2>1. /\ l \in Nat /\ L \in SUBSET Source /\ IsFiniteSet(L)
        /\ A \in SUBSET L /\ C \in SUBSET A /\ B \in SUBSET C /\ B \in SUBSET A
        /\ B \subseteq B /\ s \in B
    BY <1>1
  <2> HIDE DEF e, l, L, A, B
  <2> QED BY <2>1, SizeGrows
<1>4. PageSize(s, C) = SizeOf(e, l, L, A, C, s) BY PageSizeIs
<1>5. AskedSize(s)' = SizeOf(e, l, L, B, B, s)
  BY <1>2, NextAskedSizeIs
<1> QED BY <1>3, <1>4, <1>5

-----------------------------------------------------------------------------
(* What one delivered answer does, source by source. *)

LEMMA DeliveredStep ==
  ASSUME IInv,
         NEW unloaded \in SUBSET Accounts,
         NEW failed \in SUBSET Active(Calls(unloaded)),
         NEW aborted \in SUBSET (Active(Calls(unloaded)) \ failed),
         Aborts(aborted, Active(Calls(unloaded)) \ failed, Calls(unloaded)),
         Delivered(Calls(unloaded), (Active(Calls(unloaded)) \ failed) \ aborted,
                   unloaded, failed \cup aborted, aborted)
  PROVE  IInv' /\ \A s \in Listed : page'[s] \cap got[s] = {}
<1> DEFINE C == Calls(unloaded)
           W == (Active(C) \ failed) \ aborted
           z(s) == PageSize(s, C)
<1>1. /\ C \subseteq Asked /\ Active(C) \subseteq C /\ W \subseteq Active(C)
      /\ Asked \subseteq Listed /\ Listed \subseteq Source
  BY ListedFinite DEF IInv, TypeOK, Calls, Active
<1>2. /\ UNCHANGED <<endpoint, limit, sims>>
      /\ Listed' = Listed
  BY DEF Delivered, Listed
<1>3. \A s \in C : /\ z(s) \in Nat \ {0}
                   /\ AskedSize(s) \in Nat \ {0}
                   /\ AskedSize(s) <= z(s)
  BY <1>1, CalledSizes DEF IInv
<1>4. \A s \in Listed : /\ page'[s] = IF s \in W THEN Listing(s, z(s)) ELSE {}
                        /\ got'[s] = got[s] \cup page'[s]
  BY DEF Delivered, Merged
<1>5. /\ page' = [s \in Listed |-> IF s \in W THEN Listing(s, z(s)) ELSE {}]
      /\ got' = [s \in Listed |-> got[s] \cup page'[s]]
  BY <1>4 DEF Delivered, Merged
<1>6. cursor' = NextCursor(C, W) BY DEF Delivered
<1>7. Asked' = {s \in W : More(s, z(s))} \cup Carried(C)
  BY <1>6 DEF NextCursor, Asked
<1>8. \A s \in Asked' :
        \/ s \in W /\ More(s, z(s)) /\ cursor'[s] = Following(s, z(s))
        \/ s \in Carried(C) /\ s \notin W /\ cursor'[s] = cursor[s]
  BY <1>6, <1>7 DEF NextCursor, Carried
<1>9. Carried(C) \subseteq C \ Active(C) BY DEF Carried
<1>10. Asked' \subseteq C BY <1>1, <1>7, <1>9
<1>11. \A s \in Listed : sims[s] \in 0..MaxSims BY DEF IInv, TypeOK
<1>12. \A s \in Asked : cursor[s] \in Nat BY DEF IInv, TypeOK
<1>13. \A s \in Listed : got[s] \subseteq 1..sims[s] BY DEF IInv, Existing
<1>14. told' = told \cup Reported(unloaded, failed \cup aborted)
  BY DEF Delivered
<1> HIDE DEF C, W, z
<1>20. ASSUME NEW s \in W
       PROVE  First(s, z(s)) \in Nat /\ Reached(s) \in Nat /\ Reached(s) <= First(s, z(s))
  <2>1. cursor[s] \in Nat /\ z(s) \in Nat /\ AskedSize(s) \in Nat /\ AskedSize(s) <= z(s)
    BY <1>1, <1>3, <1>12
  <2>2. cursor[s] * AskedSize(s) <= cursor[s] * z(s)
        /\ cursor[s] * AskedSize(s) \in Nat /\ cursor[s] * z(s) \in Nat
    BY <2>1, Multiples
  <2> QED BY <2>1, <2>2 DEF First, Reached
<1>21. ASSUME NEW s \in Listed PROVE page'[s] \cap got[s] = {}
  <2>1. CASE s \in W
    <3>1. page'[s] = Listing(s, z(s)) BY <1>4, <2>1
    <3>2. \A i \in page'[s] : i \in Nat /\ First(s, z(s)) < i BY <3>1 DEF Listing
    <3>3. \A i \in got[s] : i <= Reached(s) BY <1>1, <2>1 DEF IInv, Behind
    <3> QED BY <1>20, <2>1, <3>2, <3>3
  <2>2. CASE s \notin W BY <1>4, <2>2
  <2> QED BY <2>1, <2>2
<1>22. Existing'
  <2>1. \A s \in Listed : page'[s] \subseteq 1..sims[s] BY <1>4 DEF Listing
  <2>2. \A s \in Listed : got'[s] \subseteq 1..sims[s] BY <1>4, <1>13, <2>1
  <2> QED BY <1>2, <2>2 DEF Existing
<1>23. TypeOK'
  <2>1. \A s \in Listed : page'[s] \subseteq 1..MaxSims
    <3>1. \A s \in Listed : 1..sims[s] \subseteq 1..MaxSims BY <1>11, ListingAssumption
    <3> QED BY <1>4, <3>1 DEF Listing
  <2>2. page' \in [Listed -> SUBSET (1..MaxSims)] BY <1>5, <2>1
  <2>3. got' \in [Listed -> SUBSET (1..MaxSims)]
    <3>1. \A s \in Listed : got[s] \subseteq 1..MaxSims BY DEF IInv, TypeOK
    <3>2. \A s \in Listed : got[s] \cup page'[s] \subseteq 1..MaxSims BY <2>1, <3>1
    <3> QED BY <1>5, <3>2
  <2>4. cursor' \in [Asked' -> Nat]
    <3>1. \A s \in Asked' : cursor'[s] \in Nat
      <4>1. \A s \in W : z(s) \in Nat /\ cursor[s] \in Nat BY <1>1, <1>3, <1>12
      <4>2. \A s \in W : Following(s, z(s)) \in Nat BY <4>1 DEF Following
      <4>3. \A s \in Carried(C) : cursor[s] \in Nat BY <1>1, <1>9, <1>12
      <4> QED BY <1>8, <4>2, <4>3
    <3>2. cursor' = [s \in Asked' |-> cursor'[s]] BY <1>6 DEF NextCursor, Asked
    <3> QED BY <3>1, <3>2
  <2>5. told' \subseteq Provider
    <3>1. \A a \in Accounts : a.provider \in Provider
      BY <1>1 DEF Accounts, Account, Source
    <3>2. \A s \in failed \cup aborted : s.provider \in Provider
      BY <1>1 DEF Source, C
    <3>3. Reported(unloaded, failed \cup aborted) \subseteq Provider
      BY <3>1, <3>2 DEF Reported
    <3> QED BY <1>14, <3>3 DEF IInv, TypeOK
  <2>6. routed' \in [Listed -> SUBSET (1..MaxSims)]
    <3>1. routed \in [Listed -> SUBSET (1..MaxSims)] BY DEF IInv, TypeOK
    <3>2. \/ routed' = [s \in Listed |-> routed[s] \cup page'[s]]
          \/ routed' = routed
      BY DEF Delivered, Upserted
    <3>3. \A s \in Listed : routed[s] \cup page'[s] \subseteq 1..MaxSims BY <2>1, <3>1
    <3> QED BY <3>1, <3>2, <3>3
  <2>7. Asked' \subseteq Listed BY <1>1, <1>10
  <2>8. endpoint \in DOMAIN Sources /\ limit \in Limits /\ sims \in [Listed -> 0..MaxSims]
    BY DEF IInv, TypeOK
  <2> QED BY <1>2, <2>2, <2>3, <2>4, <2>5, <2>6, <2>7, <2>8 DEF TypeOK
<1>24. Behind'
  <2> SUFFICES ASSUME NEW s \in Asked', NEW i \in got'[s] PROVE i <= Reached(s)'
    BY DEF Behind
  <2>1. s \in Listed /\ s \in C /\ s \in Asked BY <1>1, <1>10
  <2>2. /\ i \in Nat
        /\ i \in got[s] \/ i \in page'[s]
    BY <1>4, <1>22, <1>2, <2>1 DEF Existing
  <2>3. AskedSize(s)' \in Nat /\ z(s) \in Nat \ {0} /\ z(s) <= AskedSize(s)'
    BY <1>1, <1>2, <1>3, <1>10, <2>1, NextSizes DEF IInv, z
  <2>4. cursor[s] \in Nat BY <1>12, <2>1
  <2>5. i \in got[s] => i <= Reached(s) BY <2>1 DEF IInv, Behind
  <2>6. AskedSize(s) \in Nat /\ AskedSize(s) <= z(s) BY <1>3, <2>1
  <2>7. Reached(s)' = IF s.provider = "tele2" THEN cursor'[s] * AskedSize(s)' ELSE cursor'[s]
    BY DEF Reached
  <2>8. CASE s \in W /\ More(s, z(s)) /\ cursor'[s] = Following(s, z(s))
    <3>1. i <= First(s, z(s)) + z(s)
      <4>1. CASE i \in got[s] BY <1>20, <2>2, <2>3, <2>5, <2>8, <4>1
      <4>2. CASE i \in page'[s] BY <1>4, <2>1, <2>8, <4>2 DEF Listing
      <4> QED BY <2>2, <4>1, <4>2
    <3>2. CASE s.provider = "tele2"
      <4>1. i <= cursor[s] * z(s) + z(s) BY <3>1, <3>2 DEF First
      <4>2. (cursor[s] + 1) * z(s) = cursor[s] * z(s) + z(s) BY <2>3, <2>4
      <4>3. /\ (cursor[s] + 1) * z(s) <= (cursor[s] + 1) * AskedSize(s)'
            /\ (cursor[s] + 1) * z(s) \in Nat
            /\ (cursor[s] + 1) * AskedSize(s)' \in Nat
        BY <2>3, <2>4, Multiples
      <4>4. Reached(s)' = (cursor[s] + 1) * AskedSize(s)'
        BY <2>7, <2>8, <3>2 DEF Following
      <4> QED BY <2>2, <4>1, <4>2, <4>3, <4>4
    <3>3. CASE s.provider # "tele2"
      <4>1. First(s, z(s)) = cursor[s] BY <3>3 DEF First
      <4>2. Reached(s)' = cursor[s] + z(s) BY <2>7, <2>8, <3>3 DEF Following
      <4> QED BY <3>1, <4>1, <4>2
    <3> QED BY <3>2, <3>3
  <2>9. CASE s \in Carried(C) /\ s \notin W /\ cursor'[s] = cursor[s]
    <3>1. i <= Reached(s) BY <1>4, <2>1, <2>2, <2>5, <2>9
    <3>2. CASE s.provider = "tele2"
      <4>1. AskedSize(s) <= AskedSize(s)' BY <2>3, <2>6
      <4>2. /\ cursor[s] * AskedSize(s) <= cursor[s] * AskedSize(s)'
            /\ cursor[s] * AskedSize(s) \in Nat
            /\ cursor[s] * AskedSize(s)' \in Nat
        BY <2>3, <2>4, <2>6, <4>1, Multiples
      <4>3. i <= cursor[s] * AskedSize(s) BY <3>1, <3>2 DEF Reached
      <4>4. Reached(s)' = cursor[s] * AskedSize(s)' BY <2>7, <2>9, <3>2
      <4> QED BY <2>2, <4>2, <4>3, <4>4
    <3>3. CASE s.provider # "tele2" BY <2>7, <2>9, <3>1, <3>3 DEF Reached
    <3> QED BY <3>2, <3>3
  <2> QED BY <1>8, <2>8, <2>9
<1>25. ShownIsRouted'
  <2> SUFFICES ASSUME endpoint \in Tenant, told' = {}, NEW s \in Listed
               PROVE  got'[s] \subseteq routed'[s]
    BY <1>2 DEF ShownIsRouted
  <2>1. told = {} /\ Reported(unloaded, failed \cup aborted) = {} BY <1>14
  <2>2. aborted = {} BY <2>1 DEF Reported, Tenant
  <2>3. routed' = [r \in Listed |-> routed[r] \cup page'[r]]
    BY <2>2 DEF Delivered, Upserted
  <2>4. got[s] \subseteq routed[s] BY <2>1 DEF IInv, ShownIsRouted
  <2> QED BY <1>4, <2>3, <2>4
<1>26. CoveredOrTold'
  <2> SUFFICES ASSUME NEW s \in Listed, Reliable(s)
               PROVE  IF s \in Asked' THEN got'[s] = 1..cursor'[s]
                                      ELSE got'[s] = 1..sims[s] \/ s.provider \in told'
    BY <1>2 DEF CoveredOrTold, Reliable, Complete
  <2>1. IF s \in Asked THEN got[s] = 1..cursor[s]
                       ELSE got[s] = 1..sims[s] \/ s.provider \in told
    BY DEF IInv, CoveredOrTold, Complete
  <2>2. told \subseteq told' BY <1>14
  <2>3. s.provider # "tele2" BY DEF Reliable
  <2>4. CASE s \in W
    <3>1. /\ s \in Asked /\ cursor[s] \in Nat /\ z(s) \in Nat \ {0} /\ sims[s] \in Nat
      BY <1>1, <1>3, <1>11, <1>12, <2>4
    <3>2. First(s, z(s)) = cursor[s] BY <2>3 DEF First
    <3>3. got'[s] = (1..cursor[s]) \cup
                    {i \in 1..sims[s] : cursor[s] < i /\ i <= cursor[s] + z(s)}
      BY <1>4, <2>1, <2>4, <3>1, <3>2 DEF Listing
    <3>4. cursor[s] <= sims[s]
      <4>1. 1..cursor[s] \subseteq 1..sims[s] BY <1>13, <2>1, <3>1
      <4> QED BY <3>1, <4>1
    <3>5. CASE More(s, z(s))
      <4>1. s \in Asked' /\ cursor'[s] = cursor[s] + z(s)
        BY <1>7, <1>8, <2>3, <2>4, <3>5 DEF Following
      <4>2. cursor[s] + z(s) <= sims[s] BY <3>1, <3>2, <3>5 DEF More
      <4>3. got'[s] = 1..(cursor[s] + z(s)) BY <3>1, <3>3, <3>4, <4>2
      <4> QED BY <4>1, <4>3
    <3>6. CASE ~More(s, z(s))
      <4>1. s \notin Asked' BY <1>7, <1>9, <1>1, <2>4, <3>6
      <4>2. sims[s] <= cursor[s] + z(s) BY <3>1, <3>2, <3>6 DEF More
      <4>3. got'[s] = 1..sims[s] BY <3>1, <3>3, <3>4, <4>2
      <4> QED BY <4>1, <4>3
    <3> QED BY <3>5, <3>6
  <2>5. CASE s \notin Asked
    <3>1. s \notin Asked' /\ s \notin W BY <1>1, <1>10, <2>5
    <3>2. got'[s] = got[s] BY <1>4, <3>1
    <3> QED BY <2>1, <2>2, <2>5, <3>1, <3>2
  <2>6. CASE s \in Carried(C)
    <3>1. s \in Asked' /\ s \notin W /\ s \in Asked BY <1>1, <1>7, <1>9, <2>6
    <3>2. cursor'[s] = cursor[s] /\ got'[s] = got[s] BY <1>4, <1>8, <3>1
    <3> QED BY <2>1, <3>1, <3>2
  <2>7. CASE s \in Asked \ C
    <3>1. Account(s) \in unloaded BY <2>7 DEF C, Calls
    <3>2. s.provider \in Reported(unloaded, failed \cup aborted)
      BY <3>1 DEF Reported, Account
    <3>3. s \notin Asked' BY <1>10, <2>7
    <3> QED BY <1>14, <3>2, <3>3
  <2>8. CASE s \in Active(C) \ W
    <3>1. s \in failed \cup aborted BY <2>8 DEF W
    <3>2. endpoint = "admin" => \A t \in Listed : t.provider = s.provider => t \in Asked
      BY <1>1, <2>8 DEF Reliable, Tenant
    <3>3. s.provider \in Reported(unloaded, failed \cup aborted)
      BY <3>1, <3>2 DEF Reported
    <3>4. s \notin Asked' BY <1>7, <1>9, <2>8
    <3> QED BY <1>14, <3>3, <3>4
  <2>9. CASE s \in (C \ Active(C)) \ Carried(C)
    <3>1. endpoint # "search" /\ endpoint # "global" /\ ~(CallLimit(s, C) > 0)
      BY <2>9 DEF Active, Carried
    <3>2. limit >= Cardinality(Listed) BY <3>1 DEF Reliable, Tenant
    <3>3. /\ IsFiniteSet(Listed) /\ IsFiniteSet(C) /\ Cardinality(C) \in Nat
          /\ Cardinality(Listed) \in Nat /\ Cardinality(C) <= Cardinality(Listed)
      BY <1>1, ListedFinite, Counted DEF IInv
    <3>4. Cardinality(C) > 0 BY <2>9, <3>3, CountedMember
    <3>5. limit \in Nat BY ListingAssumption DEF IInv, TypeOK
    <3>6. Position(s, C) \in Nat BY <3>3, PositionGrows
    <3>7. Share(limit, Cardinality(C), Position(s, C)) > 0
      BY <3>2, <3>3, <3>4, <3>5, <3>6, SharePositive
    <3> QED BY <3>1, <3>7 DEF CallLimit
  <2> QED BY <1>1, <2>4, <2>5, <2>6, <2>7, <2>8, <2>9
<1> QED BY <1>21, <1>22, <1>23, <1>24, <1>25, <1>26 DEF IInv

\* Nothing but routed changes when the answer is refused or lost.
LEMMA OtherSteps ==
  ASSUME IInv,
         page' = Nothing, UNCHANGED <<endpoint, limit, sims, cursor, got, told>>,
         \/ routed' = routed
         \/ \E listing : /\ \A s \in Listed : listing[s] \subseteq 1..sims[s]
                        /\ routed' = [s \in Listed |-> routed[s] \cup listing[s]]
  PROVE  IInv' /\ \A s \in Listed : page'[s] \cap got[s] = {}
<1>1. Listed' = Listed /\ Asked' = Asked BY DEF Listed, Asked
<1>2. \A s : AskedSize(s)' = AskedSize(s)
  BY <1>1, AskedSizeIs, NextAskedSizeIs
<1>3. \A s \in Listed : page'[s] = {} BY DEF Nothing
<1>4. \A s \in Listed : 1..sims[s] \subseteq 1..MaxSims
  BY ListingAssumption DEF IInv, TypeOK
<1>5. routed' \in [Listed -> SUBSET (1..MaxSims)] /\ \A s \in Listed : routed[s] \subseteq routed'[s]
  <2>1. routed \in [Listed -> SUBSET (1..MaxSims)] BY DEF IInv, TypeOK
  <2> QED BY <1>4, <2>1
<1>6. page' \in [Listed -> SUBSET (1..MaxSims)] BY DEF Nothing
<1>7. TypeOK' BY <1>1, <1>5, <1>6 DEF IInv, TypeOK
<1>8. Existing' BY <1>1 DEF IInv, Existing
<1>9. Behind' BY <1>1, <1>2 DEF IInv, Behind, Reached
<1>10. CoveredOrTold' BY <1>1 DEF IInv, CoveredOrTold, Reliable, Complete
<1>11. ShownIsRouted' BY <1>1, <1>5 DEF IInv, ShownIsRouted
<1> QED BY <1>3, <1>7, <1>8, <1>9, <1>10, <1>11 DEF IInv

LEMMA Step ==
  ASSUME IInv, [Next]_vars
  PROVE  IInv' /\ (UNCHANGED vars \/ \A s \in Listed : page'[s] \cap got[s] = {})
<1>1. CASE Next
  <2>1. PICK unloaded \in SUBSET Accounts :
          \E failed \in SUBSET Active(Calls(unloaded)) :
          \E aborted \in SUBSET (Active(Calls(unloaded)) \ failed) :
            LET calls == Calls(unloaded)
                returned == Active(calls) \ failed
                answered == returned \ aborted
                listing == Merged(calls, answered)
            IN /\ Aborts(aborted, returned, calls)
               /\ \/ Refused(listing, unloaded, failed \cup aborted)
                  \/ Delivered(calls, answered, unloaded, failed \cup aborted, aborted)
                  \/ Lost(listing, aborted)
    BY <1>1 DEF Next, Request
  <2>2. PICK failed \in SUBSET Active(Calls(unloaded)) :
          \E aborted \in SUBSET (Active(Calls(unloaded)) \ failed) :
            LET calls == Calls(unloaded)
                returned == Active(calls) \ failed
                answered == returned \ aborted
                listing == Merged(calls, answered)
            IN /\ Aborts(aborted, returned, calls)
               /\ \/ Refused(listing, unloaded, failed \cup aborted)
                  \/ Delivered(calls, answered, unloaded, failed \cup aborted, aborted)
                  \/ Lost(listing, aborted)
    BY <2>1
  <2>3. PICK aborted \in SUBSET (Active(Calls(unloaded)) \ failed) :
            LET calls == Calls(unloaded)
                returned == Active(calls) \ failed
                answered == returned \ aborted
                listing == Merged(calls, answered)
            IN /\ Aborts(aborted, returned, calls)
               /\ \/ Refused(listing, unloaded, failed \cup aborted)
                  \/ Delivered(calls, answered, unloaded, failed \cup aborted, aborted)
                  \/ Lost(listing, aborted)
    BY <2>2
  <2> DEFINE calls == Calls(unloaded)
             answered == (Active(calls) \ failed) \ aborted
             listing == Merged(calls, answered)
  <2>4. CASE Delivered(calls, answered, unloaded, failed \cup aborted, aborted)
    BY <2>3, <2>4, DeliveredStep
  <2>5. \A s \in Listed : listing[s] \subseteq 1..sims[s]
    BY DEF Merged, Listing
  <2>6. CASE Refused(listing, unloaded, failed \cup aborted)
    BY <2>6, OtherSteps DEF Refused
  <2>7. CASE Lost(listing, aborted)
    BY <2>5, <2>7, OtherSteps DEF Lost, Upserted
  <2> HIDE DEF calls, answered, listing
  <2> QED BY <2>3, <2>4, <2>6, <2>7 DEF calls, answered, listing
<1>2. CASE UNCHANGED vars
  <2>1. Listed' = Listed /\ Asked' = Asked BY <1>2 DEF Listed, Asked, vars
  <2>2. \A s : AskedSize(s)' = AskedSize(s)
    BY <1>2, <2>1, AskedSizeIs, NextAskedSizeIs DEF vars
  <2>3. TypeOK' /\ Existing' /\ CoveredOrTold' /\ ShownIsRouted'
    BY <1>2, <2>1 DEF IInv, TypeOK, Existing, CoveredOrTold, Reliable, Complete,
                      ShownIsRouted, vars
  <2>4. Behind' BY <1>2, <2>1, <2>2 DEF IInv, Behind, Reached, vars
  <2> QED BY <1>2, <2>3, <2>4 DEF IInv
<1> QED BY <1>1, <1>2

-----------------------------------------------------------------------------
(* The limit of a page.  A source deals its SIMs as cards are dealt: the k-th *)
(* SIM of the source in place p is card k * n + p, and no two are the same.   *)

LEMMA Dealt ==
  ASSUME NEW l \in Nat, NEW n \in Nat, n > 0, NEW p \in 0 .. n - 1, NEW k \in Nat,
         k < Share(l, n, p)
  PROVE  k * n + p \in 0 .. l - 1
<1>1. PICK q \in Nat, t \in Nat : q = l \div n /\ t = l % n /\ t < n /\ l = n * q + t
  BY DivMod
<1>2. k < q + (IF p < t THEN 1 ELSE 0)
  BY <1>1 DEF Share
<1>3. k * n \in Nat /\ n * q \in Nat
  BY Multiples
<1>4. CASE k < q
  <2>1. (k + 1) * n <= q * n /\ (k + 1) * n = k * n + n /\ q * n = n * q
    BY <1>1, <1>4, Multiples
  <2> QED
    BY <1>1, <1>3, <2>1
<1>5. CASE k = q /\ p < t
  <2>1. k * n = n * q
    BY <1>5
  <2> QED
    BY <1>1, <1>3, <1>5, <2>1
<1> QED
  BY <1>1, <1>2, <1>4, <1>5

\* Whoever has card c is in one place, and has dealt a certain number before it.
LEMMA DealtOnce ==
  ASSUME NEW n \in Nat, NEW p \in 0 .. n - 1, NEW q \in 0 .. n - 1, NEW k \in Nat, NEW m \in Nat,
         k * n + p = m * n + q
  PROVE  k = m /\ p = q
<1>1. n \in Nat /\ k * n \in Nat /\ m * n \in Nat
  BY Multiples
<1>2. ASSUME k < m PROVE FALSE
  <2>1. (k + 1) * n <= m * n /\ (k + 1) * n = k * n + n
    BY <1>2, Multiples
  <2> QED
    BY <1>1, <2>1
<1>3. ASSUME m < k PROVE FALSE
  <2>1. (m + 1) * n <= k * n /\ (m + 1) * n = m * n + n
    BY <1>3, Multiples
  <2> QED
    BY <1>1, <2>1
<1>4. k = m
  BY <1>2, <1>3
<1> QED
  BY <1>1, <1>4

\* No two sources have the same place among those that are called.
LEMMA PlacesDiffer ==
  ASSUME TypeOK, NEW C \in SUBSET Listed, NEW s \in C
  PROVE  /\ Position(s, C) \in 0 .. Cardinality(C) - 1
         /\ \A t \in C : Position(s, C) = Position(t, C) => s = t
<1> DEFINE before(t) == {u \in C : Order[u] < Order[t]}
<1>1. Listed \in SUBSET Source /\ IsFiniteSet(Listed) /\ IsFiniteSet(C)
  BY ListedFinite, FS_Subset
<1>2. \A t \in C : Order[t] \in Nat
  BY <1>1, ListingAssumption
<1>3. \A t \in C : /\ IsFiniteSet(before(t)) /\ Cardinality(before(t)) \in Nat
                   /\ Cardinality(before(t)) <= Cardinality(C)
                   /\ Cardinality(before(t)) = Cardinality(C) => before(t) = C
  BY <1>1, FS_Subset, FS_CardinalityType
<1>4. s \notin before(s) /\ Cardinality(C) \in Nat
  BY <1>1, <1>2, FS_CardinalityType
<1>5. Position(s, C) \in 0 .. Cardinality(C) - 1
  <2>1. Position(s, C) = Cardinality(before(s)) /\ before(s) # C
    BY <1>4 DEF Position
  <2> HIDE DEF before
  <2> QED
    BY <1>3, <1>4, <2>1
<1>6. ASSUME NEW t \in C, NEW u \in C, Order[t] < Order[u]
      PROVE  Position(t, C) # Position(u, C)
  <2>1. before(t) \in SUBSET before(u) /\ t \in before(u) /\ t \notin before(t)
    BY <1>2, <1>6
  <2>2. Cardinality(before(t)) = Cardinality(before(u)) => before(t) = before(u)
    BY <1>3, <2>1, FS_Subset
  <2> QED
    BY <2>1, <2>2 DEF Position
<1>7. \A t \in C : Order[s] = Order[t] => s = t
  BY <1>1, ListingAssumption DEF TypeOK, Listed
<1>8. \A t \in C : Order[s] = Order[t] \/ Order[s] < Order[t] \/ Order[t] < Order[s]
  BY <1>2
<1> QED
  BY <1>5, <1>6, <1>7, <1>8

Shown(pages) == {e \in Listed \X (1..MaxSims) : e[2] \in pages[e[1]]}

LEMMA MergedWithin ==
  ASSUME TypeOK, endpoint # "search", NEW C \in SUBSET Asked, NEW B \in SUBSET Active(C)
  PROVE  Cardinality(Shown(Merged(C, B))) <= limit
<1> DEFINE n == Cardinality(C)
           S == Shown(Merged(C, B))
           before(e) == e[2] - First(e[1], PageSize(e[1], C)) - 1
           card(e) == before(e) * n + Position(e[1], C)
<1>1. /\ C \in SUBSET Listed /\ IsFiniteSet(C) /\ n \in Nat /\ limit \in Nat
      /\ \A s \in C : cursor[s] \in Nat
  BY ListedFinite, FS_Subset, FS_CardinalityType, ListingAssumption DEF TypeOK
<1>2. ASSUME NEW e \in S
      PROVE  /\ e = <<e[1], e[2]>> /\ e[1] \in C /\ e[2] \in Nat
             /\ before(e) \in Nat /\ before(e) < Share(limit, n, Position(e[1], C))
             /\ First(e[1], PageSize(e[1], C)) \in Nat
  <2>1. PICK s \in Listed, i \in 1..MaxSims : e = <<s, i>> /\ i \in Merged(C, B)[s]
    BY DEF Shown
  <2>2. s \in B /\ i \in Listing(s, PageSize(s, C))
    BY <2>1 DEF Merged
  <2>3. s \in C /\ CallLimit(s, C) > 0 /\ CallLimit(s, C) = Share(limit, n, Position(s, C))
    BY <2>2 DEF Active, CallLimit
  <2>4. PICK a, z : a = First(s, z) /\ z = PageSize(s, C)
    OBVIOUS
  <2>5. z \in Nat /\ a \in Nat
    <3>1. z \in Nat \ {0} /\ cursor[s] \in Nat
      BY <1>1, <2>3, <2>4, CalledSizes
    <3>2. cursor[s] * z \in Nat
      BY <3>1, Multiples
    <3> QED
      BY <2>4, <3>1, <3>2 DEF First
  <2>6. a < i /\ i <= a + z /\ i \in Nat
    BY <2>1, <2>2, <2>4, ListingAssumption DEF Listing
  <2>7. n > 0
    BY <1>1, <2>3, CountedMember
  <2>8. Position(s, C) \in Nat
    BY <1>1, <2>3, PlacesDiffer
  <2>9. Share(limit, n, Position(s, C)) \in Nat
    BY <1>1, <2>7, <2>8, ShareType
  <2>10. z <= Share(limit, n, Position(s, C))
    <3>1. PageCap[s.provider] \in Nat
      BY <1>1, <2>3, ListedFinite, ListingAssumption DEF Source
    <3> QED
      BY <2>3, <2>4, <2>9, <3>1 DEF PageSize
  <2>11. i - a - 1 \in Nat /\ i - a - 1 < Share(limit, n, Position(s, C))
    BY <2>5, <2>6, <2>9, <2>10
  <2> HIDE DEF n
  <2> QED
    BY <2>1, <2>3, <2>4, <2>5, <2>6, <2>11
<1>3. \A e \in S : card(e) \in 0 .. limit - 1
  <2> TAKE e \in S
  <2>1. Position(e[1], C) \in 0 .. n - 1 /\ n > 0
    BY <1>1, <1>2, PlacesDiffer, CountedMember
  <2> HIDE DEF n, S, before
  <2> QED
    BY <1>1, <1>2, <2>1, Dealt
<1>4. \A e, f \in S : card(e) = card(f) => e = f
  <2> SUFFICES ASSUME NEW e \in S, NEW f \in S, card(e) = card(f) PROVE e = f
    OBVIOUS
  <2>1. Position(e[1], C) \in 0 .. n - 1 /\ Position(f[1], C) \in 0 .. n - 1
        /\ (Position(e[1], C) = Position(f[1], C) => e[1] = f[1])
    BY <1>1, <1>2, PlacesDiffer
  <2>2. before(e) = before(f) /\ Position(e[1], C) = Position(f[1], C)
    <3>1. before(e) \in Nat /\ before(f) \in Nat
      BY <1>2
    <3> HIDE DEF n, S, before
    <3> QED
      BY <1>1, <2>1, <3>1, DealtOnce
  <2>3. e[1] = f[1] /\ e[2] = f[2]
    BY <1>2, <2>1, <2>2
  <2> QED
    BY <1>2, <2>3
<1>5. PICK d : d = [e \in S |-> card(e)]
  OBVIOUS
<1>6. d \in Injection(S, 0 .. limit - 1)
  <2> HIDE DEF S, card
  <2> QED
    BY <1>3, <1>4, <1>5 DEF Injection, IsInjective
<1>7. IsFiniteSet(0 .. limit - 1) /\ Cardinality(0 .. limit - 1) = limit
  <2>1. 0 \in Int /\ limit - 1 \in Int
    BY <1>1
  <2>2. /\ IsFiniteSet(0 .. limit - 1)
        /\ Cardinality(0 .. limit - 1) = IF 0 > limit - 1 THEN 0 ELSE limit - 1 - 0 + 1
    BY <2>1, FS_Interval
  <2> QED
    BY <1>1, <2>2
<1> HIDE DEF S
<1>8. Cardinality(S) <= limit
  BY <1>6, <1>7, FS_Injection
<1> QED
  BY <1>8 DEF S

LEMMA NothingShown ==
  ASSUME NEW pages, \A s \in Listed : pages[s] = {}
  PROVE  Cardinality(Shown(pages)) = 0
<1>1. Shown(pages) = {}
  BY DEF Shown
<1> QED
  BY <1>1, FS_EmptySet

LEMMA WithinStep ==
  ASSUME IInv, WithinLimit, [Next]_vars
  PROVE  WithinLimit'
<1>1. endpoint' = endpoint /\ limit' = limit /\ Listed' = Listed
  BY DEF Next, Request, Refused, Delivered, Lost, vars, Listed
<1>2. Shown(page)' = Shown(page')
  BY <1>1 DEF Shown
<1>3. \/ page' = page
      \/ page' = Nothing
      \/ \E C \in SUBSET Asked : \E B \in SUBSET Active(C) : page' = Merged(C, B)
  <2>1. \A unloaded : Calls(unloaded) \in SUBSET Asked
    BY DEF Calls
  <2> QED
    BY <2>1 DEF Next, Request, Refused, Delivered, Lost, vars
<1>4. limit \in Nat
  BY ListingAssumption DEF IInv, TypeOK
<1>5. CASE page' = page
  BY <1>1, <1>2, <1>5 DEF WithinLimit, Shown
<1>6. CASE page' = Nothing
  <2>1. Cardinality(Shown(page')) = 0
    BY <1>6, NothingShown DEF Nothing
  <2> QED
    BY <1>1, <1>2, <1>4, <2>1 DEF WithinLimit, Shown
<1>7. ASSUME NEW C \in SUBSET Asked, NEW B \in SUBSET Active(C), page' = Merged(C, B)
      PROVE  WithinLimit'
  <2>1. endpoint # "search" => Cardinality(Shown(page')) <= limit
    BY <1>7, MergedWithin DEF IInv
  <2> QED
    BY <1>1, <1>2, <2>1 DEF WithinLimit, Shown
<1> QED
  BY <1>3, <1>5, <1>6, <1>7

-----------------------------------------------------------------------------
(* The end of a walk.  Shares are dealt from the first source on, so of those *)
(* that are asked one gets a share, and its position moves.                   *)

\* Of the sources that are called, one comes before all others.
LEMMA OneIsFirst ==
  ASSUME TypeOK, NEW C \in SUBSET Listed, C # {}
  PROVE  \E s \in C : Position(s, C) = 0
<1> DEFINE before(s) == {t \in C : Order[t] < Order[s]}
           all == {before(s) : s \in C}
<1>1. IsFiniteSet(C) /\ \A s \in C : Order[s] \in Nat
  BY ListedFinite, FS_Subset, ListingAssumption
<1>2. all \subseteq FiniteSubsetsOf(C) /\ all # {}
  <2>1. \A s \in C : before(s) \in SUBSET C /\ IsFiniteSet(before(s))
    BY <1>1, FS_Subset
  <2> QED
    BY <2>1 DEF FiniteSubsetsOf
<1>3. PICK x \in all : \A y \in all : <<y, x>> \notin StrictSubsetOrdering(C)
  BY <1>2, FS_StrictSubsetOrderingWellFounded, WFMin
<1>4. PICK s \in C : x = before(s)
  OBVIOUS
<1>5. ASSUME NEW t \in before(s)
      PROVE  FALSE
  <2>1. t \in C /\ before(t) \subseteq before(s) /\ t \notin before(t)
    BY <1>1
  <2>2. before(t) \in all /\ before(s) \subseteq C /\ before(t) # before(s)
    BY <2>1
  <2> HIDE DEF before, all
  <2> QED
    BY <1>3, <1>4, <2>1, <2>2 DEF StrictSubsetOrdering
<1>6. Position(s, C) = Cardinality({})
  BY <1>5 DEF Position
<1> QED
  BY <1>6, FS_EmptySet

LEMMA SomeoneIsActive ==
  ASSUME TypeOK, Asked # {}
  PROVE  Active(Asked) # {}
<1>1. Asked \subseteq Listed /\ IsFiniteSet(Asked) /\ limit \in Nat \ {0}
  BY ListedFinite, FS_Subset, ListingAssumption DEF TypeOK
<1>2. PICK s \in Asked : Position(s, Asked) = 0
  BY <1>1, OneIsFirst
<1>3. Cardinality(Asked) \in Nat /\ Cardinality(Asked) > 0
  BY <1>1, Counted, CountedMember
<1> DEFINE n == Cardinality(Asked)
<1>4. limit \div n \in Nat /\ limit % n \in Nat /\ limit = n * (limit \div n) + (limit % n)
  BY <1>1, <1>3, DivMod
<1>5. Share(limit, n, 0) > 0
  <2>1. limit \div n = 0 => n * (limit \div n) = 0
    BY <1>3
  <2> QED
    BY <1>1, <1>4, <2>1 DEF Share
<1> QED
  BY <1>2, <1>5 DEF Active, CallLimit

InReach == \A s \in Asked : cursor[s] <= sims[s]

\* A delivered answer moves those that answered, and sets nobody back.
LEMMA DeliveredAdvances ==
  ASSUME TypeOK, InReach, NEW C \in SUBSET Asked, NEW W \in SUBSET Active(C),
         cursor' = NextCursor(C, W), UNCHANGED <<endpoint, limit, sims>>
  PROVE  /\ InReach'
         /\ \A s \in Listed : Left(s)' <= Left(s)
         /\ \A s \in W : Left(s)' < Left(s)
<1> DEFINE z(s) == PageSize(s, C)
<1>1. C \subseteq Listed /\ Active(C) \subseteq C /\ Carried(C) \subseteq C \ Active(C) /\ Listed' = Listed
  BY DEF TypeOK, Active, Carried, Listed
<1>2. \A s \in C : z(s) \in Nat \ {0} /\ cursor[s] \in Nat /\ sims[s] \in Nat /\ cursor[s] <= sims[s]
  BY <1>1, CalledSizes, ListingAssumption DEF TypeOK, InReach
<1>3. /\ Asked' = {s \in W : More(s, z(s))} \cup Carried(C)
      /\ \A s \in Asked' : cursor'[s] = IF s \in W THEN Following(s, z(s)) ELSE cursor[s]
  BY <1>1 DEF NextCursor, Asked
<1> HIDE DEF z
<1>4. ASSUME NEW s \in W, More(s, z(s))
      PROVE  Following(s, z(s)) \in Nat /\ cursor[s] < Following(s, z(s)) /\ Following(s, z(s)) <= sims[s]
  <2>1. z(s) \in Nat \ {0} /\ cursor[s] \in Nat /\ sims[s] \in Nat
    BY <1>1, <1>2
  <2>2. CASE s.provider = "tele2"
    <3>1. cursor[s] * z(s) \in Nat /\ cursor[s] <= cursor[s] * z(s)
      <4>1. cursor[s] * 1 <= cursor[s] * z(s) /\ cursor[s] * 1 = cursor[s] /\ cursor[s] * z(s) \in Nat
        BY <2>1, Multiples
      <4> QED
        BY <4>1
    <3>2. cursor[s] * z(s) + z(s) < sims[s]
      BY <1>4, <2>2 DEF More, First
    <3> QED
      BY <2>1, <2>2, <3>1, <3>2 DEF Following
  <2>3. CASE s.provider # "tele2"
    <3>1. cursor[s] + z(s) <= sims[s]
      BY <1>4, <2>1, <2>3 DEF More, First
    <3> QED
      BY <2>1, <2>3, <3>1 DEF Following
  <2> QED
    BY <2>2, <2>3
<1>5. InReach'
  BY <1>1, <1>2, <1>3, <1>4 DEF InReach
<1>6. ASSUME NEW s \in Listed
      PROVE  Left(s)' <= Left(s) /\ (s \in W => Left(s)' < Left(s))
  <2>1. Left(s)' = IF s \in Asked' THEN sims[s] + 1 - cursor'[s] ELSE 0
    BY DEF Left
  <2>2. CASE s \in C /\ s \in Asked'
    BY <1>1, <1>2, <1>3, <1>4, <2>1, <2>2 DEF Left
  <2>3. CASE s \in C /\ s \notin Asked'
    BY <1>2, <2>1, <2>3 DEF Left
  <2>4. CASE s \notin C
    <3>1. s \notin Asked' /\ s \notin W
      BY <1>1, <1>3, <2>4
    <3>2. s \in Asked => cursor[s] \in Nat /\ sims[s] \in Nat /\ cursor[s] <= sims[s]
      BY ListingAssumption DEF TypeOK, InReach
    <3> QED
      BY <2>1, <3>1, <3>2 DEF Left
  <2> QED
    BY <2>2, <2>3, <2>4
<1> QED
  BY <1>1, <1>5, <1>6

\* The three outcomes of a request, for the part of the state the walk turns on.
LEMMA AdvanceStep ==
  ASSUME TypeOK, InReach, [Next]_vars
  PROVE  /\ InReach'
         /\ \A s \in Listed : Left(s)' <= Left(s)
         /\ CleanRequest => \E s \in Listed : Left(s)' < Left(s)
<1>1. Next => \/ UNCHANGED <<endpoint, limit, sims, cursor>>
              \/ /\ UNCHANGED <<endpoint, limit, sims>>
                 /\ \E C \in SUBSET Asked : \E W \in SUBSET Active(C) : cursor' = NextCursor(C, W)
  <2>1. \A unloaded : Calls(unloaded) \in SUBSET Asked
    BY DEF Calls
  <2> QED
    BY <2>1 DEF Next, Request, Refused, Delivered, Lost
<1>2. CASE UNCHANGED <<endpoint, limit, sims, cursor>>
  <2>1. \A s \in Listed : Left(s) \in Int /\ Left(s)' = Left(s)
    <3>1. \A s \in Asked : cursor[s] \in Nat /\ sims[s] \in Nat
      BY ListingAssumption DEF TypeOK
    <3> QED
      BY <1>2, <3>1 DEF Left, Asked
  <2>2. InReach'
    BY <1>2 DEF InReach, Asked
  <2>3. ~CleanRequest
    <3> SUFFICES ASSUME CleanRequest PROVE FALSE
      OBVIOUS
    <3>1. PICK s \in Active(Asked) : s \in Listed
      BY SomeoneIsActive DEF CleanRequest, Active, TypeOK
    <3>2. Left(s)' < Left(s)
      BY <3>1, DeliveredAdvances DEF CleanRequest, Delivered
    <3> QED
      BY <2>1, <3>1, <3>2
  <2> QED
    BY <2>1, <2>2, <2>3
<1>3. ASSUME UNCHANGED <<endpoint, limit, sims>>,
             NEW C \in SUBSET Asked, NEW W \in SUBSET Active(C), cursor' = NextCursor(C, W)
      PROVE  InReach' /\ \A s \in Listed : Left(s)' <= Left(s)
  BY <1>3, DeliveredAdvances
<1>4. CleanRequest => \E s \in Listed : Left(s)' < Left(s)
  <2> SUFFICES ASSUME CleanRequest PROVE \E s \in Listed : Left(s)' < Left(s)
    OBVIOUS
  <2>1. PICK s \in Active(Asked) : s \in Listed
    BY SomeoneIsActive DEF CleanRequest, Active, TypeOK
  <2>2. Left(s)' < Left(s)
    BY <2>1, DeliveredAdvances DEF CleanRequest, Delivered
  <2> QED
    BY <2>1, <2>2
<1>5. UNCHANGED vars => UNCHANGED <<endpoint, limit, sims, cursor>>
  BY DEF vars
<1> QED
  BY <1>1, <1>2, <1>3, <1>4, <1>5

-----------------------------------------------------------------------------
\* The strengthened invariant holds of every walk.
THEOREM Invariance == Spec => []IInv
<1>1. Init => IInv BY Initial
<1>2. IInv /\ [Next]_vars => IInv' BY Step
<1> QED BY <1>1, <1>2, PTL DEF Spec

\* The state keeps its type.
THEOREM TypeCorrect == Spec => []TypeOK
<1>1. IInv => TypeOK BY DEF IInv
<1> QED BY <1>1, Invariance, PTL

\* No reliable source leaves the walk with SIMs unseen and its provider unnamed,
\* for any sources, any limit and any failures.
THEOREM WalksCover == Spec => []CoveredOrTold
<1>1. IInv => CoveredOrTold BY DEF IInv
<1> QED BY <1>1, Invariance, PTL

\* A tenant who was told of no failure can address every SIM shown to him.
THEOREM ShownAreRouted == Spec => []ShownIsRouted
<1>1. IInv => ShownIsRouted BY DEF IInv
<1> QED BY <1>1, Invariance, PTL

\* No SIM is delivered twice, because no source's page ever shrinks.
THEOREM NoRepeats == Spec => NothingTwice
<1>1. IInv /\ [Next]_vars => [\A s \in Listed : page'[s] \cap got[s] = {}]_vars
  BY Step
<1> QED BY <1>1, Invariance, PTL DEF Spec, NothingTwice

\* However many sources share a page, whatever their caps and whoever fails, the
\* shares add up to no more than the client asked for.
THEOREM PagesWithinLimit == Spec => []WithinLimit
<1>1. Init => WithinLimit
  <2> SUFFICES ASSUME Init PROVE WithinLimit
    OBVIOUS
  <2>1. Cardinality(Shown(page)) = 0 /\ limit \in Nat
    BY NothingShown, ListingAssumption DEF Init, Nothing
  <2> QED
    BY <2>1 DEF WithinLimit, Shown
<1>2. IInv /\ WithinLimit /\ [Next]_vars => WithinLimit'
  BY WithinStep
<1> QED
  BY <1>1, <1>2, Initial, Step, PTL DEF Spec

\* No request sets a walk back, and each one that every provider answers brings
\* it nearer to its end, for any sources, limits and page caps.
THEOREM WalksAdvance == Spec => WalkAdvances
<1>1. Init => InReach
  BY ListingAssumption DEF Init, InReach, Asked
<1>2. TypeOK /\ InReach /\ [Next]_vars => InReach'
  BY AdvanceStep
<1>3. TypeOK /\ InReach /\ [Next]_vars =>
        [/\ \A s \in Listed : Left(s)' <= Left(s)
         /\ CleanRequest => \E s \in Listed : Left(s)' < Left(s)]_vars
  BY AdvanceStep
<1> QED
  BY <1>1, <1>2, <1>3, TypeCorrect, PTL DEF Spec, WalkAdvances

=============================================================================
