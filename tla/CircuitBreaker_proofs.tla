------------------------ MODULE CircuitBreaker_proofs ------------------------
(***************************************************************************)
(* Theorems about CircuitBreaker, for any number of callers and any        *)
(* threshold, window and open period.                                      *)
(*                                                                         *)
(* Why opening needs evidence: the deque is at all times a suffix of the   *)
(* history of failures (Suffix), and one short of the threshold at most.   *)
(* So when it reaches the threshold, nothing was pruned from it and it is  *)
(* the history of the last Threshold failures, none older than the window. *)
(***************************************************************************)
EXTENDS CircuitBreaker, FiniteSetTheorems, TLAPS

Ages == 0 .. Window + 1

Ordered(f) == \A i, k \in DOMAIN f : i < k => f[i] >= f[k]

\* f is a suffix of g.
Suffix(f, g) ==
  /\ Len(f) <= Len(g)
  /\ \A i \in 1 .. Len(f) : f[i] = g[Len(g) - Len(f) + i]

IInv ==
  /\ TypeOK
  /\ FailuresBounded
  /\ Suffix(failures, recent) /\ Len(recent) <= Threshold

\* What is left of f from position m on.
LEMMA TailLemma ==
  ASSUME NEW f \in Seq(Ages), NEW m \in 1 .. Len(f) + 1
  PROVE  /\ SubSeq(f, m, Len(f)) \in Seq(Ages)
         /\ Len(SubSeq(f, m, Len(f))) = Len(f) + 1 - m
         /\ \A i \in 1 .. Len(f) + 1 - m : SubSeq(f, m, Len(f))[i] = f[m + i - 1]
<1>1. Len(f) \in Nat /\ m \in Nat
  OBVIOUS
<1>2. CASE m = Len(f) + 1
  BY <1>1, <1>2
<1>3. CASE m # Len(f) + 1
  BY <1>1, <1>3
<1> QED
  BY <1>2, <1>3

\* Pruning drops n elements from the left; if it drops none, none is too old.
LEMMA PruneLemma ==
  ASSUME NEW f \in Seq(Ages)
  PROVE  \E n \in 0 .. Len(f) :
           /\ Prune(f) \in Seq(Ages)
           /\ Len(Prune(f)) = Len(f) - n
           /\ \A i \in 1 .. Len(f) - n : Prune(f)[i] = f[i + n]
           /\ n = 0 => \A i \in 1 .. Len(f) : f[i] <= Window
<1> DEFINE Old == {i \in DOMAIN f : f[i] > Window}
           n == Cardinality(Old)
<1>1. DOMAIN f = 1 .. Len(f) /\ Len(f) \in Nat
  OBVIOUS
<1>2. IsFiniteSet(1 .. Len(f)) /\ Cardinality(1 .. Len(f)) = Len(f)
  BY <1>1, FS_Interval
<1>3. IsFiniteSet(Old) /\ n <= Len(f) /\ n \in Nat
  <2>1. Old \subseteq 1 .. Len(f)
    BY <1>1
  <2> QED
    BY <1>2, <2>1, FS_Subset, FS_CardinalityType
<1>4. n = 0 => \A i \in 1 .. Len(f) : f[i] <= Window
  <2> SUFFICES ASSUME n = 0, NEW i \in 1 .. Len(f) PROVE f[i] <= Window
    OBVIOUS
  <2>1. Old = {}
    BY <1>3, FS_EmptySet
  <2>2. f[i] \in Ages
    BY <1>1
  <2> QED
    BY <1>1, <2>1, <2>2, ParameterAssumption DEF Ages
<1>5. Prune(f) = SubSeq(f, n + 1, Len(f))
  BY DEF Prune
<1> HIDE DEF n, Old
<1>6. /\ Prune(f) \in Seq(Ages)
      /\ Len(Prune(f)) = Len(f) - n
      /\ \A i \in 1 .. Len(f) - n : Prune(f)[i] = f[i + n]
  <2>1. n + 1 \in 1 .. Len(f) + 1
    BY <1>1, <1>3
  <2>2. Len(f) + 1 - (n + 1) = Len(f) - n
    <3>1. \A a, b \in Nat : a + 1 - (b + 1) = a - b
      OBVIOUS
    <3> QED
      BY <1>1, <1>3, <3>1
  <2>3. \A i \in 1 .. Len(f) - n : n + 1 + i - 1 = i + n
    BY <1>3
  <2> QED
    BY <1>5, <2>1, <2>2, <2>3, TailLemma
<1> QED
  BY <1>1, <1>3, <1>4, <1>6

\* The last n elements of a sequence are a suffix of it.
LEMMA LastLemma ==
  ASSUME NEW f \in Seq(Ages), NEW n \in Nat
  PROVE  /\ Last(f, n) \in Seq(Ages)
         /\ Len(Last(f, n)) = (IF Len(f) <= n THEN Len(f) ELSE n)
         /\ Suffix(Last(f, n), f)
<1>1. Len(f) \in Nat /\ \A i \in 1 .. Len(f) : f[i] \in Ages
  OBVIOUS
<1>2. CASE Len(f) <= n
  BY <1>1, <1>2 DEF Last, Suffix
<1>3. CASE Len(f) > n
  <2>1. PICK m \in 1 .. Len(f) + 1 : m = Len(f) - n + 1
    <3>1. \A a, b \in Nat : a > b => a - b + 1 \in 1 .. a + 1
      OBVIOUS
    <3> QED
      BY <1>1, <1>3, <3>1
  <2>2. Last(f, n) = SubSeq(f, m, Len(f))
    BY <1>1, <1>3, <2>1 DEF Last
  <2>3. Len(f) + 1 - m = n /\ \A i \in 1 .. n : m + i - 1 = Len(f) - n + i
    BY <1>1, <2>1
  <2>4. /\ Last(f, n) \in Seq(Ages) /\ Len(Last(f, n)) = n
        /\ \A i \in 1 .. n : Last(f, n)[i] = f[Len(f) - n + i]
    BY <2>2, <2>3, TailLemma
  <2> QED
    BY <1>1, <1>3, <2>4 DEF Suffix
<1> QED
  BY <1>1, <1>2, <1>3

\* A closed breaker with nothing recorded satisfies the invariant.
LEMMA InitIInv == Init => IInv
BY ParameterAssumption
   DEF Init, IInv, TypeOK, FailuresBounded, Suffix

\* Recording a failure: what is kept, and what a full deque proves.
LEMMA FailLemma ==
  ASSUME IInv, NEW c \in Calls, Fail(c)
  PROVE  /\ IInv'
         /\ state = "CLOSED" /\ state' # "CLOSED" =>
              /\ state' = "OPEN"
              /\ Len(recent') = Threshold /\ recent'[1] <= Window
<1> DEFINE f == Append(failures, 0)
           g == Append(recent, 0)
           kept == Prune(f)
           last == Last(g, Threshold)
<1> USE ParameterAssumption
<1>1. f \in Seq(Ages) /\ Len(f) = Len(failures) + 1 /\ f[Len(f)] = 0
  BY DEF IInv, TypeOK, Ages
<1>2. g \in Seq(Ages) /\ Len(g) = Len(recent) + 1 /\ g[Len(g)] = 0
  BY DEF IInv, TypeOK, Ages
<1>3. Suffix(f, g)
  <2>1. /\ failures \in Seq(Ages) /\ recent \in Seq(Ages) /\ 0 \in Ages
        /\ Suffix(failures, recent)
    BY DEF IInv, TypeOK, Ages
  <2>2. /\ Len(failures) \in Nat /\ Len(recent) \in Nat
        /\ Len(failures) <= Len(recent)
    BY <2>1 DEF Suffix
  <2>3. \A i \in 1 .. Len(failures) : f[i] = failures[i]
    BY <2>1
  <2>4. \A i \in 1 .. Len(recent) : g[i] = recent[i]
    BY <2>1
  <2> SUFFICES ASSUME NEW i \in 1 .. Len(failures) + 1
               PROVE  f[i] = g[Len(recent) + 1 - (Len(failures) + 1) + i]
    BY <1>1, <1>2, <2>2 DEF Suffix
  <2>5. CASE i = Len(failures) + 1
    BY <1>1, <1>2, <2>2, <2>5
  <2>6. CASE i # Len(failures) + 1
    <3>1. /\ i \in 1 .. Len(failures)
          /\ Len(recent) - Len(failures) + i \in 1 .. Len(recent)
          /\ Len(recent) + 1 - (Len(failures) + 1) + i
               = Len(recent) - Len(failures) + i
      BY <2>2, <2>6
    <3> QED
      BY <2>1, <2>3, <2>4, <3>1 DEF Suffix
  <2> QED
    BY <2>5, <2>6
<1>4. PICK n \in 0 .. Len(f) :
        /\ kept \in Seq(Ages) /\ Len(kept) = Len(f) - n
        /\ \A i \in 1 .. Len(f) - n : kept[i] = f[i + n]
        /\ n = 0 => \A i \in 1 .. Len(f) : f[i] <= Window
  BY <1>1, PruneLemma
<1>5. /\ last \in Seq(Ages) /\ Suffix(last, g)
      /\ Len(last) = (IF Len(g) <= Threshold THEN Len(g) ELSE Threshold)
  BY <1>2, LastLemma
<1>6. /\ call' = [call EXCEPT ![c] = "out"]
      /\ recent' = last
      /\ IF state = "HALF_OPEN" \/ Len(kept) >= Threshold
         THEN state' = "OPEN" /\ openAge' = 0 /\ failures' = <<>>
         ELSE failures' = kept /\ UNCHANGED <<state, openAge>>
  BY DEF Fail
<1>7. Ordered(f)
  BY DEF IInv, TypeOK, FailuresBounded, Ordered
<1>8. Len(failures) \in Nat /\ Len(recent) \in Nat /\ Len(failures) < Threshold
      /\ Len(recent) <= Threshold
  BY DEF IInv, TypeOK, FailuresBounded
<1> HIDE DEF f, g, kept, last
<1>9. Ordered(kept)
  <2> SUFFICES ASSUME NEW i \in 1 .. Len(f) - n, NEW k \in 1 .. Len(f) - n, i < k
               PROVE  kept[i] >= kept[k]
    BY <1>1, <1>4 DEF Ordered
  <2>1. /\ i + n \in 1 .. Len(f) /\ k + n \in 1 .. Len(f) /\ i + n < k + n
        /\ kept[i] = f[i + n] /\ kept[k] = f[k + n]
    BY <1>1, <1>4, <1>8
  <2> QED
    BY <1>1, <1>7, <2>1 DEF Ordered
<1>10. Suffix(kept, f)
  BY <1>1, <1>4, <1>8 DEF Suffix
<1>11. Len(kept) <= Len(last)
  BY <1>1, <1>2, <1>3, <1>4, <1>5, <1>8 DEF Suffix
<1>12. Suffix(kept, last)
  <2> SUFFICES ASSUME NEW i \in 1 .. Len(kept)
               PROVE  kept[i] = last[Len(last) - Len(kept) + i]
    BY <1>11 DEF Suffix
  <2>1. kept[i] = f[i + n] /\ i + n \in 1 .. Len(f)
    BY <1>1, <1>4, <1>8
  <2>2. f[i + n] = g[Len(g) - Len(f) + (i + n)]
    BY <1>3, <2>1 DEF Suffix
  <2> DEFINE m == Len(last) - Len(kept) + i
  <2>3. m \in 1 .. Len(last)
    BY <1>4, <1>5, <1>11
  <2>4. last[m] = g[Len(g) - Len(last) + m]
    BY <1>5, <2>3 DEF Suffix
  <2>5. Len(g) - Len(last) + m = Len(g) - Len(f) + (i + n)
    <3>1. /\ Len(g) \in Nat /\ Len(f) \in Nat /\ Len(last) \in Nat
          /\ Len(kept) = Len(f) - n
      BY <1>1, <1>2, <1>4, <1>5, <1>8
    <3> QED
      BY <3>1
  <2> QED
    BY <2>1, <2>2, <2>4, <2>5
<1>13. Len(last) <= Threshold /\ Len(last) \in Nat
  BY <1>2, <1>5, <1>8
<1>14. TypeOK'
  <2>1. failures' \in Seq(Ages)
    <3>1. <<>> \in Seq(Ages)
      OBVIOUS
    <3> QED
      BY <1>4, <1>6, <3>1
  <2>2. /\ state' \in {"CLOSED", "OPEN", "HALF_OPEN"}
        /\ openAge' \in 0 .. OpenDuration
        /\ call' \in [Calls -> {"out", "plain", "probe"}]
    BY <1>6 DEF IInv, TypeOK
  <2> QED
    BY <1>5, <1>6, <2>1, <2>2 DEF TypeOK, Ages
<1>15. FailuresBounded' /\ Suffix(failures, recent)' /\ Len(recent') <= Threshold
  <2>1. CASE state = "HALF_OPEN" \/ Len(kept) >= Threshold
    <3>1. failures' = <<>> /\ recent' = last
      BY <1>6, <2>1
    <3>2. Len(<<>>) = 0 /\ DOMAIN <<>> = {}
      OBVIOUS
    <3> QED
      BY <1>13, <3>1, <3>2 DEF FailuresBounded, Suffix
  <2>2. CASE ~(state = "HALF_OPEN" \/ Len(kept) >= Threshold)
    <3>1. failures' = kept /\ recent' = last
      BY <1>6, <2>2
    <3>2. Len(kept) \in Nat /\ Len(kept) < Threshold
      BY <1>4, <2>2
    <3>3. FailuresBounded'
      BY <1>9, <3>1, <3>2 DEF FailuresBounded, Ordered
    <3> QED
      BY <1>12, <1>13, <3>1, <3>3 DEF Suffix
  <2> QED
    BY <2>1, <2>2
<1>16. ASSUME state = "CLOSED", state' # "CLOSED"
       PROVE  /\ state' = "OPEN"
              /\ Len(recent') = Threshold /\ recent'[1] <= Window
  <2>1. Len(kept) >= Threshold /\ state' = "OPEN"
    BY <1>6, <1>16
  <2>2. n = 0 /\ Len(f) = Threshold /\ Len(last) = Threshold
    BY <1>1, <1>4, <1>8, <1>11, <1>13, <2>1
  <2>3. kept[1] = f[1] /\ f[1] <= Window
    BY <1>4, <2>2
  <2>4. last[1] = kept[1]
    BY <1>12, <1>4, <2>2 DEF Suffix
  <2> QED
    BY <1>6, <2>1, <2>2, <2>3, <2>4
<1> QED
  BY <1>14, <1>15, <1>16 DEF IInv

\* Time passes for deque and history alike.
LEMMA TickLemma ==
  ASSUME IInv, Tick
  PROVE  IInv' /\ UNCHANGED state
<1> USE ParameterAssumption
<1>1. \A h \in Seq(Ages) : /\ Older(h) \in Seq(Ages) /\ Len(Older(h)) = Len(h)
                           /\ DOMAIN Older(h) = DOMAIN h
                           /\ \A i \in DOMAIN h : Older(h)[i] = Plus1(h[i], Window + 1)
  BY DEF Older, Plus1, Ages
<1>2. /\ failures \in Seq(Ages) /\ failures' = Older(failures)
      /\ recent \in Seq(Ages) /\ recent' = Older(recent)
      /\ openAge' = Plus1(openAge, OpenDuration) /\ UNCHANGED <<state, call>>
  BY DEF IInv, TypeOK, Tick, Ages
<1>3. TypeOK'
  BY <1>1, <1>2 DEF IInv, TypeOK, Plus1, Ages
<1>4. FailuresBounded'
  <2>1. \A a, b \in Ages : a >= b => Plus1(a, Window + 1) >= Plus1(b, Window + 1)
    BY DEF Plus1, Ages
  <2> QED
    BY <1>1, <1>2, <2>1 DEF IInv, FailuresBounded
<1>5. Suffix(failures, recent)'
  <2>1. Suffix(failures, recent) /\ Len(failures) \in Nat /\ Len(recent) \in Nat
    BY <1>2 DEF IInv
  <2>2. Len(failures') = Len(failures) /\ Len(recent') = Len(recent)
    BY <1>1, <1>2
  <2> SUFFICES ASSUME NEW i \in 1 .. Len(failures)
               PROVE  failures'[i] = recent'[Len(recent) - Len(failures) + i]
    BY <2>1, <2>2 DEF Suffix
  <2>3. /\ i \in DOMAIN failures
        /\ Len(recent) - Len(failures) + i \in DOMAIN recent
    BY <1>2, <2>1 DEF Suffix
  <2>4. failures[i] = recent[Len(recent) - Len(failures) + i]
    BY <2>1 DEF Suffix
  <2> QED
    BY <1>1, <1>2, <2>3, <2>4
<1> QED
  BY <1>1, <1>2, <1>3, <1>4, <1>5 DEF IInv

\* Every step keeps the invariant, and leaves CLOSED only on evidence.
LEMMA StepLemma ==
  ASSUME IInv, [Next]_vars
  PROVE  /\ IInv'
         /\ state = "CLOSED" /\ state' # "CLOSED" =>
              /\ state' = "OPEN"
              /\ Len(recent') = Threshold /\ recent'[1] <= Window
<1>1. CASE UNCHANGED vars
  BY <1>1 DEF IInv, TypeOK, FailuresBounded, Suffix, vars
<1>2. ASSUME NEW c \in Calls, Admit(c) \/ Succeed(c) \/ Cancel(c)
      PROVE  IInv' /\ (state = "CLOSED" => state' = "CLOSED")
  <2>1. /\ failures' = failures \/ failures' = <<>>
        /\ UNCHANGED recent
        /\ state = "CLOSED" => state' = "CLOSED"
    BY <1>2 DEF Admit, Succeed, Cancel
  <2>2. failures' \in Seq(Ages) /\ recent' \in Seq(Ages)
    <3>1. <<>> \in Seq(Ages)
      OBVIOUS
    <3>2. failures \in Seq(Ages) /\ recent \in Seq(Ages)
      BY DEF IInv, TypeOK, Ages
    <3> QED
      BY <2>1, <3>1, <3>2
  <2>3. /\ state' \in {"CLOSED", "OPEN", "HALF_OPEN"}
        /\ openAge' \in 0 .. OpenDuration
        /\ call' \in [Calls -> {"out", "plain", "probe"}]
    BY <1>2 DEF IInv, TypeOK, Admit, Succeed, Cancel
  <2>4. TypeOK'
    BY <2>2, <2>3 DEF TypeOK, Ages
  <2>5. Len(<<>>) = 0 /\ DOMAIN <<>> = {} /\ Len(recent) \in Nat
    BY DEF IInv, TypeOK
  <2>6. FailuresBounded' /\ Suffix(failures, recent)'
    BY <2>1, <2>5, ParameterAssumption DEF IInv, FailuresBounded, Suffix
  <2> QED
    BY <2>1, <2>4, <2>6 DEF IInv
<1> QED
  BY <1>1, <1>2, FailLemma, TickLemma DEF Next, Return

\* Type correctness and the shape of the deque are invariant.
THEOREM Invariance == Spec => []IInv
<1>1. IInv /\ [Next]_vars => IInv'
  BY StepLemma
<1> QED
  BY <1>1, InitIInv, PTL DEF Spec

\* Every variable keeps its type.
THEOREM TypeCorrect == Spec => []TypeOK
<1>1. IInv => TypeOK
  BY DEF IInv
<1> QED
  BY <1>1, Invariance, PTL

\* The deque stays below the threshold and in the order of time.
THEOREM DequeBounded == Spec => []FailuresBounded
<1>1. IInv => FailuresBounded
  BY DEF IInv
<1> QED
  BY <1>1, Invariance, PTL

\* A closed breaker opens only after failure_threshold failures within
\* failure_window_s (ADR-005), for every threshold, window and schedule.
THEOREM OpeningNeedsEvidence == Spec => OpensOnEvidence
<1>1. IInv /\ [Next]_vars =>
        [state = "CLOSED" /\ state' # "CLOSED" =>
           /\ state' = "OPEN"
           /\ Len(recent') = Threshold /\ recent'[1] <= Window]_vars
  BY StepLemma
<1> QED
  BY <1>1, Invariance, PTL DEF Spec, OpensOnEvidence
=============================================================================
