-------------------------- MODULE Tele2Crawl_proofs --------------------------
(***************************************************************************)
(* Theorems about Tele2RateLimiter, for any number of processes and        *)
(* callers and any interval, step and cap; and about Tele2Crawl, for any   *)
(* number of other callers, any pace, any page count and any number of     *)
(* details.                                                                *)
(*                                                                         *)
(* Why the waits suffice although they are computed once: the lock has one *)
(* holder (LockIsSound), so nobody else moves _last_started or             *)
(* _backoff_until while the holder sleeps, and what is left of its sleep   *)
(* covers what is left of the wait (SleepsCover).  A backoff served and    *)
(* the time since the refusal add up to the delay (DelayCovered).          *)
(*                                                                         *)
(* Why a wide account is never crawled to its end: every request of the    *)
(* first page but the first goes out Interval after an earlier one         *)
(* (SleepsCover), so after n details n * Interval has passed since the     *)
(* window was computed (OnSchedule), a second or more when page two is     *)
(* due.                                                                    *)
(***************************************************************************)
EXTENDS Tele2Crawl, TLAPS

-----------------------------------------------------------------------------
(* The limiter. *)

SleepsCover ==
  \A c \in Calls :
    /\ stage[c] = "backoff" => backoff[ProcOf[c]] <= sleep[c]
    /\ stage[c] = "pacing" =>
         /\ backoff[ProcOf[c]] = 0
         /\ Interval - sinceStart[ProcOf[c]] <= sleep[c]
    /\ stage[c] = "sent" => backoff[ProcOf[c]] = 0

DelayCovered == \A p \in Procs : delay[p] <= quiet[p] + backoff[p]

IInv == TypeOK /\ LockIsSound /\ SleepsCover /\ DelayCovered

\* A queue without one of its waiters.
LEMMA WithoutLemma ==
  ASSUME NEW q \in Seq(Calls), NEW i \in DOMAIN q
  PROVE  /\ Without(q, i) \in Seq(Calls)
         /\ Len(Without(q, i)) = Len(q) - 1
         /\ \A k \in 1 .. Len(q) - 1 :
              Without(q, i)[k] = IF k < i THEN q[k] ELSE q[k + 1]
<1>1. Len(q) \in Nat /\ DOMAIN q = 1 .. Len(q) /\ i \in 1 .. Len(q)
  OBVIOUS
<1>2. \A k \in 1 .. Len(q) - 1 : k \in 1 .. Len(q) /\ k + 1 \in 1 .. Len(q)
  BY <1>1
<1>3. \A k \in 1 .. Len(q) - 1 : (IF k < i THEN q[k] ELSE q[k + 1]) \in Calls
  BY <1>1, <1>2
<1>4. Without(q, i) \in [1 .. Len(q) - 1 -> Calls]
  BY <1>3 DEF Without
<1>5. Len(q) - 1 \in Nat
  BY <1>1
<1> QED
  BY <1>4, <1>5 DEF Without

\* The initial state.
LEMMA InitInv == Init => IInv
<1> SUFFICES ASSUME Init PROVE IInv
  OBVIOUS
<1> USE LimiterAssumption
<1>0. <<>> \in Seq(Calls)
  OBVIOUS
<1>1. TypeOK
  BY <1>0 DEF Init, TypeOK, Stages
<1>2. LockIsSound
  BY DEF Init, LockIsSound, HasLock, Holders
<1>3. SleepsCover /\ DelayCovered
  BY DEF Init, SleepsCover, DelayCovered
<1> QED
  BY <1>1, <1>2, <1>3 DEF IInv

\* Every step keeps the types.
LEMMA TypeStep == TypeOK /\ [Next]_vars => TypeOK'
<1> SUFFICES ASSUME TypeOK, [Next]_vars PROVE TypeOK'
  OBVIOUS
<1> USE LimiterAssumption DEF TypeOK, Stages, Holders
<1>1. CASE Tick
  <2>1. sleep' \in [Calls -> Nat]
    <3>1. \A c \in Calls : Less1(sleep[c]) \in Nat
      BY DEF Less1
    <3> QED
      BY <3>1, <1>1 DEF Tick
  <2>2. sinceStart' \in [Procs -> 0 .. Interval]
    <3>1. \A p \in Procs : Smaller(sinceStart[p] + 1, Interval) \in 0 .. Interval
      BY DEF Smaller
    <3> QED
      BY <3>1, <1>1 DEF Tick
  <2>3. backoff' \in [Procs -> 0 .. MaxDelay]
    <3>1. \A p \in Procs : Less1(backoff[p]) \in 0 .. MaxDelay
      BY DEF Less1
    <3> QED
      BY <3>1, <1>1 DEF Tick
  <2>4. quiet' \in [Procs -> 0 .. MaxDelay]
    <3>1. \A p \in Procs : Smaller(quiet[p] + 1, MaxDelay) \in 0 .. MaxDelay
      BY DEF Smaller
    <3> QED
      BY <3>1, <1>1 DEF Tick
  <2> QED
    BY <2>1, <2>2, <2>3, <2>4, <1>1 DEF Tick
<1>2. ASSUME NEW c \in Calls, Enter(c) PROVE TypeOK'
  BY <1>2 DEF Enter, Goto, limiter
<1>3. ASSUME NEW c \in Calls, Acquire(c) PROVE TypeOK'
  <2>1. queue' \in [Procs -> Seq(Calls)]
    BY <1>3 DEF Acquire
  <2>2. backoff[ProcOf[c]] \in Nat
    OBVIOUS
  <2> QED
    BY <1>3, <2>1, <2>2 DEF Acquire, Goto, limiter
<1>4. ASSUME NEW c \in Calls, Pace(c) PROVE TypeOK'
  <2>1. Interval - sinceStart[ProcOf[c]] \in Nat
    OBVIOUS
  <2> QED
    BY <1>4, <2>1 DEF Pace, Goto, limiter
<1>5. ASSUME NEW c \in Calls, Start(c) PROVE TypeOK'
  BY <1>5 DEF Start, Goto
<1>6. ASSUME NEW c \in Calls, RateLimited(c) PROVE TypeOK'
  <2>1. Smaller(delay[ProcOf[c]] + Step, MaxDelay) \in 0 .. MaxDelay
    BY DEF Smaller
  <2>2. delay' \in [Procs -> 0 .. MaxDelay] /\ ProcOf[c] \in Procs
    BY <1>6, <2>1 DEF RateLimited
  <2>3. backoff' \in [Procs -> 0 .. MaxDelay]
    BY <1>6, <2>2 DEF RateLimited
  <2> QED
    BY <1>6, <2>2, <2>3 DEF RateLimited, Leave, Goto
<1>7. ASSUME NEW c \in Calls, Succeed(c) PROVE TypeOK'
  <2>1. CASE delay[ProcOf[c]] <= Step
    <3>1. /\ delay' = [delay EXCEPT ![ProcOf[c]] = 0]
          /\ backoff' = [backoff EXCEPT ![ProcOf[c]] = 0]
      BY <1>7, <2>1 DEF Succeed
    <3>2. /\ delay' \in [Procs -> 0 .. MaxDelay]
          /\ backoff' \in [Procs -> 0 .. MaxDelay]
      BY <3>1
    <3> QED
      BY <1>7, <3>2 DEF Succeed, Leave, Goto
  <2>2. CASE ~(delay[ProcOf[c]] <= Step)
    <3>1. delay[ProcOf[c]] - Step \in 0 .. MaxDelay
      BY <2>2
    <3> QED
      BY <1>7, <2>2, <3>1 DEF Succeed, Leave, Goto
  <2> QED
    BY <2>1, <2>2
<1>8. ASSUME NEW c \in Calls, Fail(c) PROVE TypeOK'
  BY <1>8 DEF Fail, Leave, Goto, limiter
<1>9. ASSUME NEW c \in Calls, CancelWaiter(c) PROVE TypeOK'
  <2>1. PICK i \in DOMAIN queue[ProcOf[c]] :
          queue' = [queue EXCEPT ![ProcOf[c]] = Without(@, i)]
    BY <1>9 DEF CancelWaiter
  <2>2. Without(queue[ProcOf[c]], i) \in Seq(Calls)
    BY <2>1, WithoutLemma
  <2>3. queue' \in [Procs -> Seq(Calls)]
    BY <2>1, <2>2
  <2> QED
    BY <1>9, <2>3 DEF CancelWaiter, Goto, limiter
<1>10. ASSUME NEW c \in Calls, CancelHolder(c) PROVE TypeOK'
  BY <1>10 DEF CancelHolder, Goto, limiter
<1>11. CASE UNCHANGED vars
  BY <1>11 DEF vars, limiter
<1> QED
  BY <1>1, <1>2, <1>3, <1>4, <1>5, <1>6, <1>7, <1>8, <1>9, <1>10, <1>11
  DEF Next, Proceed, Return, Cancel

\* The holder of the lock moves on, or leaves; the queue stays.
LEMMA HolderMoves ==
  ASSUME TypeOK, LockIsSound, NEW c \in Calls, HasLock(c),
         NEW s \in Stages, s # "queued",
         stage' = [stage EXCEPT ![c] = s], UNCHANGED queue
  PROVE  LockIsSound'
<1>1. stage[c] # "queued"
  BY DEF HasLock, Holders
<1>2. \A d \in Calls : stage'[d] = IF d = c THEN s ELSE stage[d]
  BY DEF TypeOK
<1>3. \A d \in Calls : HasLock(d)' => HasLock(d)
  BY <1>2 DEF HasLock
<1>4. \A d, e \in Calls :
        ProcOf[d] = ProcOf[e] /\ HasLock(d)' /\ HasLock(e)' => d = e
  BY <1>3 DEF LockIsSound
<1>5. \A p \in Procs : \A i \in DOMAIN queue[p] : queue[p][i] \in Calls
  BY DEF TypeOK
<1>6. \A p \in Procs : \A i, k \in DOMAIN queue[p] :
        /\ stage'[queue[p][i]] = "queued" /\ ProcOf[queue[p][i]] = p
        /\ queue[p][i] = queue[p][k] => i = k
  BY <1>1, <1>2, <1>5 DEF LockIsSound
<1>7. \A d \in Calls : stage'[d] = "queued" =>
        \E i \in DOMAIN queue[ProcOf[d]] : queue[ProcOf[d]][i] = d
  BY <1>2 DEF LockIsSound
<1> QED
  BY <1>4, <1>6, <1>7 DEF LockIsSound

\* Every step keeps the lock sound.
LEMMA LockStep == TypeOK /\ LockIsSound /\ [Next]_vars => LockIsSound'
<1> SUFFICES ASSUME TypeOK, LockIsSound, [Next]_vars PROVE LockIsSound'
  OBVIOUS
<1> USE LimiterAssumption
<1>0. \A p \in Procs : queue[p] \in Seq(Calls) /\ DOMAIN queue[p] = 1 .. Len(queue[p])
  BY DEF TypeOK
<1>1. CASE Tick
  BY <1>1 DEF Tick, LockIsSound, HasLock
<1>2. ASSUME NEW c \in Calls, Enter(c) PROVE LockIsSound'
  <2> DEFINE p == ProcOf[c]
             n == Len(queue[p])
  <2>1. p \in Procs /\ n \in Nat /\ stage[c] = "out"
    BY <1>0, <1>2 DEF Enter
  <2>2. \A d \in Calls : stage'[d] = IF d = c THEN "queued" ELSE stage[d]
    BY <1>2 DEF Enter, Goto, TypeOK
  <2>3. \A q \in Procs : q # p => queue'[q] = queue[q]
    BY <1>2 DEF Enter, TypeOK
  <2>4. /\ queue'[p] = Append(queue[p], c)
        /\ DOMAIN queue'[p] = 1 .. n + 1
        /\ queue'[p][n + 1] = c
        /\ \A i \in 1 .. n : queue'[p][i] = queue[p][i]
    BY <1>0, <1>2, <2>1 DEF Enter, TypeOK
  <2>5. \A d, e \in Calls :
          ProcOf[d] = ProcOf[e] /\ HasLock(d)' /\ HasLock(e)' => d = e
    BY <2>2 DEF LockIsSound, HasLock, Holders
  <2>6. \A q \in Procs : \A i \in DOMAIN queue[q] :
          queue[q][i] \in Calls /\ queue[q][i] # c
    BY <1>0, <2>1 DEF LockIsSound
  <2>7. \A q \in Procs : \A i, k \in DOMAIN queue'[q] :
          /\ stage'[queue'[q][i]] = "queued" /\ ProcOf[queue'[q][i]] = q
          /\ queue'[q][i] = queue'[q][k] => i = k
    <3> SUFFICES ASSUME NEW q \in Procs, NEW i \in DOMAIN queue'[q],
                        NEW k \in DOMAIN queue'[q]
                 PROVE  /\ stage'[queue'[q][i]] = "queued"
                        /\ ProcOf[queue'[q][i]] = q
                        /\ queue'[q][i] = queue'[q][k] => i = k
      OBVIOUS
    <3>1. CASE q # p
      BY <2>2, <2>3, <2>6, <3>1 DEF LockIsSound
    <3>2. CASE q = p
      <4>1. i \in 1 .. n \/ i = n + 1
        BY <2>1, <2>4, <3>2
      <4>2. k \in 1 .. n \/ k = n + 1
        BY <2>1, <2>4, <3>2
      <4>3. \A m \in 1 .. n : queue[p][m] # c /\ stage[queue[p][m]] = "queued"
                              /\ ProcOf[queue[p][m]] = p /\ queue[p][m] \in Calls
        BY <1>0, <2>1, <2>6 DEF LockIsSound
      <4>4. \A m, l \in 1 .. n : queue[p][m] = queue[p][l] => m = l
        BY <1>0, <2>1 DEF LockIsSound
      <4> QED
        BY <2>2, <2>4, <3>2, <4>1, <4>2, <4>3, <4>4
    <3> QED
      BY <3>1, <3>2
  <2>8. \A d \in Calls : stage'[d] = "queued" =>
          \E i \in DOMAIN queue'[ProcOf[d]] : queue'[ProcOf[d]][i] = d
    <3> SUFFICES ASSUME NEW d \in Calls, stage'[d] = "queued"
                 PROVE  \E i \in DOMAIN queue'[ProcOf[d]] : queue'[ProcOf[d]][i] = d
      OBVIOUS
    <3>1. CASE d = c
      <4>1. n + 1 \in DOMAIN queue'[p]
        BY <2>1, <2>4
      <4> QED
        BY <2>4, <3>1, <4>1
    <3>2. CASE d # c
      <4>1. PICK i \in DOMAIN queue[ProcOf[d]] : queue[ProcOf[d]][i] = d
        BY <2>2, <3>2 DEF LockIsSound
      <4>2. CASE ProcOf[d] = p
        <5>1. i \in 1 .. n /\ i \in 1 .. n + 1
          BY <1>0, <2>1, <4>1, <4>2
        <5> QED
          BY <2>4, <4>1, <4>2, <5>1
      <4>3. CASE ProcOf[d] # p
        BY <2>3, <4>1, <4>3
      <4> QED
        BY <4>2, <4>3
    <3> QED
      BY <3>1, <3>2
  <2> QED
    BY <2>5, <2>7, <2>8 DEF LockIsSound
<1>3. ASSUME NEW c \in Calls, Acquire(c) PROVE LockIsSound'
  <2> DEFINE p == ProcOf[c]
             n == Len(queue[p])
  <2>1. p \in Procs /\ n \in Nat /\ n > 0 /\ stage[c] = "queued"
        /\ queue[p][1] = c /\ LockFree(p)
    BY <1>0, <1>3 DEF Acquire
  <2>2. \A d \in Calls : stage'[d] = IF d = c THEN "backoff" ELSE stage[d]
    BY <1>3 DEF Acquire, Goto, TypeOK
  <2>3. \A q \in Procs : q # p => queue'[q] = queue[q]
    BY <1>3 DEF Acquire, TypeOK
  <2>4. /\ queue'[p] = Tail(queue[p])
        /\ DOMAIN queue'[p] = 1 .. n - 1
        /\ \A i \in 1 .. n - 1 : queue'[p][i] = queue[p][i + 1]
    BY <1>0, <1>3, <2>1 DEF Acquire, TypeOK
  <2>5. \A d, e \in Calls :
          ProcOf[d] = ProcOf[e] /\ HasLock(d)' /\ HasLock(e)' => d = e
    BY <2>1, <2>2 DEF LockIsSound, HasLock, LockFree
  <2>6. \A q \in Procs : \A i \in DOMAIN queue[q] : queue[q][i] \in Calls
    BY <1>0
  <2>7. \A q \in Procs : \A i, k \in DOMAIN queue'[q] :
          /\ stage'[queue'[q][i]] = "queued" /\ ProcOf[queue'[q][i]] = q
          /\ queue'[q][i] = queue'[q][k] => i = k
    <3> SUFFICES ASSUME NEW q \in Procs, NEW i \in DOMAIN queue'[q],
                        NEW k \in DOMAIN queue'[q]
                 PROVE  /\ stage'[queue'[q][i]] = "queued"
                        /\ ProcOf[queue'[q][i]] = q
                        /\ queue'[q][i] = queue'[q][k] => i = k
      OBVIOUS
    <3>1. CASE q # p
      <4>1. queue[q][i] # c
        BY <2>3, <3>1 DEF LockIsSound
      <4> QED
        BY <2>2, <2>3, <2>6, <3>1, <4>1 DEF LockIsSound
    <3>2. CASE q = p
      <4>1. i \in 1 .. n - 1 /\ k \in 1 .. n - 1
        BY <2>4, <3>2
      <4>2. i + 1 \in DOMAIN queue[p] /\ k + 1 \in DOMAIN queue[p]
            /\ 1 \in DOMAIN queue[p] /\ i + 1 # 1
        BY <1>0, <2>1, <4>1
      <4>3. queue[p][i + 1] # c
        BY <2>1, <4>2 DEF LockIsSound
      <4>4. stage[queue[p][i + 1]] = "queued" /\ ProcOf[queue[p][i + 1]] = p
            /\ (queue[p][i + 1] = queue[p][k + 1] => i + 1 = k + 1)
        BY <2>1, <4>2 DEF LockIsSound
      <4>5. queue[p][i + 1] \in Calls
        BY <2>1, <2>6, <4>2
      <4>6. i + 1 = k + 1 => i = k
        BY <4>1
      <4> QED
        BY <2>2, <2>4, <3>2, <4>1, <4>3, <4>4, <4>5, <4>6
    <3> QED
      BY <3>1, <3>2
  <2>8. \A d \in Calls : stage'[d] = "queued" =>
          \E i \in DOMAIN queue'[ProcOf[d]] : queue'[ProcOf[d]][i] = d
    <3> SUFFICES ASSUME NEW d \in Calls, stage'[d] = "queued"
                 PROVE  \E i \in DOMAIN queue'[ProcOf[d]] : queue'[ProcOf[d]][i] = d
      OBVIOUS
    <3>1. d # c /\ stage[d] = "queued"
      BY <2>2
    <3>2. PICK i \in DOMAIN queue[ProcOf[d]] : queue[ProcOf[d]][i] = d
      BY <3>1 DEF LockIsSound
    <3>3. CASE ProcOf[d] = p
      <4>1. i \in 1 .. n /\ i # 1
        BY <1>0, <2>1, <3>1, <3>2, <3>3
      <4>2. i - 1 \in 1 .. n - 1 /\ (i - 1) + 1 = i
        BY <2>1, <4>1
      <4>3. queue'[p][i - 1] = d
        BY <2>4, <3>2, <3>3, <4>2
      <4> QED
        BY <2>4, <3>3, <4>2, <4>3
    <3>4. CASE ProcOf[d] # p
      BY <2>3, <3>2, <3>4
    <3> QED
      BY <3>3, <3>4
  <2> QED
    BY <2>5, <2>7, <2>8 DEF LockIsSound
<1>4. ASSUME NEW c \in Calls, Pace(c) \/ Start(c) PROVE LockIsSound'
  <2>1. HasLock(c) /\ UNCHANGED queue
    BY <1>4 DEF Pace, Start, HasLock, Holders
  <2>2. PICK s \in {"pacing", "sent"} : stage' = [stage EXCEPT ![c] = s]
    BY <1>4 DEF Pace, Start, Goto
  <2>3. s \in Stages /\ s # "queued"
    BY <2>2 DEF Stages, Holders
  <2> QED
    BY <2>1, <2>2, <2>3, HolderMoves
<1>5. ASSUME NEW c \in Calls, Return(c) \/ CancelHolder(c) PROVE LockIsSound'
  <2>1. HasLock(c) /\ UNCHANGED queue /\ stage' = [stage EXCEPT ![c] = "out"]
    BY <1>5 DEF Return, RateLimited, Succeed, Fail, CancelHolder, Leave, Goto,
                HasLock, Holders
  <2>2. "out" \in Stages /\ "out" # "queued"
    BY DEF Stages
  <2> QED
    BY <2>1, <2>2, HolderMoves
<1>7. CASE UNCHANGED vars
  BY <1>7 DEF vars, LockIsSound, HasLock
<1>8. ASSUME NEW c \in Calls, CancelWaiter(c) PROVE LockIsSound'
  <2> DEFINE p == ProcOf[c]
             n == Len(queue[p])
  <2>1. p \in Procs /\ n \in Nat /\ stage[c] = "queued"
    BY <1>0, <1>8 DEF CancelWaiter
  <2>2. PICK w \in DOMAIN queue[p] :
          queue[p][w] = c /\ queue' = [queue EXCEPT ![p] = Without(@, w)]
    BY <1>8 DEF CancelWaiter
  <2>3. w \in 1 .. n /\ w \in Nat
    BY <1>0, <2>1, <2>2
  <2>4. \A d \in Calls : stage'[d] = IF d = c THEN "out" ELSE stage[d]
    BY <1>8 DEF CancelWaiter, Goto, TypeOK
  <2>5. \A q \in Procs : q # p => queue'[q] = queue[q]
    BY <2>2 DEF TypeOK
  <2>6. /\ DOMAIN queue'[p] = 1 .. n - 1
        /\ \A i \in 1 .. n - 1 :
             queue'[p][i] = IF i < w THEN queue[p][i] ELSE queue[p][i + 1]
    BY <2>1, <2>2 DEF TypeOK, Without
  <2>7. \A d, e \in Calls :
          ProcOf[d] = ProcOf[e] /\ HasLock(d)' /\ HasLock(e)' => d = e
    BY <2>4 DEF LockIsSound, HasLock, Holders
  <2>8. \A q \in Procs : \A i \in DOMAIN queue[q] : queue[q][i] \in Calls
    BY <1>0
  <2>9. \A q \in Procs : \A i, k \in DOMAIN queue'[q] :
          /\ stage'[queue'[q][i]] = "queued" /\ ProcOf[queue'[q][i]] = q
          /\ queue'[q][i] = queue'[q][k] => i = k
    <3> SUFFICES ASSUME NEW q \in Procs, NEW i \in DOMAIN queue'[q],
                        NEW k \in DOMAIN queue'[q]
                 PROVE  /\ stage'[queue'[q][i]] = "queued"
                        /\ ProcOf[queue'[q][i]] = q
                        /\ queue'[q][i] = queue'[q][k] => i = k
      OBVIOUS
    <3>1. CASE q # p
      <4>1. queue[q][i] # c
        BY <2>5, <3>1 DEF LockIsSound
      <4> QED
        BY <2>4, <2>5, <2>8, <3>1, <4>1 DEF LockIsSound
    <3>2. CASE q = p
      <4> DEFINE a == IF i < w THEN i ELSE i + 1
                 b == IF k < w THEN k ELSE k + 1
      <4>1. i \in 1 .. n - 1 /\ k \in 1 .. n - 1
        BY <2>6, <3>2
      <4>2. a \in 1 .. n /\ b \in 1 .. n /\ a # w /\ (a = b => i = k)
        BY <2>1, <2>3, <4>1
      <4>3. queue'[p][i] = queue[p][a] /\ queue'[p][k] = queue[p][b]
        BY <2>6, <4>1
      <4>4. a \in DOMAIN queue[p] /\ b \in DOMAIN queue[p]
        BY <1>0, <2>1, <4>2
      <4> HIDE DEF a, b
      <4>5. queue[p][a] # c
        BY <2>1, <2>2, <4>2, <4>4 DEF LockIsSound
      <4>6. stage[queue[p][a]] = "queued" /\ ProcOf[queue[p][a]] = p
            /\ (queue[p][a] = queue[p][b] => a = b)
        BY <2>1, <4>4 DEF LockIsSound
      <4>7. queue[p][a] \in Calls
        BY <2>1, <2>8, <4>4
      <4> QED
        BY <2>4, <3>2, <4>2, <4>3, <4>5, <4>6, <4>7
    <3> QED
      BY <3>1, <3>2
  <2>10. \A d \in Calls : stage'[d] = "queued" =>
           \E i \in DOMAIN queue'[ProcOf[d]] : queue'[ProcOf[d]][i] = d
    <3> SUFFICES ASSUME NEW d \in Calls, stage'[d] = "queued"
                 PROVE  \E i \in DOMAIN queue'[ProcOf[d]] : queue'[ProcOf[d]][i] = d
      OBVIOUS
    <3>1. d # c /\ stage[d] = "queued"
      BY <2>4
    <3>2. PICK i \in DOMAIN queue[ProcOf[d]] : queue[ProcOf[d]][i] = d
      BY <3>1 DEF LockIsSound
    <3>3. CASE ProcOf[d] = p
      <4>1. i \in 1 .. n /\ i # w
        BY <1>0, <2>1, <2>2, <3>1, <3>2, <3>3
      <4>2. CASE i < w
        <5>1. i \in 1 .. n - 1
          BY <2>1, <2>3, <4>1, <4>2
        <5> QED
          BY <2>6, <3>2, <3>3, <4>2, <5>1
      <4>3. CASE i > w
        <5>1. i - 1 \in 1 .. n - 1 /\ ~(i - 1 < w) /\ (i - 1) + 1 = i
          BY <2>1, <2>3, <4>1, <4>3
        <5>2. queue'[p][i - 1] = d
          BY <2>6, <3>2, <3>3, <5>1
        <5> QED
          BY <2>6, <3>3, <5>1, <5>2
      <4> QED
        BY <2>3, <4>1, <4>2, <4>3
    <3>4. CASE ProcOf[d] # p
      BY <2>5, <3>2, <3>4
    <3> QED
      BY <3>3, <3>4
  <2> QED
    BY <2>7, <2>9, <2>10 DEF LockIsSound
<1> QED
  BY <1>1, <1>2, <1>3, <1>4, <1>5, <1>7, <1>8 DEF Next, Proceed, Cancel

\* The lock holder c goes to a stage, or out; its process's limiter may change.
\* All other calls of the process are without the lock, so nothing is owed them.
LEMMA OthersCovered ==
  ASSUME TypeOK, LockIsSound, SleepsCover, NEW c \in Calls,
         HasLock(c) \/ LockFree(ProcOf[c]),
         NEW s \in Stages, NEW t \in Nat,
         stage' = [stage EXCEPT ![c] = s], sleep' = [sleep EXCEPT ![c] = t],
         \A p \in Procs : p # ProcOf[c] =>
           backoff'[p] = backoff[p] /\ sinceStart'[p] = sinceStart[p],
         s = "backoff" => backoff'[ProcOf[c]] <= t,
         s = "pacing" => /\ backoff'[ProcOf[c]] = 0
                         /\ Interval - sinceStart'[ProcOf[c]] <= t,
         s = "sent" => backoff'[ProcOf[c]] = 0
  PROVE  SleepsCover'
<1> SUFFICES ASSUME NEW d \in Calls
             PROVE  /\ stage'[d] = "backoff" => backoff'[ProcOf[d]] <= sleep'[d]
                    /\ stage'[d] = "pacing" =>
                         /\ backoff'[ProcOf[d]] = 0
                         /\ Interval - sinceStart'[ProcOf[d]] <= sleep'[d]
                    /\ stage'[d] = "sent" => backoff'[ProcOf[d]] = 0
  BY DEF SleepsCover
<1>1. stage'[c] = s /\ sleep'[c] = t
  BY DEF TypeOK
<1>2. CASE d = c
  BY <1>1, <1>2
<1>3. CASE d # c
  <2>1. stage'[d] = stage[d] /\ sleep'[d] = sleep[d]
    BY <1>3 DEF TypeOK
  <2>2. CASE ProcOf[d] = ProcOf[c]
    <3>1. ~HasLock(d)
      BY <1>3, <2>2 DEF LockIsSound, LockFree
    <3> QED
      BY <2>1, <3>1 DEF HasLock, Holders
  <2>3. CASE ProcOf[d] # ProcOf[c]
    <3>1. ProcOf[d] \in Procs
      BY LimiterAssumption
    <3>2. backoff'[ProcOf[d]] = backoff[ProcOf[d]]
          /\ sinceStart'[ProcOf[d]] = sinceStart[ProcOf[d]]
      BY <2>3, <3>1
    <3> QED
      BY <2>1, <3>2 DEF SleepsCover
  <2> QED
    BY <2>2, <2>3
<1> QED
  BY <1>2, <1>3

\* Every step keeps the holder's sleep long enough and the delay covered.
LEMMA SleepStep == IInv /\ [Next]_vars => SleepsCover' /\ DelayCovered'
<1> SUFFICES ASSUME IInv, [Next]_vars PROVE SleepsCover' /\ DelayCovered'
  OBVIOUS
<1> USE LimiterAssumption DEF IInv
<1>0. \A c \in Calls : ProcOf[c] \in Procs
  OBVIOUS
<1>1. CASE Tick
  <2>1. \A c \in Calls : sleep[c] \in Nat /\ sinceStart[ProcOf[c]] \in 0 .. Interval
                         /\ backoff[ProcOf[c]] \in Nat
    BY <1>0 DEF TypeOK
  <2>2. SleepsCover'
    <3> SUFFICES ASSUME NEW c \in Calls
                 PROVE  /\ stage'[c] = "backoff" => backoff'[ProcOf[c]] <= sleep'[c]
                        /\ stage'[c] = "pacing" =>
                             /\ backoff'[ProcOf[c]] = 0
                             /\ Interval - sinceStart'[ProcOf[c]] <= sleep'[c]
                        /\ stage'[c] = "sent" => backoff'[ProcOf[c]] = 0
      BY DEF SleepsCover
    <3>1. /\ stage'[c] = stage[c] /\ sleep'[c] = Less1(sleep[c])
          /\ backoff'[ProcOf[c]] = Less1(backoff[ProcOf[c]])
          /\ sinceStart'[ProcOf[c]] = Smaller(sinceStart[ProcOf[c]] + 1, Interval)
      BY <1>0, <1>1 DEF Tick
    <3> QED
      BY <2>1, <3>1 DEF SleepsCover, Less1, Smaller
  <2>3. DelayCovered'
    <3> SUFFICES ASSUME NEW p \in Procs PROVE delay'[p] <= quiet'[p] + backoff'[p]
      BY DEF DelayCovered
    <3>1. delay[p] \in 0 .. MaxDelay /\ quiet[p] \in 0 .. MaxDelay
          /\ backoff[p] \in 0 .. MaxDelay /\ delay[p] <= quiet[p] + backoff[p]
      BY DEF TypeOK, DelayCovered
    <3>2. delay'[p] = delay[p] /\ backoff'[p] = Less1(backoff[p])
          /\ quiet'[p] = Smaller(quiet[p] + 1, MaxDelay)
      BY <1>1 DEF Tick
    <3> QED
      BY <3>1, <3>2 DEF Less1, Smaller
  <2> QED
    BY <2>2, <2>3
<1>2. ASSUME NEW c \in Calls, Enter(c) \/ CancelWaiter(c)
      PROVE  SleepsCover' /\ DelayCovered'
  <2>1. PICK s \in {"queued", "out"} : /\ stage' = [stage EXCEPT ![c] = s]
                                       /\ sleep' = [sleep EXCEPT ![c] = 0]
    BY <1>2 DEF Enter, CancelWaiter, Goto
  <2>2. \A d \in Calls : stage'[d] = (IF d = c THEN s ELSE stage[d])
                         /\ sleep'[d] = (IF d = c THEN 0 ELSE sleep[d])
    BY <2>1 DEF TypeOK
  <2>3. UNCHANGED limiter
    BY <1>2 DEF Enter, CancelWaiter
  <2>4. SleepsCover'
    BY <2>1, <2>2, <2>3 DEF SleepsCover, limiter
  <2> QED
    BY <2>3, <2>4 DEF DelayCovered, limiter
<1>3. ASSUME NEW c \in Calls, Acquire(c) PROVE SleepsCover' /\ DelayCovered'
  <2>1. /\ LockFree(ProcOf[c]) /\ UNCHANGED limiter
        /\ stage' = [stage EXCEPT ![c] = "backoff"]
        /\ sleep' = [sleep EXCEPT ![c] = backoff[ProcOf[c]]]
    BY <1>3 DEF Acquire, Goto
  <2>2. backoff[ProcOf[c]] \in Nat /\ "backoff" \in Stages
    BY <1>0 DEF TypeOK, Stages, Holders
  <2>3. backoff' = backoff /\ sinceStart' = sinceStart
    BY <2>1 DEF limiter
  <2>4. backoff'[ProcOf[c]] <= backoff[ProcOf[c]]
    BY <2>2, <2>3
  <2>5. TypeOK /\ LockIsSound /\ SleepsCover
    OBVIOUS
  <2>6. SleepsCover'
    BY ONLY <2>1, <2>2, <2>3, <2>4, <2>5, OthersCovered
  <2> QED
    BY <2>1, <2>6 DEF DelayCovered, limiter
<1>4. ASSUME NEW c \in Calls, Pace(c) PROVE SleepsCover' /\ DelayCovered'
  <2> DEFINE t == Interval - sinceStart[ProcOf[c]]
  <2>1. /\ stage[c] = "backoff" /\ sleep[c] = 0 /\ UNCHANGED limiter
        /\ stage' = [stage EXCEPT ![c] = "pacing"]
        /\ sleep' = [sleep EXCEPT ![c] = t]
    BY <1>4 DEF Pace, Goto
  <2>2. t \in Nat /\ "pacing" \in Stages /\ backoff[ProcOf[c]] \in Nat
    BY <1>0 DEF TypeOK, Stages, Holders
  <2>3. HasLock(c) /\ backoff[ProcOf[c]] = 0
    BY <2>1, <2>2 DEF SleepsCover, HasLock, Holders
  <2>4. backoff' = backoff /\ sinceStart' = sinceStart
    BY <2>1 DEF limiter
  <2>5. backoff'[ProcOf[c]] = 0 /\ Interval - sinceStart'[ProcOf[c]] <= t
    BY <2>2, <2>3, <2>4
  <2>6. TypeOK /\ LockIsSound /\ SleepsCover
    OBVIOUS
  <2> HIDE DEF t
  <2>7. SleepsCover'
    BY ONLY <2>1, <2>2, <2>3, <2>4, <2>5, <2>6, OthersCovered
  <2> QED
    BY <2>1, <2>7 DEF DelayCovered, limiter
<1>5. ASSUME NEW c \in Calls, Start(c) PROVE SleepsCover' /\ DelayCovered'
  <2>1. /\ stage[c] = "pacing" /\ UNCHANGED <<backoff, delay, quiet>>
        /\ sinceStart' = [sinceStart EXCEPT ![ProcOf[c]] = 0]
        /\ stage' = [stage EXCEPT ![c] = "sent"]
        /\ sleep' = [sleep EXCEPT ![c] = 0]
    BY <1>5 DEF Start, Goto
  <2>2. HasLock(c) /\ backoff[ProcOf[c]] = 0 /\ "sent" \in Stages
    BY <2>1 DEF SleepsCover, HasLock, Holders, Stages
  <2>3. \A p \in Procs : p # ProcOf[c] => sinceStart'[p] = sinceStart[p]
    BY <2>1 DEF TypeOK
  <2>4. TypeOK /\ LockIsSound /\ SleepsCover /\ 0 \in Nat /\ backoff' = backoff
    BY <2>1
  <2>5. SleepsCover'
    BY ONLY <2>1, <2>2, <2>3, <2>4, OthersCovered
  <2> QED
    BY <2>1, <2>5 DEF DelayCovered
<1>6. ASSUME NEW c \in Calls, Return(c) \/ CancelHolder(c)
      PROVE  SleepsCover' /\ DelayCovered'
  <2>1. /\ HasLock(c) /\ UNCHANGED sinceStart
        /\ stage' = [stage EXCEPT ![c] = "out"]
        /\ sleep' = [sleep EXCEPT ![c] = 0]
    BY <1>6 DEF Return, RateLimited, Succeed, Fail, CancelHolder, Leave, Goto,
                HasLock, Holders, limiter
  <2>2. "out" \in Stages
    BY DEF Stages
  <2>3. \A p \in Procs : p # ProcOf[c] => backoff'[p] = backoff[p]
    BY <1>6 DEF Return, RateLimited, Succeed, Fail, CancelHolder, limiter, TypeOK
  <2>4. SleepsCover'
    BY <2>1, <2>2, <2>3, OthersCovered
  <2>5. DelayCovered'
    <3> SUFFICES ASSUME NEW p \in Procs PROVE delay'[p] <= quiet'[p] + backoff'[p]
      BY DEF DelayCovered
    <3>1. delay[p] \in 0 .. MaxDelay /\ quiet[p] \in 0 .. MaxDelay
          /\ backoff[p] \in 0 .. MaxDelay /\ delay[p] <= quiet[p] + backoff[p]
      BY DEF TypeOK, DelayCovered
    <3>2. CASE Fail(c) \/ CancelHolder(c)
      BY <3>1, <3>2 DEF Fail, CancelHolder, limiter
    <3>3. CASE RateLimited(c)
      <4>1. CASE p = ProcOf[c]
        <5>1. delay' = [delay EXCEPT ![p] = Smaller(@ + Step, MaxDelay)]
              /\ backoff' = [backoff EXCEPT ![p] = delay'[p]]
              /\ quiet' = [quiet EXCEPT ![p] = 0]
          BY <3>3, <4>1 DEF RateLimited
        <5>2. delay'[p] = Smaller(delay[p] + Step, MaxDelay)
              /\ backoff'[p] = delay'[p] /\ quiet'[p] = 0
          BY <5>1 DEF TypeOK
        <5>3. delay'[p] \in Nat
          BY <3>1, <5>2 DEF Smaller
        <5> QED
          BY <5>2, <5>3
      <4>2. CASE p # ProcOf[c]
        BY <3>1, <3>3, <4>2 DEF RateLimited, TypeOK
      <4> QED
        BY <4>1, <4>2
    <3>4. CASE Succeed(c)
      <4>1. quiet' = quiet
        BY <3>4 DEF Succeed
      <4>2. CASE p = ProcOf[c]
        <5>1. backoff[p] = 0
          BY <3>4, <4>2 DEF Succeed, Leave, SleepsCover
        <5>2. CASE delay[p] <= Step
          <6>1. delay'[p] = 0 /\ backoff'[p] = 0
            BY <3>4, <4>2, <5>2 DEF Succeed, TypeOK
          <6> QED
            BY <3>1, <4>1, <6>1
        <5>3. CASE ~(delay[p] <= Step)
          <6>1. delay'[p] = delay[p] - Step /\ backoff'[p] = backoff[p]
            BY <3>4, <4>2, <5>3 DEF Succeed, TypeOK
          <6> QED
            BY <3>1, <4>1, <6>1
        <5> QED
          BY <5>2, <5>3
      <4>3. CASE p # ProcOf[c]
        <5>1. delay'[p] = delay[p] /\ backoff'[p] = backoff[p]
          BY <3>4, <4>3 DEF Succeed, TypeOK
        <5> QED
          BY <3>1, <4>1, <5>1
      <4> QED
        BY <4>2, <4>3
    <3> QED
      BY <1>6, <3>2, <3>3, <3>4 DEF Return
  <2> QED
    BY <2>4, <2>5
<1>7. CASE UNCHANGED vars
  BY <1>7 DEF vars, limiter, SleepsCover, DelayCovered
<1> QED
  BY <1>1, <1>2, <1>3, <1>4, <1>5, <1>6, <1>7 DEF Next, Proceed, Cancel

\* IInv is inductive.
THEOREM Invariance == Spec => []IInv
<1>1. IInv /\ [Next]_vars => IInv'
  BY TypeStep, LockStep, SleepStep DEF IInv
<1> QED
  BY InitInv, <1>1, PTL DEF Spec

\* The limiter's state keeps its type: the delay stays under its cap.
THEOREM TypeCorrect == Spec => []TypeOK
<1>1. IInv => TypeOK
  BY DEF IInv
<1> QED
  BY Invariance, <1>1, PTL

\* The lock is sound under any cancellations (adapter.py call).
THEOREM LockStaysSound == Spec => []LockIsSound
<1>1. IInv => LockIsSound
  BY DEF IInv
<1> QED
  BY Invariance, <1>1, PTL

\* A call that goes out was first in "pacing" with its sleep over.
LEMMA StartsOnlyByStart ==
  ASSUME IInv, [Next]_vars, NEW c \in Calls, Starts(c)
  PROVE  stage[c] = "pacing" /\ sleep[c] = 0
<1> USE DEF IInv
<1>1. CASE Tick \/ UNCHANGED vars
  BY <1>1 DEF Tick, vars, Starts
<1>2. ASSUME NEW d \in Calls, NEW s \in Stages, NEW t \in Nat,
             stage' = [stage EXCEPT ![d] = s], s # "sent"
      PROVE  FALSE
  BY <1>2 DEF Starts, TypeOK
<1>3. ASSUME NEW d \in Calls, Enter(d) \/ Acquire(d) \/ Pace(d) PROVE FALSE
  <2>1. PICK s \in {"queued", "backoff", "pacing"} : stage' = [stage EXCEPT ![d] = s]
    BY <1>3 DEF Enter, Acquire, Pace, Goto
  <2> QED
    BY <2>1, <1>2 DEF Stages, Holders
<1>4. ASSUME NEW d \in Calls, Return(d) \/ Cancel(d) PROVE FALSE
  <2>1. stage' = [stage EXCEPT ![d] = "out"]
    BY <1>4 DEF Return, RateLimited, Succeed, Fail, Leave, Cancel, CancelWaiter,
                CancelHolder, Goto
  <2> QED
    BY <2>1, <1>2 DEF Stages, Holders
<1>5. ASSUME NEW d \in Calls, Start(d) PROVE stage[c] = "pacing" /\ sleep[c] = 0
  <2>1. stage[d] = "pacing" /\ sleep[d] = 0 /\ stage' = [stage EXCEPT ![d] = "sent"]
    BY <1>5 DEF Start, Goto
  <2>2. d = c
    BY <2>1 DEF Starts, TypeOK
  <2> QED
    BY <2>1, <2>2
<1> QED
  BY <1>1, <1>3, <1>4, <1>5 DEF Next, Proceed

\* The interval is kept (ADR-005 section 5), for any number of callers.
THEOREM RequestsArePaced == Spec => PacedStarts
<1>1. IInv /\ [Next]_vars =>
        \A c \in Calls : Starts(c) => sinceStart[ProcOf[c]] = Interval
  <2> SUFFICES ASSUME IInv, [Next]_vars, NEW c \in Calls, Starts(c)
               PROVE  sinceStart[ProcOf[c]] = Interval
    OBVIOUS
  <2>1. Interval - sinceStart[ProcOf[c]] <= 0
    BY StartsOnlyByStart DEF IInv, SleepsCover
  <2>2. sinceStart[ProcOf[c]] \in 0 .. Interval /\ Interval \in Nat
    BY LimiterAssumption DEF IInv, TypeOK
  <2> QED
    BY <2>1, <2>2
<1>2. IInv /\ [Next]_vars =>
        [\A c \in Calls : Starts(c) => sinceStart[ProcOf[c]] = Interval]_vars
  BY <1>1
<1> QED
  BY Invariance, <1>2, PTL DEF Spec, PacedStarts

\* A refusal is served before anything goes out, for any cap and step.
THEOREM RefusalsAreServed == Spec => RefusalIsServed
<1>1. IInv /\ [Next]_vars =>
        \A c \in Calls : Starts(c) => quiet[ProcOf[c]] >= delay[ProcOf[c]]
  <2> SUFFICES ASSUME IInv, [Next]_vars, NEW c \in Calls, Starts(c)
               PROVE  quiet[ProcOf[c]] >= delay[ProcOf[c]]
    OBVIOUS
  <2>1. backoff[ProcOf[c]] = 0
    BY StartsOnlyByStart DEF IInv, SleepsCover
  <2>2. ProcOf[c] \in Procs
    BY LimiterAssumption
  <2>3. delay[ProcOf[c]] <= quiet[ProcOf[c]] + backoff[ProcOf[c]]
        /\ quiet[ProcOf[c]] \in Nat /\ delay[ProcOf[c]] \in Nat
    BY <2>2, LimiterAssumption DEF IInv, DelayCovered, TypeOK
  <2> QED
    BY <2>1, <2>3
<1>2. IInv /\ [Next]_vars =>
        [\A c \in Calls : Starts(c) => quiet[ProcOf[c]] >= delay[ProcOf[c]]]_vars
  BY <1>1
<1> QED
  BY Invariance, <1>2, PTL DEF Spec, RefusalIsServed
-----------------------------------------------------------------------------
(* The crawl. *)

Proc == ProcOf[Crawler]

\* The time since the window was computed covers n intervals and what has
\* passed of another, or is a second anyway.
Covers(n) == age = Second \/ age >= n * Interval + sinceStart[Proc]

OnSchedule ==
  /\ pc = "listing" /\ stage[Crawler] = "sent" => Covers(0)
  /\ pc = "detail" => Covers(account.details - left)
  /\ pc = "detailing" =>
       IF stage[Crawler] = "sent" THEN Covers(account.details - left + 1)
       ELSE Covers(account.details - left)

FirstPageOnly ==
  /\ pc # "done"
  /\ page = 1 \/ (pc \in {"ask", "failed", "rejected"} /\ age = Second)

Wide == account.pages > 1 /\ account.details * Interval >= Second

\* Between its calls the crawl is out of the limiter.
OutBetweenCalls == pc \in {"listing", "detailing"} \/ stage[Crawler] = "out"

CrawlInv ==
  /\ CrawlTypeOK /\ IInv /\ OutBetweenCalls
  /\ pc \in {"detail", "detailing"} => left > 0
  /\ Wide => OnSchedule /\ FirstPageOnly

\* A step of the crawl is a step of the limiter, or none.
LEMMA LimiterSteps == [CrawlNext]_<<crawl, vars>> => [Next]_vars
BY CrawlAssumption
DEF CrawlNext, CrawlStep, Begin, AskPage, Listed, NotListed, AskDetail, Detailed,
    Abandoned, Interrupted, Limiter, CrawlTick, Next, Proceed, Return, crawl

\* The account is the provider's, and stays as it is.
LEMMA AccountStays ==
  [CrawlNext]_<<crawl, vars>> => account' = account /\ (Wide' <=> Wide)
BY DEF CrawlNext, CrawlStep, Begin, AskPage, Listed, NotListed, AskDetail, Detailed,
    Abandoned, Interrupted, Limiter, CrawlTick, crawl, Wide

\* What there is of an account.
LEMMA AccountBounds ==
  CrawlTypeOK => account.pages \in Nat \ {0} /\ account.details \in Nat
BY CrawlAssumption DEF CrawlTypeOK, Accounts

\* The initial state.
LEMMA CrawlInitInv == CrawlInit => CrawlInv
<1> SUFFICES ASSUME CrawlInit PROVE CrawlInv
  OBVIOUS
<1>1. IInv /\ TypeOK
  BY InitInv DEF CrawlInit, IInv
<1>2. CrawlTypeOK
  BY <1>1, CrawlAssumption DEF CrawlInit, CrawlTypeOK, Running, Ended, Accounts
<1> QED
  BY <1>1, <1>2, CrawlAssumption
  DEF CrawlInit, Init, CrawlInv, OutBetweenCalls, OnSchedule, FirstPageOnly

\* Every step keeps the types, and there is a detail to ask for when one is.
LEMMA CrawlTypeStep ==
  CrawlInv /\ [CrawlNext]_<<crawl, vars>> =>
    CrawlTypeOK' /\ IInv' /\ (pc' \in {"detail", "detailing"} => left' > 0)
<1> SUFFICES ASSUME CrawlInv, [CrawlNext]_<<crawl, vars>>
             PROVE  CrawlTypeOK' /\ IInv' /\ (pc' \in {"detail", "detailing"} => left' > 0)
  OBVIOUS
<1>1. IInv' /\ TypeOK'
  <2>1. IInv /\ [Next]_vars
    BY LimiterSteps DEF CrawlInv
  <2> QED
    BY <2>1, TypeStep, LockStep, SleepStep DEF IInv
<1> DEFINE T == /\ pc' \in Running \cup Ended \cup {"new"}
                /\ page' \in 1 .. account.pages
                /\ left' \in 0 .. account.details
                /\ age' \in 0 .. Second
                /\ pc' \in {"detail", "detailing"} => left' > 0
<1>0. account.pages \in Nat \ {0} /\ account.details \in Nat
  BY AccountBounds DEF CrawlInv
<1> USE <1>0, CrawlAssumption DEF CrawlInv, CrawlTypeOK, Running, Ended
<1>2. Begin => T
  BY DEF Begin
<1>3. AskPage => T
  BY DEF AskPage
<1>4. ASSUME Listed PROVE T
  <2>1. left' \in 0 .. account.details /\ age' = age
    BY <1>4 DEF Listed
  <2>2. CASE left' = 0
    BY <1>4, <2>1, <2>2 DEF Listed, Turn
  <2>3. CASE left' # 0
    BY <1>4, <2>1, <2>3 DEF Listed
  <2> QED
    BY <2>2, <2>3
<1>5. NotListed \/ Abandoned \/ Interrupted => T
  BY DEF NotListed, Abandoned, Interrupted
<1>6. AskDetail => T
  BY DEF AskDetail
<1>7. ASSUME Detailed PROVE T
  <2>1. left' = left - 1 /\ left' \in 0 .. account.details /\ age' = age
    BY <1>7 DEF Detailed
  <2>2. CASE left' = 0
    BY <1>7, <2>1, <2>2 DEF Detailed, Turn
  <2>3. CASE left' # 0
    BY <1>7, <2>1, <2>3 DEF Detailed
  <2> QED
    BY <2>2, <2>3
<1>8. Limiter => T
  BY DEF Limiter, crawl
<1>9. CrawlTick => T
  BY DEF CrawlTick, Smaller
<1>10. UNCHANGED <<crawl, vars>> => T
  BY DEF crawl
<1>11. T
  BY <1>2, <1>3, <1>4, <1>5, <1>6, <1>7, <1>8, <1>9, <1>10 DEF CrawlNext, CrawlStep
<1>12. account' = account
  BY AccountStays
<1> QED
  BY <1>1, <1>11, <1>12

\* Every step of the crawl leaves the limiter with its call.
LEMMA OutStep == CrawlInv /\ [CrawlNext]_<<crawl, vars>> => OutBetweenCalls'
<1> SUFFICES ASSUME CrawlInv, [CrawlNext]_<<crawl, vars>> PROVE OutBetweenCalls'
  OBVIOUS
<1>0. OutBetweenCalls /\ TypeOK /\ Crawler \in Calls
  BY CrawlAssumption DEF CrawlInv, CrawlTypeOK
<1>1. CASE UNCHANGED vars /\ pc' \notin {"listing", "detailing"} /\ pc \notin {"listing", "detailing"}
  BY <1>0, <1>1 DEF OutBetweenCalls, vars
<1>2. CASE pc' \in {"listing", "detailing"}
  BY <1>2 DEF OutBetweenCalls
<1>3. CASE Return(Crawler) \/ Cancel(Crawler)
  <2>1. stage' = [stage EXCEPT ![Crawler] = "out"]
    BY <1>3 DEF Return, RateLimited, Succeed, Fail, Leave, Cancel, CancelWaiter,
                CancelHolder, Goto
  <2> QED
    BY <1>0, <2>1 DEF OutBetweenCalls, TypeOK
<1>4. CASE Limiter
  <2>1. CASE Acquire(Crawler) \/ Pace(Crawler) \/ Start(Crawler)
    BY <1>0, <1>4, <2>1 DEF Limiter, crawl, OutBetweenCalls, Acquire, Pace, Start
  <2>2. ASSUME NEW c \in Calls \ {Crawler}, Enter(c) \/ Proceed(c) \/ Cancel(c)
        PROVE  OutBetweenCalls'
    <3>1. PICK s \in Stages : stage' = [stage EXCEPT ![c] = s]
      BY <2>2 DEF Enter, Proceed, Acquire, Pace, Start, Return, RateLimited, Succeed,
                  Fail, Leave, Cancel, CancelWaiter, CancelHolder, Goto, Stages, Holders
    <3> QED
      BY <1>0, <1>4, <3>1 DEF Limiter, crawl, OutBetweenCalls, TypeOK
  <2> QED
    BY <1>4, <2>1, <2>2 DEF Limiter
<1>5. CASE CrawlTick \/ UNCHANGED <<crawl, vars>>
  BY <1>0, <1>5 DEF CrawlTick, Tick, crawl, vars, OutBetweenCalls
<1> QED
  BY <1>1, <1>2, <1>3, <1>4, <1>5
  DEF CrawlNext, CrawlStep, Begin, AskPage, Listed, NotListed, AskDetail, Detailed,
      Abandoned, Interrupted, Return

\* One interval more.
LEMMA OneMore == \A n, i \in Nat : (n + 1) * i = n * i + i /\ n * i \in Nat
OBVIOUS

\* No step of a call but the passing of time moves a last start away.
LEMMA LastStart ==
  ASSUME TypeOK, NEW c \in Calls, Enter(c) \/ Proceed(c) \/ Cancel(c)
  PROVE  \A p \in Procs : sinceStart'[p] \in Nat /\ sinceStart'[p] <= sinceStart[p]
<1> SUFFICES ASSUME NEW p \in Procs
             PROVE  sinceStart'[p] \in Nat /\ sinceStart'[p] <= sinceStart[p]
  OBVIOUS
<1>1. sinceStart[p] \in Nat
  BY LimiterAssumption DEF TypeOK
<1>2. CASE Start(c)
  BY <1>1, <1>2 DEF Start, TypeOK
<1>3. CASE ~Start(c)
  <2>1. UNCHANGED sinceStart
    BY <1>3 DEF Enter, Proceed, Acquire, Pace, Return, RateLimited, Succeed, Fail,
                Cancel, CancelWaiter, CancelHolder, limiter
  <2> QED
    BY <1>1, <2>1
<1> QED
  BY <1>2, <1>3

\* What is covered stays covered while the age stays and no start moves away.
LEMMA StaysCovered ==
  ASSUME CrawlInv, NEW n \in Nat, Covers(n), age' = age,
         sinceStart'[Proc] \in Nat, sinceStart'[Proc] <= sinceStart[Proc]
  PROVE  age' = Second \/ age' >= n * Interval + sinceStart'[Proc]
<1>1. sinceStart[Proc] \in Nat /\ age \in Nat /\ n * Interval \in Nat
  BY OneMore, CrawlAssumption, LimiterAssumption
  DEF CrawlInv, CrawlTypeOK, TypeOK, Proc
<1> QED
  BY <1>1 DEF Covers

\* What is covered stays covered as time passes.
LEMMA TickCovered ==
  ASSUME CrawlInv, NEW n \in Nat, Covers(n), CrawlTick
  PROVE  age' = Second \/ age' >= n * Interval + sinceStart'[Proc]
<1>1. /\ sinceStart[Proc] \in 0 .. Interval /\ Interval \in Nat
      /\ age \in 0 .. Second /\ Second \in Nat /\ n * Interval \in Nat
      /\ Proc \in Procs
  BY OneMore, CrawlAssumption, LimiterAssumption
  DEF CrawlInv, CrawlTypeOK, TypeOK, Proc
<1>2. sinceStart'[Proc] = Smaller(sinceStart[Proc] + 1, Interval)
  BY <1>1 DEF CrawlTick, Tick
<1>3. age' = Smaller(age + 1, Second)
  BY DEF CrawlTick
<1> QED
  BY <1>1, <1>2, <1>3 DEF Covers, Smaller

\* Every step of an account that is too wide keeps to the schedule.
LEMMA ScheduleStep ==
  CrawlInv /\ Wide /\ [CrawlNext]_<<crawl, vars>> => OnSchedule' /\ FirstPageOnly'
<1> SUFFICES ASSUME CrawlInv, Wide, [CrawlNext]_<<crawl, vars>>
             PROVE  OnSchedule' /\ FirstPageOnly'
  OBVIOUS
<1>0. /\ OnSchedule /\ FirstPageOnly /\ IInv /\ TypeOK
      /\ age \in 0 .. Second /\ left \in 0 .. account.details /\ page \in 1 .. account.pages
      /\ account.details \in Nat /\ account.pages \in Nat /\ account' = account
      /\ Second \in Nat \ {0}
      /\ Interval \in Nat /\ Crawler \in Calls /\ Proc \in Procs
      /\ sinceStart[Proc] \in 0 .. Interval
  BY CrawlAssumption, LimiterAssumption, AccountBounds, AccountStays
  DEF CrawlInv, CrawlTypeOK, IInv, TypeOK, Proc
<1>1. CASE Begin
  BY <1>0, <1>1 DEF Begin, OnSchedule, FirstPageOnly
<1>2. CASE AskPage
  <2>1. CASE TooOld
    <3>1. age = Second /\ pc' = "rejected" /\ age' = age
      BY <1>0, <1>2, <2>1 DEF AskPage, TooOld
    <3> QED
      BY <3>1 DEF OnSchedule, FirstPageOnly
  <2>2. CASE ~TooOld
    <3>1. pc' = "listing" /\ page' = page /\ Enter(Crawler) /\ age # Second
      BY <1>0, <1>2, <2>2 DEF AskPage, TooOld
    <3>2. stage'[Crawler] = "queued"
      BY <1>0, <3>1 DEF Enter, Goto, TypeOK
    <3> QED
      BY <1>0, <3>1, <3>2 DEF OnSchedule, FirstPageOnly
  <2> QED
    BY <2>1, <2>2
<1>3. CASE Listed
  <2>1. pc = "listing" /\ stage[Crawler] = "sent" /\ age' = age /\ sinceStart' = sinceStart
    BY <1>3 DEF Listed, Succeed, Leave
  <2>2. page = 1 /\ 1 < account.pages
    BY <1>0, <2>1 DEF FirstPageOnly, Wide
  <2>3. left' = account.details
    BY <1>3, <2>2 DEF Listed
  <2>4. account.details # 0
    BY <1>0 DEF Wide
  <2>5. pc' = "detail" /\ page' = page
    BY <1>3, <2>3, <2>4 DEF Listed
  <2>6. Covers(0)'
    BY <1>0, <2>1 DEF OnSchedule, Covers, Proc
  <2>7. account.details - left' = 0
    BY <1>0, <2>3
  <2> QED
    BY <2>2, <2>5, <2>6, <2>7, AccountStays DEF OnSchedule, FirstPageOnly
<1>4. CASE NotListed \/ Abandoned \/ Interrupted
  <2>1. pc' = "failed" /\ page' = page /\ age' = age
    BY <1>4 DEF NotListed, Abandoned, Interrupted
  <2>2. pc \in {"listing", "ask", "detailing"}
    BY <1>4 DEF NotListed, Abandoned, Interrupted
  <2> QED
    BY <1>0, <2>1, <2>2 DEF OnSchedule, FirstPageOnly
<1>5. CASE AskDetail
  <2>1. /\ pc = "detail" /\ pc' = "detailing" /\ Enter(Crawler)
        /\ page' = page /\ left' = left /\ age' = age
    BY <1>5 DEF AskDetail
  <2>2. stage'[Crawler] = "queued" /\ sinceStart' = sinceStart
    BY <1>0, <2>1 DEF Enter, Goto, TypeOK, limiter
  <2> DEFINE n == account.details - left
  <2>3. n \in Nat /\ Covers(n)
    BY <1>0, <2>1 DEF OnSchedule
  <2>4. n = account.details - left'
    BY <2>1
  <2> HIDE DEF n
  <2>5. age' = Second \/ age' >= n * Interval + sinceStart'[Proc]
    BY <2>1, <2>2, <2>3 DEF Covers
  <2>6. OnSchedule'
    BY <2>1, <2>2, <2>4, <2>5, AccountStays DEF OnSchedule, Covers, Proc
  <2> QED
    BY <1>0, <2>1, <2>6 DEF FirstPageOnly
<1>6. CASE Detailed
  <2>1. /\ pc = "detailing" /\ stage[Crawler] = "sent" /\ left' = left - 1
        /\ age' = age /\ sinceStart' = sinceStart
    BY <1>6 DEF Detailed, Return, RateLimited, Succeed, Fail, Leave, limiter
  <2>2. left > 0 /\ page = 1 /\ 1 < account.pages
    BY <1>0, <2>1 DEF FirstPageOnly, CrawlInv, Wide
  <2> DEFINE n == account.details - left + 1
  <2>3. n \in Nat /\ Covers(n)
    BY <1>0, <2>1 DEF OnSchedule
  <2>4. n = account.details - left'
    BY <1>0, <2>1
  <2>5. left' = 0 => n = account.details
    BY <1>0, <2>4
  <2> HIDE DEF n
  <2>6. age' = Second \/ age' >= n * Interval + sinceStart'[Proc]
    BY <2>1, <2>3 DEF Covers
  <2>7. CASE left' = 0
    <3>1. account.details * Interval \in Nat /\ account.details * Interval >= Second
      BY <1>0, OneMore DEF Wide
    <3>2. age' = Second
      BY <1>0, <2>1, <2>5, <2>6, <2>7, <3>1
    <3>3. pc' = "ask"
      BY <1>6, <2>2, <2>7 DEF Detailed, Turn
    <3> QED
      BY <3>2, <3>3 DEF OnSchedule, FirstPageOnly
  <2>8. CASE left' # 0
    <3>1. pc' = "detail" /\ page' = page
      BY <1>6, <2>8 DEF Detailed
    <3> QED
      BY <2>2, <2>4, <2>6, <3>1, AccountStays
      DEF OnSchedule, FirstPageOnly, Covers, Proc
  <2> QED
    BY <2>7, <2>8
<1>7. CASE Limiter
  <2>1. pc' = pc /\ page' = page /\ left' = left /\ age' = age
    BY <1>7 DEF Limiter, crawl
  <2>2. FirstPageOnly'
    BY <1>0, <2>1 DEF FirstPageOnly
  <2>3. sinceStart'[Proc] \in Nat /\ sinceStart'[Proc] <= sinceStart[Proc]
    BY <1>0, <1>7, LastStart DEF Limiter, Proceed
  <2> DEFINE n == account.details - left
  <2>4. pc \in {"detail", "detailing"} => n \in Nat
    BY <1>0 DEF CrawlInv
  <2>5. n = account.details - left' /\ n + 1 = account.details - left' + 1
    BY <2>1
  <2> HIDE DEF n
  <2>6. CASE Start(Crawler)
    <3>1. sinceStart'[Proc] = 0 /\ stage'[Crawler] = "sent" /\ stage[Crawler] = "pacing"
          /\ sleep[Crawler] = 0
      BY <1>0, <2>6 DEF Start, Goto, TypeOK, Proc
    <3>2. sinceStart[Proc] = Interval
      BY <1>0, <3>1 DEF IInv, SleepsCover, Proc
    <3>3. pc' = "listing" => Covers(0)'
      BY <1>0, <2>1, <3>1 DEF Covers, Proc
    <3>4. pc' # "detail"
      BY <2>1, <3>1 DEF CrawlInv, OutBetweenCalls
    <3>5. pc' = "detailing" => Covers(account.details - left + 1)'
      <4> SUFFICES ASSUME pc = "detailing"
                   PROVE  age = Second \/ age >= (n + 1) * Interval
        BY <1>0, <2>1, <2>4, <2>5, <3>1, OneMore DEF Covers, Proc
      <4>1. n \in Nat /\ Covers(n)
        BY <1>0, <2>4, <3>1 DEF OnSchedule, n
      <4> QED
        BY <1>0, <3>2, <4>1, OneMore DEF Covers
    <3> QED
      BY <2>2, <3>1, <3>3, <3>4, <3>5 DEF OnSchedule
  <2>7. CASE ~Start(Crawler)
    <3>1. stage'[Crawler] = "sent" <=> stage[Crawler] = "sent"
      <4>1. CASE Acquire(Crawler) \/ Pace(Crawler)
        BY <1>0, <4>1 DEF Acquire, Pace, Goto, TypeOK
      <4>2. ASSUME NEW c \in Calls \ {Crawler}, Enter(c) \/ Proceed(c) \/ Cancel(c)
            PROVE  stage'[Crawler] = stage[Crawler]
        <5>1. PICK s \in Stages : stage' = [stage EXCEPT ![c] = s]
          BY <4>2 DEF Enter, Proceed, Acquire, Pace, Start, Return, RateLimited, Succeed,
                      Fail, Leave, Cancel, CancelWaiter, CancelHolder, Goto, Stages, Holders
        <5> QED
          BY <1>0, <5>1 DEF TypeOK
      <4> QED
        BY <1>7, <2>7, <4>1, <4>2 DEF Limiter
    <3>2. Covers(0) => Covers(0)'
      BY <1>0, <2>1, <2>3 DEF Covers, Proc
    <3>3. n \in Nat /\ Covers(n) => age' = Second \/ age' >= n * Interval + sinceStart'[Proc]
      BY <2>1, <2>3, StaysCovered
    <3>4. n + 1 \in Nat /\ Covers(n + 1) =>
            age' = Second \/ age' >= (n + 1) * Interval + sinceStart'[Proc]
      BY <2>1, <2>3, StaysCovered
    <3>5. n \in Nat /\ n + 1 \in Nat
      BY <1>0 DEF n
    <3>6. pc' = "listing" /\ stage'[Crawler] = "sent" => Covers(0)'
      BY <1>0, <2>1, <3>1, <3>2 DEF OnSchedule
    <3>7. pc' = "detail" => Covers(account.details - left)'
      BY <1>0, <2>1, <2>5, <3>3, <3>5 DEF OnSchedule, Covers, Proc, n
    <3>8. pc' = "detailing" =>
            IF stage'[Crawler] = "sent" THEN Covers(account.details - left + 1)'
            ELSE Covers(account.details - left)'
      BY <1>0, <2>1, <2>5, <3>1, <3>3, <3>4, <3>5 DEF OnSchedule, Covers, Proc, n
    <3> QED
      BY <2>2, <3>6, <3>7, <3>8 DEF OnSchedule
  <2> QED
    BY <2>6, <2>7
<1>8. CASE CrawlTick
  <2>1. /\ pc' = pc /\ page' = page /\ left' = left /\ stage' = stage
        /\ age' = Smaller(age + 1, Second)
    BY <1>8 DEF CrawlTick, Tick
  <2>2. FirstPageOnly'
    BY <1>0, <2>1 DEF FirstPageOnly, Smaller
  <2>3. Covers(0) => Covers(0)'
    BY <1>8, TickCovered DEF Covers, Proc
  <2> DEFINE n == account.details - left
             m == account.details - left + 1
  <2>4. n \in Nat /\ m \in Nat /\ n = account.details - left' /\ m = account.details - left' + 1
    BY <1>0, <2>1
  <2> HIDE DEF n, m
  <2>5. Covers(n) => age' = Second \/ age' >= n * Interval + sinceStart'[Proc]
    BY <1>8, <2>4, TickCovered
  <2>6. Covers(m) => age' = Second \/ age' >= m * Interval + sinceStart'[Proc]
    BY <1>8, <2>4, TickCovered
  <2>7. OnSchedule'
    BY <1>0, <2>1, <2>3, <2>4, <2>5, <2>6 DEF OnSchedule, Covers, Proc, n, m
  <2> QED
    BY <2>2, <2>7
<1>9. CASE UNCHANGED <<crawl, vars>>
  BY <1>0, <1>9 DEF crawl, vars, limiter, OnSchedule, FirstPageOnly, Covers, Proc
<1> QED
  BY <1>1, <1>2, <1>3, <1>4, <1>5, <1>6, <1>7, <1>8, <1>9 DEF CrawlNext, CrawlStep

\* CrawlInv is inductive.
THEOREM CrawlInvariance == CrawlSpec => []CrawlInv
<1>1. CrawlInv /\ [CrawlNext]_<<crawl, vars>> => CrawlInv'
  BY CrawlTypeStep, OutStep, ScheduleStep, AccountStays DEF CrawlInv
<1> QED
  BY CrawlInitInv, <1>1, PTL DEF CrawlSpec

\* The state of the crawl and of the limiter under it keeps its type.
THEOREM CrawlTypeCorrect == CrawlSpec => []CrawlTypeOK
<1>1. CrawlInv => CrawlTypeOK
  BY DEF CrawlInv
<1> QED
  BY CrawlInvariance, <1>1, PTL

\* An account of two pages or more whose details take a second is never
\* crawled to its end (tasks.py, adapter.py), whatever the other numbers.
THEOREM WideCrawlIsNeverDone == CrawlSpec => [](Wide => pc # "done")
<1>1. CrawlInv => (Wide => pc # "done")
  BY DEF CrawlInv, FirstPageOnly
<1> QED
  BY CrawlInvariance, <1>1, PTL
=============================================================================
