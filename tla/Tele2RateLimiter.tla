--------------------------- MODULE Tele2RateLimiter ---------------------------
(***************************************************************************)
(* _Tele2RateLimiter (app/providers/tele2/adapter.py): the calls made with *)
(* one rate-limit key, in every process that has a Tele2Adapter.  The      *)
(* limiter lives in the memory of its process; the provider account does   *)
(* not.                                                                    *)
(*                                                                         *)
(* asyncio.Lock serves its waiters in order.  The holder keeps the lock    *)
(* over two sleeps and the HTTP call; each sleep is computed once, from    *)
(* what the limiter says at that moment.  Time stamps are replaced by the  *)
(* time since or until them, saturating where the code stops looking.      *)
(***************************************************************************)
EXTENDS Integers, Sequences

CONSTANTS
  Procs,    \* processes: the API, the Arq worker
  Calls,    \* callers
  ProcOf,   \* ProcOf[c]: the process caller c runs in
  Interval, \* 1 / max_tps
  Step,     \* the 1.0 by which the backoff grows and shrinks
  MaxDelay  \* its cap, 30.0

ASSUME LimiterAssumption ==
  /\ ProcOf \in [Calls -> Procs]
  /\ Interval \in Nat /\ Step \in Nat \ {0} /\ MaxDelay \in Nat
  /\ Step <= MaxDelay

VARIABLES
  queue,      \* waiters of a process's lock, first come first
  stage,      \* where a call is
  sleep,      \* what is left of the holder's sleep
  sinceStart, \* now - _last_started
  backoff,    \* _backoff_until - now, zero when past
  delay,      \* _backoff_delay
  quiet       \* history: time since the provider last answered 429

limiter == <<sinceStart, backoff, delay, quiet>>
vars == <<queue, stage, sleep, limiter>>

Holders == {"backoff", "pacing", "sent"}
Stages == Holders \cup {"out", "queued"}

HasLock(c) == stage[c] \in Holders
LockFree(p) == \A c \in Calls : ProcOf[c] = p => ~HasLock(c)

TypeOK ==
  /\ queue \in [Procs -> Seq(Calls)]
  /\ stage \in [Calls -> Stages]
  /\ sleep \in [Calls -> Nat]
  /\ sinceStart \in [Procs -> 0 .. Interval]
  /\ backoff \in [Procs -> 0 .. MaxDelay]
  /\ delay \in [Procs -> 0 .. MaxDelay]
  /\ quiet \in [Procs -> 0 .. MaxDelay]

Init ==
  /\ queue = [p \in Procs |-> <<>>]
  /\ stage = [c \in Calls |-> "out"]
  /\ sleep = [c \in Calls |-> 0]
  /\ sinceStart = [p \in Procs |-> Interval]
  /\ backoff = [p \in Procs |-> 0]
  /\ delay = [p \in Procs |-> 0]
  /\ quiet = [p \in Procs |-> MaxDelay]

\* c goes to a stage and sleeps there for t.
Goto(c, s, t) ==
  /\ stage' = [stage EXCEPT ![c] = s]
  /\ sleep' = [sleep EXCEPT ![c] = t]

-----------------------------------------------------------------------------
\* lock.acquire() joins the queue.
Enter(c) ==
  /\ stage[c] = "out"
  /\ queue' = [queue EXCEPT ![ProcOf[c]] = Append(@, c)]
  /\ Goto(c, "queued", 0)
  /\ UNCHANGED limiter

\* Mutant of Acquire: the lock is not held while sleeping and calling.
AcquireUnlocked(c) ==
  LET p == ProcOf[c]
  IN /\ stage[c] = "queued" /\ queue[p] # <<>> /\ Head(queue[p]) = c
     /\ queue' = [queue EXCEPT ![p] = Tail(@)]
     /\ Goto(c, "backoff", backoff[p])
     /\ UNCHANGED limiter

\* The lock is free and c is first; `wait_for_backoff` is computed.
Acquire(c) ==
  LET p == ProcOf[c]
  IN /\ stage[c] = "queued" /\ LockFree(p)
     /\ queue[p] # <<>> /\ Head(queue[p]) = c
     /\ queue' = [queue EXCEPT ![p] = Tail(@)]
     /\ Goto(c, "backoff", backoff[p])
     /\ UNCHANGED limiter

\* The backoff is slept off; `wait_for_tps` is computed.
Pace(c) ==
  /\ stage[c] = "backoff" /\ sleep[c] = 0
  /\ Goto(c, "pacing", Interval - sinceStart[ProcOf[c]])
  /\ UNCHANGED <<queue, limiter>>

\* _last_started is set and the request goes out.
Start(c) ==
  /\ stage[c] = "pacing" /\ sleep[c] = 0
  /\ sinceStart' = [sinceStart EXCEPT ![ProcOf[c]] = 0]
  /\ Goto(c, "sent", 0)
  /\ UNCHANGED <<queue, backoff, delay, quiet>>

Leave(c) == stage[c] = "sent" /\ Goto(c, "out", 0) /\ UNCHANGED queue

Smaller(a, b) == IF a <= b THEN a ELSE b

\* Mutant of RateLimited: the new delay is kept but not waited for.
RateLimitedNoWait(c) ==
  LET p == ProcOf[c]
  IN /\ Leave(c)
     /\ delay' = [delay EXCEPT ![p] = Smaller(@ + Step, MaxDelay)]
     /\ quiet' = [quiet EXCEPT ![p] = 0]
     /\ UNCHANGED <<sinceStart, backoff>>

\* Mutant of RateLimited: the refused call is tried again in place.
RateLimitedAgain(c) ==
  LET p == ProcOf[c]
  IN /\ stage[c] = "sent"
     /\ delay' = [delay EXCEPT ![p] = Smaller(@ + Step, MaxDelay)]
     /\ backoff' = [backoff EXCEPT ![p] = delay'[p]]
     /\ quiet' = [quiet EXCEPT ![p] = 0]
     /\ Goto(c, "backoff", backoff'[p])
     /\ UNCHANGED <<queue, sinceStart>>

\* _record_rate_limited.
RateLimited(c) ==
  LET p == ProcOf[c]
  IN /\ Leave(c)
     /\ delay' = [delay EXCEPT ![p] = Smaller(@ + Step, MaxDelay)]
     /\ backoff' = [backoff EXCEPT ![p] = delay'[p]]
     /\ quiet' = [quiet EXCEPT ![p] = 0]
     /\ UNCHANGED sinceStart

\* _record_success.
Succeed(c) ==
  LET p == ProcOf[c]
  IN /\ Leave(c)
     /\ IF delay[p] <= Step
        THEN /\ delay' = [delay EXCEPT ![p] = 0]
             /\ backoff' = [backoff EXCEPT ![p] = 0]
        ELSE delay' = [delay EXCEPT ![p] = @ - Step] /\ UNCHANGED backoff
     /\ UNCHANGED <<sinceStart, quiet>>

\* Any other error records nothing.
Fail(c) == Leave(c) /\ UNCHANGED limiter

\* The queue q without its i-th waiter.
Without(q, i) == [k \in 1 .. Len(q) - 1 |-> IF k < i THEN q[k] ELSE q[k + 1]]

\* CancelledError out of lock.acquire() (job_timeout, shutdown).
CancelWaiter(c) ==
  LET p == ProcOf[c]
  IN /\ stage[c] = "queued"
     /\ \E i \in DOMAIN queue[p] :
          queue[p][i] = c /\ queue' = [queue EXCEPT ![p] = Without(@, i)]
     /\ Goto(c, "out", 0)
     /\ UNCHANGED limiter

\* CancelledError out of a sleep or of the HTTP call: nothing is recorded.
CancelHolder(c) ==
  /\ HasLock(c)
  /\ Goto(c, "out", 0)
  /\ UNCHANGED <<queue, limiter>>

Cancel(c) == CancelWaiter(c) \/ CancelHolder(c)

Less1(n) == IF n > 0 THEN n - 1 ELSE 0

Tick ==
  /\ sleep' = [c \in Calls |-> Less1(sleep[c])]
  /\ sinceStart' = [p \in Procs |-> Smaller(sinceStart[p] + 1, Interval)]
  /\ backoff' = [p \in Procs |-> Less1(backoff[p])]
  /\ quiet' = [p \in Procs |-> Smaller(quiet[p] + 1, MaxDelay)]
  /\ UNCHANGED <<queue, stage, delay>>

Return(c) == RateLimited(c) \/ Succeed(c) \/ Fail(c)

Proceed(c) == Acquire(c) \/ Pace(c) \/ Start(c) \/ Return(c)

Next == Tick \/ \E c \in Calls : Enter(c) \/ Proceed(c) \/ Cancel(c)

Spec == Init /\ [][Next]_vars

(***************************************************************************)
(* The event loop runs whoever can run, time passes, and the HTTP client   *)
(* has a timeout (tele2_request_timeout_seconds), so every call returns.   *)
(***************************************************************************)
Fairness == WF_vars(Tick) /\ \A c \in Calls : WF_vars(Proceed(c))

FairSpec == Spec /\ Fairness

-----------------------------------------------------------------------------
(* Properties *)

Starts(c) == stage[c] # "sent" /\ stage'[c] = "sent"

\* ADR-005 section 5: 1 / max_tps between two requests of a process, although
\* the wait is computed before the sleep and never again (adapter.py call).
PacedStarts ==
  [][\A c \in Calls : Starts(c) => sinceStart[ProcOf[c]] = Interval]_vars

\* A 429 is served in full: whoever calls next, whoever was cancelled while
\* sleeping, nothing goes out before the current delay has passed since the
\* last refusal (_record_rate_limited, _record_success).
RefusalIsServed ==
  [][\A c \in Calls : Starts(c) => quiet[ProcOf[c]] >= delay[ProcOf[c]]]_vars

\* The lock survives the cancellation of its waiters and of its holder
\* (adapter.py call): one holder, and so one request at a time, a queue of
\* waiters and of nobody else, and no waiter twice or forgotten.
LockIsSound ==
  /\ \A c, d \in Calls :
       ProcOf[c] = ProcOf[d] /\ HasLock(c) /\ HasLock(d) => c = d
  /\ \A p \in Procs : \A i, k \in DOMAIN queue[p] :
       /\ stage[queue[p][i]] = "queued" /\ ProcOf[queue[p][i]] = p
       /\ queue[p][i] = queue[p][k] => i = k
  /\ \A c \in Calls : stage[c] = "queued" =>
       \E i \in DOMAIN queue[ProcOf[c]] : queue[ProcOf[c]][i] = c

\* Nobody waits for ever, whatever the provider refuses and whoever is
\* cancelled: a call that entered the limiter leaves it.
CallsEnd == \A c \in Calls : stage[c] = "queued" ~> stage[c] = "out"
=============================================================================
