--------------------------- MODULE CircuitBreaker ---------------------------
(***************************************************************************)
(* The per-provider circuit breaker (app/shared/resilience.py) shared by   *)
(* every concurrent call of one adapter (app/providers/adapter_base.py).   *)
(*                                                                         *)
(* The breaker's lock is never held across an await, so each critical      *)
(* section is one step; the provider call between two of them is not.      *)
(* Monotonic time stamps are replaced by ages, which saturate one unit     *)
(* past the last comparison the code makes with them.                      *)
(***************************************************************************)
EXTENDS Naturals, Sequences, FiniteSets

CONSTANTS
  Calls,        \* concurrent callers of the adapter
  Threshold,    \* failure_threshold
  Window,       \* failure_window_s
  OpenDuration  \* open_duration_s

ASSUME ParameterAssumption ==
  /\ Threshold \in Nat \ {0}
  /\ Window \in Nat
  /\ OpenDuration \in Nat

VARIABLES
  state,     \* _state
  failures,  \* _failures: ages, oldest first
  openAge,   \* now - _opened_at
  call,      \* "out", or in flight since the breaker was CLOSED or HALF_OPEN
  recent     \* history: ages of the last Threshold failures, never cleared

vars == <<state, failures, openAge, call, recent>>

TypeOK ==
  /\ state \in {"CLOSED", "OPEN", "HALF_OPEN"}
  /\ failures \in Seq(0 .. Window + 1)
  /\ openAge \in 0 .. OpenDuration
  /\ call \in [Calls -> {"out", "plain", "probe"}]
  /\ recent \in Seq(0 .. Window + 1)

Init ==
  /\ state = "CLOSED"
  /\ failures = <<>>
  /\ openAge = 0
  /\ call = [c \in Calls |-> "out"]
  /\ recent = <<>>

\* Mutant of Prune: failures are never forgotten.
PruneNothing(f) == f

\* popleft while the oldest failure is before the cutoff.
Prune(f) == SubSeq(f, Cardinality({i \in DOMAIN f : f[i] > Window}) + 1, Len(f))

\* The last n elements.
Last(f, n) == IF Len(f) <= n THEN f ELSE SubSeq(f, Len(f) - n + 1, Len(f))

-----------------------------------------------------------------------------
\* call: let the call through, or find the breaker open and raise, which
\* changes nothing.
Admit(c) ==
  /\ call[c] = "out"
  /\ state = "OPEN" => openAge = OpenDuration
  /\ state' = IF state = "OPEN" THEN "HALF_OPEN" ELSE state
  /\ call' = [call EXCEPT ![c] = IF state' = "CLOSED" THEN "plain" ELSE "probe"]
  /\ UNCHANGED <<failures, openAge, recent>>

\* Mutant of Succeed: a success is only counted.
SucceedCounts(c) ==
  /\ call[c] # "out"
  /\ call' = [call EXCEPT ![c] = "out"]
  /\ UNCHANGED <<state, failures, openAge, recent>>

\* _record_success: the call returned, or raised a non-tripping error.
Succeed(c) ==
  /\ call[c] # "out"
  /\ call' = [call EXCEPT ![c] = "out"]
  /\ IF state = "HALF_OPEN" THEN state' = "CLOSED" /\ failures' = <<>>
     ELSE UNCHANGED <<state, failures>>
  /\ UNCHANGED <<openAge, recent>>

\* _record_failure.
Fail(c) ==
  LET kept == Prune(Append(failures, 0))
  IN /\ call[c] # "out"
     /\ call' = [call EXCEPT ![c] = "out"]
     /\ IF state = "HALF_OPEN" \/ Len(kept) >= Threshold
        THEN state' = "OPEN" /\ openAge' = 0 /\ failures' = <<>>
        ELSE failures' = kept /\ UNCHANGED <<state, openAge>>
     /\ recent' = Last(Append(recent, 0), Threshold)

\* CancelledError is not an Exception: nothing is recorded.
Cancel(c) ==
  /\ call[c] # "out"
  /\ call' = [call EXCEPT ![c] = "out"]
  /\ UNCHANGED <<state, failures, openAge, recent>>

Plus1(n, max) == IF n < max THEN n + 1 ELSE n

Older(f) == [i \in DOMAIN f |-> Plus1(f[i], Window + 1)]

Tick ==
  /\ failures' = Older(failures)
  /\ recent' = Older(recent)
  /\ openAge' = Plus1(openAge, OpenDuration)
  /\ UNCHANGED <<state, call>>

Return(c) == Succeed(c) \/ Fail(c) \/ Cancel(c)

Next == Tick \/ \E c \in Calls : Admit(c) \/ Return(c)

Spec == Init /\ [][Next]_vars

(***************************************************************************)
(* Time passes, callers keep coming, and, every HTTP call of an adapter    *)
(* having a timeout, a caller is not cancelled for ever.  Recovery is only *)
(* claimed for a provider that has stopped failing.                        *)
(***************************************************************************)
ProviderRecovers == <>[][\A c \in Calls : ~Fail(c)]_vars

FairSpec ==
  /\ Spec /\ WF_vars(Tick) /\ ProviderRecovers
  /\ \A c \in Calls : WF_vars(Admit(c)) /\ SF_vars(Succeed(c))

-----------------------------------------------------------------------------
(* Properties *)

\* The deque (_failures) never reaches the threshold without being acted on,
\* although failures are also recorded while the breaker is open, and what is
\* in it is in the order of time, which pruning from the left relies on.
FailuresBounded ==
  /\ Len(failures) < Threshold
  /\ \A i, k \in DOMAIN failures : i < k => failures[i] >= failures[k]

\* ADR-005: the breaker leaves CLOSED only when failure_threshold calls failed
\* within failure_window_s, however successes, stragglers and earlier openings
\* are interleaved with them.
OpensOnEvidence ==
  [][state = "CLOSED" /\ state' # "CLOSED" =>
       /\ state' = "OPEN"
       /\ Len(recent') = Threshold /\ recent'[1] <= Window]_vars

\* Once the provider answers again the breaker closes (call, _record_success):
\* neither stragglers nor probes can keep it open or half open for ever.
HealsWithProvider == (state # "CLOSED") ~> (state = "CLOSED")
=============================================================================
