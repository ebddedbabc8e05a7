---------------------------- MODULE WriteContract ----------------------------
(***************************************************************************)
(* What an Idempotency-Key promises a client that repeats a lifecycle      *)
(* write, without rows, audit, handlers or faults: a key is free, or some  *)
(* request has taken it; only that request gets to the provider, and once  *)
(* the provider has accepted its write it keeps the key for good; nobody   *)
(* is told 204 whose write was not accepted, unless it found the key taken.*)
(***************************************************************************)
CONSTANTS Requests, Keys, KeyOf, NoReq

VARIABLES
  taken,    \* taken[k]: the request that has key k, or NoReq
  accepted, \* requests whose write the provider has accepted
  turned,   \* requests that found their key taken, and are not through
  answer    \* what the client got

contractVars == <<taken, accepted, turned, answer>>

Has(r) == taken[KeyOf[r]] = r

Init ==
  /\ taken = [k \in Keys |-> NoReq]
  /\ accepted = {} /\ turned = {}
  /\ answer = [r \in Requests |-> "none"]

Take(r) ==
  /\ taken[KeyOf[r]] = NoReq /\ answer[r] = "none"
  /\ taken' = [taken EXCEPT ![KeyOf[r]] = r]
  /\ UNCHANGED <<accepted, turned, answer>>

TurnAway(r) ==
  /\ taken[KeyOf[r]] # NoReq /\ ~Has(r) /\ answer[r] = "none"
  /\ turned' = turned \cup {r}
  /\ UNCHANGED <<taken, accepted, answer>>

Accept(r) ==
  /\ Has(r) /\ answer[r] = "none"
  /\ accepted' = accepted \cup {r}
  /\ UNCHANGED <<taken, turned, answer>>

\* A key whose write was accepted is never given up.
GiveUp(r) ==
  /\ Has(r) /\ r \notin accepted
  /\ taken' = [taken EXCEPT ![KeyOf[r]] = NoReq]
  /\ UNCHANGED <<accepted, turned, answer>>

Confirm(r) ==
  /\ r \in accepted \/ r \in turned
  /\ answer[r] = "none" /\ answer' = [answer EXCEPT ![r] = "204"]
  /\ UNCHANGED <<taken, accepted, turned>>

\* An error, or no answer at all: it says nothing of the key.
Break(r) ==
  /\ answer[r] = "none" /\ answer' \in {answer, [answer EXCEPT ![r] = "error"]}
  /\ turned' \in {turned, turned \ {r}}
  /\ UNCHANGED <<taken, accepted>>

Next ==
  \E r \in Requests :
    Take(r) \/ TurnAway(r) \/ Accept(r) \/ GiveUp(r) \/ Confirm(r) \/ Break(r)

Spec == Init /\ [][Next]_contractVars
=============================================================================
