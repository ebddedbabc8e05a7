----------------------- MODULE IdempotentWrite_proofs -----------------------
(***************************************************************************)
(* Theorems about IdempotentWrite, for any number of requests and keys.    *)
(*                                                                         *)
(* The invariant says who a key belongs to.  A handler between claim and   *)
(* release or mark is the owner of its key's row, which says "processing"  *)
(* (Held).  A request the provider accepted stays the owner of a row that  *)
(* is never deleted again, because the only request that could delete it   *)
(* is past that point (Kept).  Honest says what the later stages of a      *)
(* handler have already done.                                              *)
(***************************************************************************)
EXTENDS IdempotentWrite, TLAPS

Held ==
  \A r \in Requests : pc[r] \in Holding =>
    row[KeyOf[r]] = "processing" /\ owner[KeyOf[r]] = r

Kept ==
  \A r \in accepted :
    /\ row[KeyOf[r]] # "absent" /\ owner[KeyOf[r]] = r
    /\ pc[r] \in {"auditOk", "mark", "reply", "over"}

Finished(r) ==
  r \in accepted /\ audit[r] = "success" /\ row[KeyOf[r]] = "processed"

Honest ==
  \A r \in Requests :
    /\ pc[r] \in {"auditOk", "mark"} => r \in accepted
    /\ pc[r] = "mark" => audit[r] = "success"
    /\ pc[r] = "reply" => audit[r] = "replayed" \/ Finished(r)
    /\ answer[r] # "none" => pc[r] = "over"
    /\ answer[r] = "204" => audit[r] = "replayed" \/ Finished(r)

IInv == TypeOK /\ Held /\ Kept /\ Honest

\* No rows, no handlers: the invariant holds at the start.
LEMMA InitIInv == Init => IInv
BY DEF Init, IInv, TypeOK, Held, Kept, Honest, Holding, PCs

\* A claim takes a free key, which therefore nobody holds or was accepted with.
LEMMA ClaimIInv ==
  ASSUME IInv, NEW r \in Requests, Claim(r)
  PROVE  IInv'
<1> USE KeyAssumption DEF IInv, TypeOK, Holding, PCs, Goto
<1>1. CASE row[KeyOf[r]] = "absent"
  <2>1. TypeOK'
    BY <1>1 DEF Claim
  <2>2. /\ row' = [row EXCEPT ![KeyOf[r]] = "processing"]
        /\ owner' = [owner EXCEPT ![KeyOf[r]] = r]
        /\ pc' = [pc EXCEPT ![r] = "creds"]
        /\ UNCHANGED <<audit, answer, applied, accepted>>
    BY <1>1 DEF Claim
  <2>3. \A q \in Requests : KeyOf[q] = KeyOf[r] =>
          pc[q] \notin Holding /\ q \notin accepted
    BY <1>1 DEF Held, Kept
  <2>4. \A k \in Keys : k # KeyOf[r] => row'[k] = row[k] /\ owner'[k] = owner[k]
    BY <2>2
  <2>5. \A q \in Requests : q # r => pc'[q] = pc[q]
    BY <2>2
  <2>6. /\ row'[KeyOf[r]] = "processing" /\ owner'[KeyOf[r]] = r
        /\ pc'[r] = "creds" /\ pc[r] = "idle"
    BY <2>2 DEF Claim
  <2>7. Held'
    BY <2>3, <2>4, <2>5, <2>6 DEF Held
  <2>8. Kept'
    BY <2>2, <2>3, <2>4, <2>5 DEF Kept
  <2>9. \A q \in Requests : Finished(q) => Finished(q)'
    BY <2>2, <2>3, <2>4 DEF Finished
  <2>10. Honest'
    BY <2>2, <2>5, <2>6, <2>9 DEF Honest
  <2> QED
    BY <2>1, <2>7, <2>8, <2>10
<1>2. CASE row[KeyOf[r]] # "absent"
  BY <1>2 DEF Claim, Held, Kept, Honest, Finished
<1> QED
  BY <1>1, <1>2

\* The handler's own steps.
LEMMA HandleIInv ==
  ASSUME IInv, NEW r \in Requests, Handle(r)
  PROVE  IInv'
<1> USE KeyAssumption DEF IInv, TypeOK, Holding, PCs, Goto, Respond, Record
<1>1. CASE Replay(r)
  BY <1>1 DEF Replay, Held, Kept, Honest, Finished
<1>2. CASE LoadCredentials(r) \/ NoCredentials(r)
  BY <1>2 DEF LoadCredentials, NoCredentials, Held, Kept, Honest, Finished
<1>3. CASE ProviderAccepts(r)
  BY <1>3 DEF ProviderAccepts, Held, Kept, Honest, Finished
<1>4. CASE ProviderFails(r)
  <2>1. TypeOK' /\ Held'
    BY <1>4 DEF ProviderFails, Held
  <2> QED
    BY <1>4, <2>1 DEF ProviderFails, Kept, Honest, Finished
<1>5. CASE Release(r)
  <2>1. TypeOK'
    BY <1>5 DEF Release
  <2>2. \A q \in Requests : KeyOf[q] = KeyOf[r] /\ q # r =>
          pc[q] \notin Holding /\ q \notin accepted
    BY <1>5 DEF Release, Held, Kept
  <2>3. r \notin accepted
    BY <1>5 DEF Release, Kept
  <2>4. \A q \in Requests : KeyOf[q] # KeyOf[r] =>
          row'[KeyOf[q]] = row[KeyOf[q]]
    BY <1>5 DEF Release
  <2>5. Held' /\ Kept'
    BY <1>5, <2>2, <2>3, <2>4 DEF Release, Held, Kept
  <2>6. \A q \in Requests : Finished(q) => KeyOf[q] # KeyOf[r]
    BY <2>2, <2>3 DEF Finished
  <2>7. Honest'
    BY <1>5, <2>4, <2>6 DEF Release, Honest, Finished
  <2> QED
    BY <2>1, <2>5, <2>7
<1>6. CASE AuditOk(r)
  BY <1>6 DEF AuditOk, Held, Kept, Honest, Finished
<1>7. CASE AuditError(r) \/ AuditCut(r)
  BY <1>7 DEF AuditError, AuditCut, Held, Kept, Honest, Finished
<1>8. CASE Mark(r)
  <2>1. row' = [row EXCEPT ![KeyOf[r]] = "processed"]
    BY <1>8 DEF Mark, Held
  <2>2. TypeOK' /\ Kept'
    BY <1>8, <2>1 DEF Mark, Kept
  <2>3. Held'
    BY <1>8, <2>1 DEF Mark, Held
  <2>4. Honest'
    BY <1>8, <2>1 DEF Mark, Honest, Finished
  <2> QED
    BY <2>2, <2>3, <2>4
<1>9. CASE Reply(r)
  BY <1>9 DEF Reply, Held, Kept, Honest, Finished
<1> QED
  BY <1>1, <1>2, <1>3, <1>4, <1>5, <1>6, <1>7, <1>8, <1>9 DEF Handle

\* Faults cut handlers short; they never touch a row.
LEMMA FaultIInv ==
  ASSUME IInv, NEW r \in Requests, Fault(r)
  PROVE  IInv'
<1> USE KeyAssumption DEF IInv, TypeOK, Holding, PCs, Goto, Respond, Record
<1>1. CASE Cancelled(r)
  BY <1>1 DEF Cancelled, Held, Kept, Honest, Finished
<1>2. CASE ReleaseFails(r)
  BY <1>2 DEF ReleaseFails, Held, Kept, Honest, Finished
<1>3. CASE DatabaseFails(r)
  BY <1>3 DEF DatabaseFails, Held, Kept, Honest, Finished
<1>4. CASE Crash(r)
  BY <1>4 DEF Crash, Held, Kept, Honest, Finished
<1> QED
  BY <1>1, <1>2, <1>3, <1>4 DEF Fault

\* Who owns a key, and what each stage of a handler has done, is invariant.
THEOREM Invariance == Spec => []IInv
<1>1. IInv /\ [Next]_vars => IInv'
  <2>1. CASE UNCHANGED vars
    BY <2>1 DEF vars, IInv, TypeOK, Held, Kept, Honest, Finished
  <2> QED
    BY <2>1, ClaimIInv, HandleIInv, FaultIInv DEF Next
<1> QED
  BY <1>1, InitIInv, PTL DEF Spec

\* Every variable keeps its type.
THEOREM TypeCorrect == Spec => []TypeOK
<1>1. IInv => TypeOK
  BY DEF IInv
<1> QED
  BY <1>1, Invariance, PTL

\* A key is in the hands of one handler at a time (sims.py, between the claim
\* and the release or the mark).
THEOREM HeldAlone == Spec => []KeyIsHeldAlone
<1>1. IInv => KeyIsHeldAlone
  BY DEF IInv, Held, KeyIsHeldAlone, Same
<1> QED
  BY <1>1, Invariance, PTL

\* The provider accepts at most one write per idempotency key, and no request
\* is let through to it afterwards, whatever fails and however often the client
\* retries (ADR-009).
THEOREM AcceptedOnlyOnce == Spec => []AcceptedOnce
<1>1. IInv => AcceptedOnce
  BY DEF IInv, TypeOK, Held, Kept, AcceptedOnce, Same, Holding
<1> QED
  BY <1>1, Invariance, PTL

\* A client that gets 204 for its own write can rely on it.
THEOREM FirstAnswersAreTrue == Spec => []FirstAnswerIsTrue
<1>1. IInv => FirstAnswerIsTrue
  BY DEF IInv, Honest, Finished, FirstAnswerIsTrue
<1> QED
  BY <1>1, Invariance, PTL

-----------------------------------------------------------------------------
(* IdempotentWrite implements WriteContract. *)

\* A row was made by somebody who is no longer idle; nothing is audited too early.
Begun ==
  /\ \A k \in Keys : row[k] # "absent" => owner[k] # NoReq
  /\ \A k \in Keys : \A r \in Requests : owner[k] = r => pc[r] # "idle"
  /\ \A r \in Requests : pc[r] \notin {"mark", "reply", "over"} => audit[r] = "none"

LEMMA BegunHolds == Spec => []Begun
<1>1. Init => Begun
  BY KeyAssumption DEF Init, Begun
<1>2. IInv /\ Begun /\ [Next]_vars => Begun'
  <2> SUFFICES ASSUME IInv, Begun, [Next]_vars PROVE Begun'
    OBVIOUS
  <2> USE DEF Begun, IInv, TypeOK, Goto, Respond, Record, Holding
  <2>1. ASSUME NEW r \in Requests, Claim(r) PROVE Begun'
    BY <2>1, KeyAssumption DEF Claim
  <2>2. ASSUME NEW r \in Requests, Handle(r) PROVE Begun'
    BY <2>2, KeyAssumption DEF Handle, Replay, LoadCredentials, NoCredentials, ProviderAccepts, ProviderFails,
       Release, AuditOk, AuditError, AuditCut, Mark, Reply
  <2>3. ASSUME NEW r \in Requests, Fault(r) PROVE Begun'
    BY <2>3 DEF Fault, Cancelled, ReleaseFails, DatabaseFails, Crash
  <2>4. CASE UNCHANGED vars
    BY <2>4 DEF vars
  <2> QED
    BY <2>1, <2>2, <2>3, <2>4 DEF Next
<1> QED
  BY <1>1, <1>2, Invariance, PTL DEF Spec

Taken == [k \in Keys |-> IF row[k] = "absent" THEN NoReq ELSE owner[k]]
Turned == {r \in Requests : pc[r] = "replay" \/ audit[r] = "replayed"}

\* The contract's variables do not change, in either of two ways.
LEMMA Stutters ==
  ASSUME Taken' = Taken, Turned' = Turned, UNCHANGED <<accepted, answer>>
  PROVE  UNCHANGED Contract!contractVars
  BY DEF Contract!contractVars, Taken, Turned

LEMMA Breaks ==
  ASSUME NEW r \in Requests, Taken' = Taken, UNCHANGED accepted,
         Turned' = Turned \/ Turned' = Turned \ {r}, answer[r] = "none",
         UNCHANGED answer \/ answer' = [answer EXCEPT ![r] = "error"]
  PROVE  Contract!Next
<1>1. Contract!Break(r)
  BY DEF Contract!Break, Taken, Turned
<1> QED
  BY <1>1 DEF Contract!Next

\* A claim takes a free key, or is turned away by one that another has taken.
LEMMA ClaimImplements ==
  ASSUME IInv, Begun, NEW r \in Requests, Claim(r)
  PROVE  Contract!Next
<1> DEFINE k == KeyOf[r]
<1>1. k \in Keys /\ NoReq \notin Requests /\ pc[r] = "idle" /\ answer[r] = "none"
  BY KeyAssumption DEF Claim, IInv, Honest
<1>2. CASE row[k] = "absent"
  <2>1. Taken[k] = NoReq /\ Taken' = [Taken EXCEPT ![k] = r]
    BY <1>1, <1>2 DEF Claim, Taken, IInv, TypeOK
  <2>2. Turned' = Turned
    BY <1>2 DEF Claim, Turned, IInv, TypeOK, Goto
  <2>3. Contract!Take(r)
    BY <1>1, <1>2, <2>1, <2>2 DEF Contract!Take, Taken, Turned, Claim
  <2> QED
    BY <2>3 DEF Contract!Next
<1>3. CASE row[k] # "absent"
  <2>1. Taken[k] # NoReq /\ Taken[k] # r /\ Taken' = Taken
    <3>1. owner[k] # r
      BY <1>1 DEF Begun
    <3>2. owner[k] # NoReq
      BY <1>1, <1>3 DEF Begun
    <3> QED
      BY <1>1, <1>3, <3>1, <3>2 DEF Claim, Taken
  <2>2. Turned' = Turned \cup {r}
    BY <1>3 DEF Claim, Turned, IInv, TypeOK, Goto
  <2>3. Contract!TurnAway(r)
    BY <1>1, <1>3, <2>1, <2>2 DEF Contract!TurnAway, Contract!Has, Taken, Turned, Claim
  <2> QED
    BY <2>3 DEF Contract!Next
<1> QED
  BY <1>2, <1>3

\* The provider gets the writes of those who have taken their keys, and only a
\* key with which nothing was accepted is given up.
LEMMA HandleImplements ==
  ASSUME IInv, Begun, NEW r \in Requests, Handle(r)
  PROVE  Contract!Next \/ UNCHANGED Contract!contractVars
<1> USE DEF Goto, Respond, Record
<1>1. TypeOK /\ KeyOf[r] \in Keys /\ NoReq \notin Requests /\ KeyOf \in [Requests -> Keys]
  BY KeyAssumption DEF IInv
<1>2. pc[r] # "over" => answer[r] = "none"
  BY DEF IInv, Honest
<1>3. CASE Replay(r)
  BY <1>1, <1>3, Stutters DEF Replay, Taken, Turned, TypeOK
<1>4. CASE LoadCredentials(r)
  BY <1>1, <1>4, Stutters DEF LoadCredentials, Taken, Turned, TypeOK
<1>5. CASE NoCredentials(r)
  BY <1>1, <1>2, <1>5, Breaks DEF NoCredentials, Taken, Turned, TypeOK
<1>6. CASE ProviderAccepts(r)
  <2>1. Taken[KeyOf[r]] = r /\ Taken' = Taken /\ Turned' = Turned
    BY <1>1, <1>6 DEF ProviderAccepts, Taken, Turned, TypeOK, IInv, Held, Holding
  <2>2. Contract!Accept(r)
    BY <1>2, <1>6, <2>1 DEF ProviderAccepts, Contract!Accept, Contract!Has, Taken, Turned
  <2> QED
    BY <2>2 DEF Contract!Next
<1>7. CASE ProviderFails(r)
  BY <1>1, <1>7, Stutters DEF ProviderFails, Taken, Turned, TypeOK
<1>8. CASE Release(r)
  <2>1. row[KeyOf[r]] = "processing" /\ owner[KeyOf[r]] = r /\ r \notin accepted
    BY <1>8 DEF Release, IInv, Held, Kept, Holding
  <2>2. Taken[KeyOf[r]] = r /\ Taken' = [Taken EXCEPT ![KeyOf[r]] = NoReq] /\ Turned' = Turned
    BY <1>1, <1>8, <2>1 DEF Release, Taken, Turned, TypeOK
  <2>3. Contract!GiveUp(r)
    BY <1>8, <2>1, <2>2 DEF Release, Contract!GiveUp, Contract!Has, Taken, Turned
  <2> QED
    BY <2>3 DEF Contract!Next
<1>9. CASE AuditOk(r) \/ AuditCut(r)
  <2>1. audit[r] = "none" /\ Taken' = Taken /\ Turned' = Turned
    BY <1>1, <1>9 DEF AuditOk, AuditCut, Taken, Turned, TypeOK, Begun
  <2> QED
    BY <1>9, <2>1, Stutters DEF AuditOk, AuditCut
<1>10. CASE AuditError(r)
  <2>1. audit[r] = "none" /\ Taken' = Taken /\ Turned' = Turned
    BY <1>1, <1>10 DEF AuditError, Taken, Turned, TypeOK, Begun
  <2> QED
    BY <1>2, <1>10, <2>1, Breaks DEF AuditError
<1>11. CASE Mark(r)
  <2>1. Taken' = Taken /\ Turned' = Turned
    BY <1>1, <1>11 DEF Mark, Taken, Turned, TypeOK
  <2> QED
    BY <1>11, <2>1, Stutters DEF Mark
<1>12. CASE Reply(r)
  <2>1. r \in accepted \/ audit[r] = "replayed"
    BY <1>12 DEF Reply, IInv, Honest, Finished
  <2>2. Taken' = Taken /\ Turned' = Turned
    BY <1>1, <1>12 DEF Reply, Taken, Turned, TypeOK
  <2>3. Contract!Confirm(r)
    BY <1>2, <1>12, <2>1, <2>2 DEF Reply, Contract!Confirm, Taken, Turned
  <2> QED
    BY <2>3 DEF Contract!Next
<1> QED
  BY <1>3, <1>4, <1>5, <1>6, <1>7, <1>8, <1>9, <1>10, <1>11, <1>12 DEF Handle

\* A fault ends a request, or nothing that the contract speaks of.
LEMMA FaultImplements ==
  ASSUME IInv, Begun, NEW r \in Requests, Fault(r)
  PROVE  Contract!Next \/ UNCHANGED Contract!contractVars
<1> USE DEF Goto, Respond, Record
<1>1. TypeOK /\ (pc[r] # "over" => answer[r] = "none")
  BY DEF IInv, Honest
<1>2. CASE Cancelled(r) \/ ReleaseFails(r)
  <2>1. Taken' = Taken /\ Turned' = Turned
    BY <1>1, <1>2 DEF Cancelled, ReleaseFails, Taken, Turned, TypeOK
  <2> QED
    BY <1>2, <2>1, Stutters DEF Cancelled, ReleaseFails
<1>3. CASE DatabaseFails(r) \/ Crash(r)
  <2>1. Taken' = Taken /\ (Turned' = Turned \/ Turned' = Turned \ {r})
    BY <1>1, <1>3 DEF DatabaseFails, Crash, Taken, Turned, TypeOK
  <2> QED
    BY <1>1, <1>3, <2>1, Breaks DEF DatabaseFails, Crash
<1> QED
  BY <1>2, <1>3 DEF Fault

\* The handlers keep what a key promises, whatever fails and whoever retries
\* (ADR-007, ADR-009): every step of theirs is a step of WriteContract or none.
THEOREM Refinement == Spec => ImplementsContract
<1>1. Init => Contract!Init
  BY DEF Init, Contract!Init
<1>2. IInv /\ Begun /\ [Next]_vars => [Contract!Next]_Contract!contractVars
  <2>1. UNCHANGED vars => UNCHANGED Contract!contractVars
    BY DEF vars, Contract!contractVars
  <2> QED
    BY <2>1, ClaimImplements, HandleImplements, FaultImplements DEF Next
<1> QED
  BY <1>1, <1>2, Invariance, BegunHolds, PTL DEF Spec, ImplementsContract, Contract!Spec
=============================================================================
