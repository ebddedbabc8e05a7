--------------------------- MODULE IdempotentWrite ---------------------------
(***************************************************************************)
(* PUT /v1/sims/{iccid}/status and POST /v1/sims/{iccid}/purge: concurrent *)
(* handlers (app/subscriptions/routers/sims.py), the idempotency_keys rows *)
(* they claim and release, the lifecycle_change_audit rows they write      *)
(* (app/subscriptions/services/idempotency.py), and the provider they call.*)
(*                                                                         *)
(* A request carries an Idempotency-Key and a write (a SIM and what to do  *)
(* to it).  A client retry is another request with the same key.  Company  *)
(* and key together make one member of Keys.  A step is one transaction or *)
(* one provider call.                                                      *)
(***************************************************************************)
EXTENDS Naturals, FiniteSets

CONSTANTS
  Requests, \* requests ever received
  Keys,     \* (company, Idempotency-Key) pairs
  KeyOf,    \* KeyOf[r]: the key request r carries
  NoReq     \* nobody

ASSUME KeyAssumption == KeyOf \in [Requests -> Keys] /\ NoReq \notin Requests

VARIABLES
  row,      \* idempotency_keys: is there a row, and what response it stores
  pc,       \* where each handler is
  audit,    \* the lifecycle_change_audit row of a request
  answer,   \* what the client got: 204, an error response, or nothing yet
  applied,  \* requests whose provider call took effect
  accepted, \* requests whose provider call returned normally
  owner     \* history: the request whose INSERT made the row

vars == <<row, pc, audit, answer, applied, accepted, owner>>

\* A handler between its claim and the fate of the key it claimed.
Holding == {"creds", "call", "release", "auditOk", "mark"}

PCs == Holding \cup
         {"idle", "replay", "auditErr", "auditCut", "reply", "over"}

TypeOK ==
  /\ row \in [Keys -> {"absent", "processing", "processed"}]
  /\ pc \in [Requests -> PCs]
  /\ audit \in [Requests -> {"none", "success", "error", "replayed"}]
  /\ answer \in [Requests -> {"none", "204", "error"}]
  /\ applied \subseteq Requests
  /\ accepted \subseteq Requests
  /\ owner \in [Keys -> Requests \cup {NoReq}]

Init ==
  /\ row = [k \in Keys |-> "absent"]
  /\ pc = [r \in Requests |-> "idle"]
  /\ audit = [r \in Requests |-> "none"]
  /\ answer = [r \in Requests |-> "none"]
  /\ applied = {} /\ accepted = {}
  /\ owner = [k \in Keys |-> NoReq]

Goto(r, l) == pc' = [pc EXCEPT ![r] = l]
Respond(r, a) == Goto(r, "over") /\ answer' = [answer EXCEPT ![r] = a]
Record(r, outcome) == audit' = [audit EXCEPT ![r] = outcome]

-----------------------------------------------------------------------------
(* The handler *)

\* Mutant of Claim: a key still "processing" can be claimed again.
ClaimUnfinished(r) ==
  /\ pc[r] = "idle"
  /\ IF row[KeyOf[r]] # "processed"
     THEN /\ row' = [row EXCEPT ![KeyOf[r]] = "processing"]
          /\ owner' = [owner EXCEPT ![KeyOf[r]] = r]
          /\ Goto(r, "creds")
     ELSE Goto(r, "replay") /\ UNCHANGED <<row, owner>>
  /\ UNCHANGED <<audit, answer, applied, accepted>>

\* _claim_idempotency_key: INSERT ... ON CONFLICT DO NOTHING, committed.
Claim(r) ==
  /\ pc[r] = "idle"
  /\ IF row[KeyOf[r]] = "absent"
     THEN /\ row' = [row EXCEPT ![KeyOf[r]] = "processing"]
          /\ owner' = [owner EXCEPT ![KeyOf[r]] = r]
          /\ Goto(r, "creds")
     ELSE Goto(r, "replay") /\ UNCHANGED <<row, owner>>
  /\ UNCHANGED <<audit, answer, applied, accepted>>

\* The key was taken: audit "replayed".
Replay(r) ==
  /\ pc[r] = "replay"
  /\ Record(r, "replayed")
  /\ Goto(r, "reply")
  /\ UNCHANGED <<row, answer, applied, accepted, owner>>

\* _load_credentials and registry.get, before the try block ...
LoadCredentials(r) ==
  /\ pc[r] = "creds"
  /\ Goto(r, "call")
  /\ UNCHANGED <<row, audit, answer, applied, accepted, owner>>

\* ... CredentialsMissing, a missing Moabits mapping, an unknown provider.
NoCredentials(r) ==
  /\ pc[r] = "creds"
  /\ Respond(r, "error")
  /\ UNCHANGED <<row, audit, applied, accepted, owner>>

\* The adapter returns.
ProviderAccepts(r) ==
  /\ pc[r] = "call"
  /\ applied' = applied \cup {r}
  /\ accepted' = accepted \cup {r}
  /\ Goto(r, "auditOk")
  /\ UNCHANGED <<row, audit, answer, owner>>

\* The adapter raises: refused, or the answer to an applied write was lost.
ProviderFails(r) ==
  /\ pc[r] = "call"
  /\ applied' \in {applied, applied \cup {r}}
  /\ Goto(r, "release")
  /\ UNCHANGED <<row, audit, answer, accepted, owner>>

\* Mutant of Cancelled: the cancellation is swallowed.
CancelledIgnored(r) ==
  /\ pc[r] = "call"
  /\ applied' \in {applied, applied \cup {r}}
  /\ Goto(r, "auditOk")
  /\ UNCHANGED <<row, audit, answer, accepted, owner>>

\* CancelledError out of the adapter call (forced shutdown): not an Exception,
\* so only the finally block runs, with the outcome it was initialised to.
Cancelled(r) ==
  /\ pc[r] = "call"
  /\ applied' \in {applied, applied \cup {r}}
  /\ Goto(r, "auditCut")
  /\ UNCHANGED <<row, audit, answer, accepted, owner>>

\* _release_idempotency_key: DELETE ... WHERE response = "processing".
Release(r) ==
  /\ pc[r] = "release"
  /\ row' = [row EXCEPT ![KeyOf[r]] = IF @ = "processing" THEN "absent" ELSE @]
  /\ Goto(r, "auditErr")
  /\ UNCHANGED <<audit, answer, applied, accepted, owner>>

\* The DELETE fails; the finally block runs all the same.
ReleaseFails(r) ==
  /\ pc[r] = "release"
  /\ Goto(r, "auditErr")
  /\ UNCHANGED <<row, audit, answer, applied, accepted, owner>>

\* The finally block: the audit row, then on to the mark or out with the error.
AuditOk(r) ==
  /\ pc[r] = "auditOk"
  /\ Record(r, "success")
  /\ Goto(r, "mark")
  /\ UNCHANGED <<row, answer, applied, accepted, owner>>

AuditError(r) ==
  /\ pc[r] = "auditErr"
  /\ Record(r, "error")
  /\ Respond(r, "error")
  /\ UNCHANGED <<row, applied, accepted, owner>>

AuditCut(r) ==
  /\ pc[r] = "auditCut"
  /\ Record(r, "success")
  /\ Goto(r, "over")
  /\ UNCHANGED <<row, answer, applied, accepted, owner>>

\* Mutant of Mark: the key is given up once the write is done.
MarkDeletes(r) ==
  /\ pc[r] = "mark"
  /\ row' = [row EXCEPT ![KeyOf[r]] = "absent"]
  /\ Goto(r, "reply")
  /\ UNCHANGED <<audit, answer, applied, accepted, owner>>

\* _mark_idempotency_processed: UPDATE the row, if there is one.
Mark(r) ==
  /\ pc[r] = "mark"
  /\ row' = [row EXCEPT ![KeyOf[r]] = IF @ = "absent" THEN @ ELSE "processed"]
  /\ Goto(r, "reply")
  /\ UNCHANGED <<audit, answer, applied, accepted, owner>>

Reply(r) ==
  /\ pc[r] = "reply"
  /\ Respond(r, "204")
  /\ UNCHANGED <<row, audit, applied, accepted, owner>>

\* Mutant of DatabaseFails: whatever fails, the key is given back.
DatabaseFailsReleasing(r) ==
  /\ pc[r] \in {"replay", "creds", "auditOk", "auditErr", "auditCut", "mark",
               "reply"}
  /\ row' = [row EXCEPT ![KeyOf[r]] = "absent"]
  /\ Respond(r, "error")
  /\ UNCHANGED <<audit, applied, accepted, owner>>

\* The database fails at the current await, or after a commit the handler does
\* not hear of ("creds", "mark", "reply"): a 500, nothing more is written.
DatabaseFails(r) ==
  /\ pc[r] \in {"replay", "creds", "auditOk", "auditErr", "auditCut", "mark",
               "reply"}
  /\ Respond(r, "error")
  /\ UNCHANGED <<row, audit, applied, accepted, owner>>

\* The process dies; a provider call under way may still take effect.
Crash(r) ==
  /\ pc[r] \notin {"idle", "over"}
  /\ IF pc[r] = "call" THEN applied' \in {applied, applied \cup {r}}
     ELSE UNCHANGED applied
  /\ Goto(r, "over")
  /\ UNCHANGED <<row, audit, answer, accepted, owner>>

Handle(r) ==
  \/ Replay(r) \/ LoadCredentials(r) \/ NoCredentials(r)
  \/ ProviderAccepts(r) \/ ProviderFails(r) \/ Release(r) \/ AuditOk(r)
  \/ AuditError(r) \/ AuditCut(r) \/ Mark(r) \/ Reply(r)

Fault(r) == Cancelled(r) \/ ReleaseFails(r) \/ DatabaseFails(r) \/ Crash(r)

Next == \E r \in Requests : Claim(r) \/ Handle(r) \/ Fault(r)

Spec == Init /\ [][Next]_vars

\* Days on which only the provider and the credentials give trouble.
CalmSpec == Init /\ [][\E r \in Requests : Claim(r) \/ Handle(r)]_vars

-----------------------------------------------------------------------------
(* Properties *)

Same(q, r) == q # r /\ KeyOf[q] = KeyOf[r]

\* Between claim and release or mark (sims.py), a handler is alone with its
\* key, whatever retries, failed releases and crashes came before: the row is
\* its own and still says "processing".
KeyIsHeldAlone ==
  \A r \in Requests : pc[r] \in Holding =>
    /\ row[KeyOf[r]] = "processing" /\ owner[KeyOf[r]] = r
    /\ \A q \in Requests : Same(q, r) => pc[q] \notin Holding

\* ADR-009: a key invokes the provider once.  Once the provider has accepted
\* the write of a key, no other request with that key is let through to it or
\* accepted by it, ever after.
AcceptedOnce ==
  \A r \in accepted, q \in Requests : Same(q, r) =>
    q \notin accepted /\ pc[q] \notin {"creds", "call", "release"}

\* A first answer of 204 (sims.py, Mark) tells the truth: the provider took the
\* write, the audit says so, and the stored response will never be taken back.
FirstAnswerIsTrue ==
  \A r \in Requests : answer[r] = "204" /\ audit[r] # "replayed" =>
    /\ r \in accepted /\ audit[r] = "success"
    /\ row[KeyOf[r]] = "processed"

\* What a key promises, step by step, whatever fails between two of the
\* handler's statements: see WriteContract.
Contract == INSTANCE WriteContract
              WITH taken <- [k \in Keys |-> IF row[k] = "absent" THEN NoReq ELSE owner[k]],
                   turned <- {r \in Requests : pc[r] = "replay" \/ audit[r] = "replayed"}
ImplementsContract == Contract!Spec

\* ADR-007 section 6: a repeated call returns the original response (violated:
\* a claim whose credentials could not be loaded is kept, and replayed as 204).
ReplayReturnsOriginal ==
  \A r, q \in Requests :
    audit[r] = "replayed" /\ answer[r] = "204" /\ owner[KeyOf[r]] = q
      /\ row[KeyOf[r]] # "absent" => answer[q] # "error"
=============================================================================
