---------------------------- MODULE SyncContract ----------------------------
(***************************************************************************)
(* What ADR-012 promises of routing synchronisation, without queue, pages, *)
(* cursors, clocks or processes: rows of sync_jobs move between statuses,  *)
(* the routing map absorbs SIMs of the key a job is for, and a row becomes *)
(* "done" only in a state where every listed SIM of its key is routed.     *)
(***************************************************************************)
EXTENDS Naturals, Sequences

CONSTANTS Keys, Jobs, KeyOf, Sims, Listing, NoKey

VARIABLES status, routing

Statuses == {"absent", "pending", "running", "done", "failed"}

contractVars == <<status, routing>>

Inventory(k) == UNION {Listing[k][p] : p \in 1 .. Len(Listing[k])}

Complete(k) == \A s \in Inventory(k) : routing[s] = k

Init ==
  /\ status = [j \in Jobs |-> "absent"]
  /\ routing = [s \in Sims |-> NoKey]

\* Rows are created, started and given up; the routing map does not change.
\* A row never disappears and never starts out as anything but pending.
Administer ==
  /\ status' \in [Jobs -> Statuses]
  /\ \A j \in Jobs : status'[j] # status[j] =>
       IF status[j] = "absent" THEN status'[j] = "pending"
       ELSE status'[j] \in {"running", "failed"}
  /\ UNCHANGED routing

\* Some SIMs of the job's key enter the routing map; none leaves it.
Absorb(j) ==
  /\ status[j] # "absent"
  /\ \E S \in SUBSET Inventory(KeyOf[j]) :
       routing' = [s \in Sims |-> IF s \in S THEN KeyOf[j] ELSE routing[s]]
  /\ UNCHANGED status

\* The job reports success.
Succeed(j) ==
  /\ status[j] # "absent"
  /\ Complete(KeyOf[j])
  /\ status' = [status EXCEPT ![j] = "done"]
  /\ UNCHANGED routing

Next ==
  \/ Administer
  \/ \E j \in Jobs : Absorb(j) \/ Succeed(j)

Spec == Init /\ [][Next]_contractVars
=============================================================================
