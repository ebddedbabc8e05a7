---------------------------- MODULE MCSimReads ----------------------------
(* A small instance of SimReads for TLC. *)
EXTENDS SimReads

CONSTANTS r1, r2, c1, c2, p1, p2, s1, s2, s3, f1, f2

Order == <<p1, p2>>

\* c1 has accounts with both providers, c2 with one; no provider lists s3, which has
\* its prefix in common with s2.
AccountsOf == [c \in {c1, c2} |-> IF c = c1 THEN {p1, p2} ELSE {p1}]
HoldsOf ==
  [c \in {c1, c2} |-> [p \in {p1, p2} |->
     IF c = c2 THEN {} ELSE IF p = p1 THEN {s1, s2} ELSE {}]]
SixDigits == [i \in {s1, s2, s3} |-> IF i = s1 THEN f1 ELSE f2]
NoSeeds == [f \in {f1, f2} |-> None]

anAsk(op, c, sims) ==
  [op |-> op, company |-> c, iccids |-> sims, only |-> {}, rows |-> <<>>, accounts |-> <<>>]

rowOf(i, p) == [iccid |-> i, provider |-> p]

Batch == [anAsk("batch", c1, <<s1, s3>>) EXCEPT !.only = {p2}]
Search == anAsk("search", c1, <<s1>>)
ListBoth == [anAsk("list", c1, <<>>) EXCEPT !.rows = <<rowOf(s2, p1), rowOf(s1, p1)>>]
Get == anAsk("get", c1, <<s2>>)
ImportBoth == [anAsk("import", c2, <<>>) EXCEPT !.rows = <<rowOf(s1, p1), rowOf(s3, p2)>>]
AllStats == [anAsk("stats", c1, <<>>) EXCEPT !.accounts = <<Account(c1, p1)>>]

AsksOf ==
  [r \in {r1, r2} |-> IF r = r1 THEN {Batch, Search, ListBoth, AllStats} ELSE {Get, ImportBoth}]
=============================================================================
