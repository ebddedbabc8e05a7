---------------------------- MODULE MCSimListing ----------------------------
(* Sources and orders of SimListing for TLC. *)
EXTENDS SimListing

CONSTANTS c1, c2, any, s1, s2

src(p, o, s) == [provider |-> p, owner |-> o, status |-> s]

\* A tenant with all three providers; a search for two statuses of Kite and one
\* of Tele2; an administrator over two companies.
AllSources ==
  [global |-> {src("kite", c1, any), src("tele2", c1, any), src("moabits", c1, any)},
   search |-> {src("kite", c1, s1), src("kite", c1, s2), src("tele2", c1, any)},
   admin |-> {src("kite", c1, any), src("kite", c2, any), src("moabits", c1, any)},
   adminSearch |-> {src("kite", c1, s1), src("kite", c1, s2), src("kite", c2, s1)}]

GlobalSources == [global |-> AllSources["global"]]

\* Providers in the order of their enumeration, then companies, then statuses.
ProviderOrder(p) == CASE p = "kite" -> 0 [] p = "tele2" -> 1 [] p = "moabits" -> 2

ListingOrder ==
  [s \in Source |-> ProviderOrder(s.provider) * 4
                    + (IF s.owner = c2 THEN 2 ELSE 0) + (IF s.status = s2 THEN 1 ELSE 0)]

\* Tele2's pages are capped below what a single source is asked for.
Caps == [kite |-> 9, tele2 |-> 2, moabits |-> 3]
=============================================================================
