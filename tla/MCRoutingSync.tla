--------------------------- MODULE MCRoutingSync ---------------------------
(* Small instances of RoutingSync for TLC. *)
EXTENDS RoutingSync

CONSTANTS k1, k2, j1, j2, s1, s2, s3

\* One key with two rows to use.
OneKeyOf == [j \in {j1, j2} |-> k1]
OneJobOf == [j \in {j1} |-> k1]

\* Four pages, one of them empty.
OneListing == [k \in {k1} |-> <<{s1}, {}, {s2}, {s3}>>]
EmptyPage == [k \in {k1} |-> <<{}>>]
=============================================================================
