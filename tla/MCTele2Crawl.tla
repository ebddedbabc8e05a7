---------------------------- MODULE MCTele2Crawl ----------------------------
(* Small instances of Tele2Crawl for TLC. *)
EXTENDS Tele2Crawl

CONSTANTS worker, other, third

OneProcess == [c \in Calls |-> worker]
=============================================================================
