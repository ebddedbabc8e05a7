---------------------------- MODULE MCProviderCalls ----------------------------
(* A small instance of ProviderCalls for TLC. *)
EXTENDS ProviderCalls

CONSTANTS c1, c2, s1

OpsOfCalls ==
  [c \in {c1, c2} |-> IF c = c1 THEN {"list", "write"} ELSE {"sim", "list", "kread", "kwrite"}]

OnePage == {{s1}}
=============================================================================
