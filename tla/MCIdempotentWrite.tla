------------------------- MODULE MCIdempotentWrite -------------------------
(* Small instances of IdempotentWrite for TLC. *)
EXTENDS IdempotentWrite, TLC

CONSTANTS r1, r2, r3, r4, ka, kb

\* Three tries with one key, and one with a key of its own.
Retries == (r1 :> ka) @@ (r2 :> ka) @@ (r3 :> ka) @@ (r4 :> kb)
Twice == [r \in {r1, r2} |-> ka]

TrySymmetry == Permutations({r1, r2, r3})
=============================================================================
