----------------------------- MODULE MCSessions -----------------------------
(* Small instances of Sessions for TLC. *)
EXTENDS Sessions, TLC

CONSTANTS t1, t2, t3, t4, r1, r2, r3

MCTokens == {t1, t2, t3}
MCFourTokens == {t1, t2, t3, t4}
MCRequests == {r1, r2, r3}
MCTwoRequests == {r1, r2}

\* Tokens and requests are interchangeable; no liveness is checked with it.
MCSymmetry == Permutations(MCRequests) \cup Permutations(MCFourTokens)

============================================================================
