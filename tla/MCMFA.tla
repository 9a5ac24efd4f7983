------------------------------- MODULE MCMFA --------------------------------
(* Small instances of MFA for TLC. *)
EXTENDS MFA, TLC

CONSTANTS c1, c2, s1, s2, b1, b2, b3, r1, r2

MCChallenges == {c1, c2}
MCSecrets == {s1, s2}
MCBatches == {b1, b2, b3}
MCRequests == {r1, r2}

\* Random values and requests are interchangeable; no liveness is checked with it.
MCSymmetry ==
    Permutations(MCChallenges) \cup Permutations(MCSecrets)
    \cup Permutations(MCBatches) \cup Permutations(MCRequests)

=============================================================================
