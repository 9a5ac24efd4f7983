------------------------------ MODULE MCOutbox ------------------------------
(* Small instances of Outbox for TLC. *)
EXTENDS Outbox, TLC

CONSTANTS m1, m2, w1, w2

MCMessages == {m1, m2}
MCWorkers == {w1, w2}
MCLifetimes == {2}
MCShortLifetimes == {1}
MCRetryDelays == {1}

\* Messages and workers are interchangeable; no liveness is checked with it.
MCSymmetry == Permutations(MCMessages) \cup Permutations(MCWorkers)

============================================================================
