--------------------------- MODULE MCApplications ---------------------------
(* Small instances of Applications for TLC. *)
EXTENDS Applications, TLC

CONSTANTS a1, a2, j1, i1, r1, r2

MCApps == {a1, a2}
MCJobs == {j1}
MCInterviews == {i1}
MCRequests == {r1, r2}
MCDateInputs == {0, 1}
MCAllDates == {0, 1, 2}

\* Applications and requests are interchangeable; no liveness is checked with it.
MCSymmetry == Permutations(MCApps) \cup Permutations(MCRequests)

=============================================================================
