---------------------------- MODULE MCInterviews ----------------------------
(* Small instances of Interviews for TLC. *)
EXTENDS Interviews, TLC

CONSTANTS i1, i2, r1, r2

MCInterviewIds == {i1, i2}
MCRequests == {r1, r2}

NoEdit == [status |-> {}, start |-> {}, duration |-> {}, feedback |-> {}]

\* One column at a time, completion with feedback, and a later, longer slot.
MCEdits ==
    {[NoEdit EXCEPT !.status = {s}] : s \in Statuses}
    \cup {[NoEdit EXCEPT !.start = {s}] : s \in Slots}
    \cup {[NoEdit EXCEPT !.duration = {d}] : d \in Durations}
    \cup {[NoEdit EXCEPT !.feedback = {f}] : f \in BOOLEAN}
    \cup {[NoEdit EXCEPT !.status = {"completed"}, !.feedback = {TRUE}],
          [NoEdit EXCEPT !.start = {LastSlot}, !.duration = {MaxDuration}]}

\* Interviews and requests are interchangeable; no liveness is checked with it.
MCSymmetry == Permutations(MCInterviewIds) \cup Permutations(MCRequests)

=============================================================================
