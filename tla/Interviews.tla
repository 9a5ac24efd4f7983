----------------------------- MODULE Interviews -----------------------------
(***************************************************************************)
(* The interviews of one owner (services/interview_service.py) and the     *)
(* constraints that guard them in PostgreSQL (models/interview.py).        *)
(*                                                                         *)
(* Creating and editing an interview are a read that validates, then a     *)
(* write that commits.  Creations for different applications and all edits *)
(* run concurrently: no common row is locked.  Which applications accept   *)
(* interviews is module Applications.                                      *)
(*                                                                         *)
(* Time is counted in slots; a row holds its start, its duration and the   *)
(* derived end.  Feedback is there or not.  Only columns that differ from  *)
(* what was loaded are written, so a request remembers the row it saw and  *)
(* the row it wants.                                                       *)
(***************************************************************************)
EXTENDS Integers

CONSTANTS
    Interviews,   \* interview identifiers
    Requests,     \* requests that can be in flight at once
    LastSlot,     \* bound: the last slot an interview may start in
    MaxDuration,  \* InterviewRepository.MAX_DURATION and the schema's limit
    Edits,        \* bound: what clients send, see Edit
    None          \* nothing, nobody

ASSUME InterviewsAssumption ==
    /\ None \notin Interviews
    /\ LastSlot \in Nat
    /\ MaxDuration \in Nat \ {0}

VARIABLES
    row,  \* row[i]: the committed row of interview i
    req   \* req[r]: what request r has read and wants to write

vars == <<row, req>>

Statuses == {"scheduled", "completed", "cancelled"}
Slots == 0..LastSlot
Durations == 1..MaxDuration

Row == [status : Statuses \cup {"absent", "deleted"}, start : Slots,
        duration : Durations, end : Nat, feedback : BOOLEAN]

Absent == [status |-> "absent", start |-> 0, duration |-> 1, end |-> 1, feedback |-> FALSE]

\* The columns a client may send; a set is empty if the column is not sent.
Edit == [status : SUBSET Statuses, start : SUBSET Slots,
         duration : SUBSET Durations, feedback : SUBSET BOOLEAN]

ASSUME EditsAssumption == Edits \subseteq Edit

Request == [op : {"none", "create", "update"}, id : Interviews \cup {None},
            seen : Row, target : Row]

Resting == [op |-> "none", id |-> None, seen |-> Absent, target |-> Absent]

Exists(i) == row[i].status \in Statuses
Scheduled(i) == row[i].status = "scheduled"
Idle(r) == req[r].op = "none"

\* Mutant: what was read outlives the transaction.
EndsDirty(r) == req' = [req EXCEPT ![r].op = "none"]

\* The transaction ends and its session forgets what it has read.
Ends(r) == req' = [req EXCEPT ![r] = Resting]

\* ALLOWED_STATUS_TRANSITIONS.
Allowed(status) == IF status = "scheduled" THEN {"completed", "cancelled"} ELSE {}

\* tstzrange(start, end, '[)') && tstzrange(start, end, '[)').
Intersect(start1, end1, start2, end2) == start1 < end2 /\ start2 < end1

\* Mutant: a window that opens one slot late.
CandidateNarrow(i, start, end) ==
    Scheduled(i) /\ row[i].start < end /\ row[i].start > start - MaxDuration + 1

\* Interviews the overlap query fetches.
Candidate(i, start, end) ==
    Scheduled(i) /\ row[i].start < end /\ row[i].start > start - MaxDuration

\* has_overlap: some other candidate ends after the start.
HasOverlap(start, duration, excluded) ==
    \E i \in Interviews \ excluded :
       Candidate(i, start, start + duration) /\ row[i].start + row[i].duration > start

Init ==
    /\ row = [i \in Interviews |-> Absent]
    /\ req = [r \in Requests |-> Resting]

\* create: the slot is free when it is looked up.
CreateCheck(r, start, duration) ==
    /\ Idle(r)
    /\ ~HasOverlap(start, duration, {})
    /\ req' = [req EXCEPT ![r] =
                 [op |-> "create", id |-> None, seen |-> Absent,
                  target |-> [status |-> "scheduled", start |-> start, duration |-> duration,
                              end |-> start + duration, feedback |-> FALSE]]]
    /\ UNCHANGED row

\* Mutant: no exclusion constraint.
SlotAny(i, new) == TRUE

\* ex_interviews_owner_scheduled_window: a scheduled row meets no other.
SlotFree(i, new) ==
    new.status = "scheduled" =>
       \A j \in Interviews \ {i} :
          Scheduled(j) => ~Intersect(new.start, new.end, row[j].start, row[j].end)

\* Mutant: no check constraint on the end.
WindowAny(new) == TRUE

\* ck_interviews_scheduled_window.
WindowOK(new) == new.end = new.start + new.duration

\* INSERT and commit, or the constraint's error.
CreateInsert(r, i) ==
    /\ req[r].op = "create"
    /\ row[i].status = "absent"
    /\ row' = IF SlotFree(i, req[r].target) /\ WindowOK(req[r].target)
              THEN [row EXCEPT ![i] = req[r].target] ELSE row
    /\ Ends(r)

\* The value of a column after the client's edit.
Edited(present, sent) == IF sent = {} THEN present ELSE CHOOSE v \in sent : TRUE

\* The row that update() wants; the end is always computed afresh.
Wanted(seen, e) ==
    LET start == Edited(seen.start, e.start)
        duration == Edited(seen.duration, e.duration)
    IN  [status |-> Edited(seen.status, e.status), start |-> start, duration |-> duration,
         end |-> start + duration, feedback |-> Edited(seen.feedback, e.feedback)]

\* update: the transition is allowed, feedback comes with completion, and the
\* slot is free if the interview is still scheduled.
UpdateCheck(r, i, e) ==
    LET new == Wanted(row[i], e) IN
    /\ Idle(r)
    /\ Exists(i)
    /\ new.status # row[i].status => new.status \in Allowed(row[i].status)
    /\ new.feedback => new.status = "completed"
    /\ new.status = "scheduled" => ~HasOverlap(new.start, new.duration, {i})
    /\ req' = [req EXCEPT ![r] = [op |-> "update", id |-> i, seen |-> row[i], target |-> new]]
    /\ UNCHANGED row

\* Mutant: the value is written whether it changed or not.
FlushAlways(present, loaded, wanted) == wanted

\* A column is written at flush only if it was changed after it was loaded.
Flush(present, loaded, wanted) == IF wanted = loaded THEN present ELSE wanted

Merged(present, seen, target) ==
    [status   |-> Flush(present.status, seen.status, target.status),
     start    |-> Flush(present.start, seen.start, target.start),
     duration |-> Flush(present.duration, seen.duration, target.duration),
     end      |-> Flush(present.end, seen.end, target.end),
     feedback |-> IF target.feedback = seen.feedback THEN present.feedback ELSE target.feedback]

\* The UPDATE of the changed columns, if the row is still there and the
\* constraints accept it.
UpdateWrite(r) ==
    LET i == req[r].id
        new == Merged(row[i], req[r].seen, req[r].target)
    IN  /\ req[r].op = "update"
        /\ row' = IF Exists(i) /\ WindowOK(new) /\ SlotFree(i, new)
                  THEN [row EXCEPT ![i] = new] ELSE row
        /\ Ends(r)

\* delete has no precondition.
Delete(i) ==
    /\ Exists(i)
    /\ row' = [row EXCEPT ![i] = [Absent EXCEPT !.status = "deleted"]]
    /\ UNCHANGED req

\* A request may fail on an error of the database.
Rollback(r) == ~Idle(r) /\ Ends(r) /\ UNCHANGED row

Next ==
    \/ \E r \in Requests :
          \/ \E s \in Slots, d \in Durations : CreateCheck(r, s, d)
          \/ \E i \in Interviews : CreateInsert(r, i)
          \/ \E i \in Interviews, e \in Edits : UpdateCheck(r, i, e)
          \/ UpdateWrite(r)
          \/ Rollback(r)
    \/ \E i \in Interviews : Delete(i)

Spec == Init /\ [][Next]_vars

----------------------------------------------------------------------------
(* Properties.                                                             *)

\* Rows and requests are well formed, and a request that is editing, and no
\* other, holds the identifier of an interview that was created.
TypeOK ==
    /\ row \in [Interviews -> Row]
    /\ req \in [Requests -> Request]
    /\ \A r \in Requests :
          /\ req[r].op = "update" <=> req[r].id # None
          /\ req[r].op = "update" => row[req[r].id].status # "absent"

\* ADR 0006: "Every write path must maintain the derived end time": the stored
\* end is start + duration, although two edits, of start and of duration, each
\* derive it from the row they read.
EndIsDerived == \A i \in Interviews : row[i].end = row[i].start + row[i].duration

\* ADR 0006: "Concurrent inserts and reschedules cannot violate the overlap
\* invariant": no two scheduled interviews share a slot.
NoOverlap ==
    \A i, j \in Interviews :
       i # j /\ Scheduled(i) /\ Scheduled(j) =>
          ~Intersect(row[i].start, row[i].end, row[j].start, row[j].end)

\* The service's query, which only looks MAX_DURATION back, refuses exactly
\* the slots that the exclusion constraint refuses.
PrecheckAgrees ==
    \A i \in Interviews, s \in Slots, d \in Durations :
       HasOverlap(s, d, {i}) <=>
          ~SlotFree(i, [status |-> "scheduled", start |-> s, duration |-> d,
                        end |-> s + d, feedback |-> FALSE])

\* API_EXAMPLES.md: completed and cancelled interviews never go back to
\* scheduled, not even by an edit that read the row before.
NeverReopened ==
    [][\A i \in Interviews :
          row[i].status \in {"completed", "cancelled"} => ~Scheduled(i)']_vars

\* interview_service.py, FEEDBACK_REQUIRES_COMPLETED: "Feedback is only allowed
\* for completed interviews".
FeedbackOnlyCompleted ==
    \A i \in Interviews : Exists(i) /\ row[i].feedback => row[i].status = "completed"

=============================================================================
