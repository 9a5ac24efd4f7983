-------------------------- MODULE InterviewsProofs --------------------------
(***************************************************************************)
(* Safety of module Interviews for every set of interviews and requests,   *)
(* every calendar and every longest duration.                              *)
(***************************************************************************)
EXTENDS Interviews, TLAPS

\* An edit wants an interview scheduled only if it saw it scheduled, because no
\* transition leads there.
EditWanted ==
    \A r \in Requests : req[r].op = "update" /\ req[r].target.status = "scheduled"
                        => req[r].seen.status = "scheduled"

\* A request writes rows of statuses an interview can have.
WritesStatus ==
    \A r \in Requests :
       /\ req[r].op # "none" => req[r].target.status \in Statuses
       /\ req[r].op = "update" => req[r].seen.status \in Statuses

\* The inductive invariant.
IInv == TypeOK /\ EndIsDerived /\ NoOverlap /\ EditWanted /\ WritesStatus

----------------------------------------------------------------------------
(* Rows and requests.                                                      *)

\* The fields of a row.
LEMMA RowFields ==
    ASSUME NEW x \in Row
    PROVE  /\ x.status \in Statuses \cup {"absent", "deleted"}
           /\ x.start \in Slots /\ x.duration \in Durations
           /\ x.end \in Nat /\ x.feedback \in BOOLEAN
           /\ x.start \in Nat /\ x.duration \in Nat /\ x.duration >= 1
           /\ x.duration <= MaxDuration
  BY InterviewsAssumption DEF Row, Slots, Durations

\* The records of a row and a request that are not there.
LEMMA RestingRequest ==
    /\ Absent \in Row /\ Absent.status = "absent" /\ Absent.end = Absent.start + Absent.duration
    /\ [Absent EXCEPT !.status = "deleted"] \in Row
    /\ Resting \in Request /\ Resting.op = "none" /\ Resting.id = None
<1>1. 0 \in Slots /\ 1 \in Durations
  BY InterviewsAssumption DEF Slots, Durations
<1>2. Absent \in Row /\ [Absent EXCEPT !.status = "deleted"] \in Row
  BY <1>1 DEF Absent, Row
<1> QED
  BY <1>2 DEF Absent, Resting, Request

\* Ends makes the request idle and touches no other.
LEMMA EndsEffect ==
    ASSUME TypeOK, NEW r \in Requests, Ends(r)
    PROVE  /\ req' \in [Requests -> Request]
           /\ req'[r].op = "none" /\ req'[r].id = None
           /\ \A q \in Requests : q # r => req'[q] = req[q]
  BY RestingRequest DEF Ends, TypeOK

\* A column keeps its value or gets the one sent.
LEMMA EditedColumn ==
    ASSUME NEW S, NEW present \in S, NEW sent \in SUBSET S
    PROVE  Edited(present, sent) \in S
  BY DEF Edited

\* Merging keeps a row a row and returns no row to scheduled.
LEMMA MergedRow ==
    ASSUME NEW x \in Row, NEW seen \in Row, NEW target \in Row,
           x.status \in Statuses, seen.status \in Statuses, target.status \in Statuses,
           target.status = "scheduled" => seen.status = "scheduled"
    PROVE  /\ Merged(x, seen, target) \in Row
           /\ Merged(x, seen, target).status \in Statuses
           /\ Merged(x, seen, target).status = "scheduled" => x.status = "scheduled"
<1>1. Merged(x, seen, target) \in Row
  BY RowFields DEF Merged, Flush, Row
<1>2. Merged(x, seen, target).status = Flush(x.status, seen.status, target.status)
  BY DEF Merged
<1> QED
  BY <1>1, <1>2 DEF Flush

----------------------------------------------------------------------------
(* Steps.                                                                  *)

\* A request that starts leaves the rows alone.
LEMMA StartStep ==
    ASSUME IInv, NEW r \in Requests, NEW new \in Request, UNCHANGED row,
           req' = [req EXCEPT ![r] = new],
           new.op = "update" <=> new.id # None,
           new.op = "update" => row[new.id].status # "absent" /\ new.seen.status \in Statuses,
           new.target.status \in Statuses,
           new.op = "update" /\ new.target.status = "scheduled" => new.seen.status = "scheduled"
    PROVE  IInv'
<1> USE DEF IInv
<1>1. /\ req' \in [Requests -> Request] /\ req'[r] = new
      /\ \A q \in Requests : q # r => req'[q] = req[q]
  BY DEF TypeOK
<1>2. TypeOK'
  BY <1>1 DEF TypeOK
<1>3. EditWanted' /\ WritesStatus'
  BY <1>1 DEF EditWanted, WritesStatus
<1>4. EndIsDerived' /\ NoOverlap'
  BY DEF EndIsDerived, NoOverlap, Scheduled
<1> QED
  BY <1>2, <1>3, <1>4

\* A creation looks for overlaps.
LEMMA CreateCheckStep ==
    ASSUME IInv, NEW r \in Requests, NEW s \in Slots, NEW d \in Durations, CreateCheck(r, s, d)
    PROVE  IInv'
<1> DEFINE target == [status |-> "scheduled", start |-> s, duration |-> d,
                      end |-> s + d, feedback |-> FALSE]
           new == [op |-> "create", id |-> None, seen |-> Absent, target |-> target]
<1>1. target \in Row /\ target.status = "scheduled"
  <2>1. s + d \in Nat
    BY InterviewsAssumption DEF Slots, Durations
  <2> QED
    BY <2>1 DEF Row, Statuses
<1>2. req' = [req EXCEPT ![r] = new] /\ UNCHANGED row
  BY DEF CreateCheck
<1> HIDE DEF target
<1>3. new \in Request /\ new.op = "create" /\ new.id = None /\ new.target = target
  BY <1>1, RestingRequest DEF Request
<1> HIDE DEF new
<1>4. new.target.status \in Statuses /\ new.op # "update"
  BY <1>1, <1>3 DEF Statuses
<1> QED
  BY <1>2, <1>3, <1>4, StartStep

\* An edit reads the row and looks for overlaps.
LEMMA UpdateCheckStep ==
    ASSUME IInv, NEW r \in Requests, NEW i \in Interviews, NEW e \in Edits, UpdateCheck(r, i, e)
    PROVE  IInv'
<1> DEFINE target == Wanted(row[i], e)
           new == [op |-> "update", id |-> i, seen |-> row[i], target |-> target]
<1>1. row[i] \in Row /\ Exists(i)
  BY DEF UpdateCheck, IInv, TypeOK
<1>2. target \in Row
  <2>1. /\ e.status \in SUBSET Statuses /\ e.start \in SUBSET Slots
        /\ e.duration \in SUBSET Durations /\ e.feedback \in SUBSET BOOLEAN
    BY EditsAssumption DEF Edit
  <2>2. /\ Edited(row[i].status, e.status) \in Statuses
        /\ Edited(row[i].start, e.start) \in Slots
        /\ Edited(row[i].duration, e.duration) \in Durations
        /\ Edited(row[i].feedback, e.feedback) \in BOOLEAN
    BY <1>1, <2>1, RowFields, EditedColumn DEF Exists
  <2>3. Edited(row[i].start, e.start) + Edited(row[i].duration, e.duration) \in Nat
    BY <2>2, InterviewsAssumption DEF Slots, Durations
  <2> QED
    BY <2>2, <2>3 DEF Wanted, Row
<1>3. /\ req' = [req EXCEPT ![r] = new] /\ UNCHANGED row
      /\ target.status # row[i].status => target.status \in Allowed(row[i].status)
  BY DEF UpdateCheck
<1> HIDE DEF target
<1>4. /\ new \in Request /\ new.op = "update" /\ new.id = i
      /\ new.seen = row[i] /\ new.target = target
  BY <1>1, <1>2 DEF Request
<1> HIDE DEF new
<1>5. new.target.status \in Statuses
  BY <1>1, <1>3, <1>4 DEF Allowed, Statuses, Exists
<1>6. new.target.status = "scheduled" => new.seen.status = "scheduled"
  BY <1>3, <1>4 DEF Allowed
<1>7. i # None /\ row[i].status # "absent" /\ row[i].status \in Statuses
  BY <1>1, InterviewsAssumption DEF Exists, Statuses
<1> QED
  BY <1>3, <1>4, <1>5, <1>6, <1>7, StartStep

\* The constraints decide what a committing request may leave behind.
LEMMA WriteStep ==
    ASSUME IInv, NEW r \in Requests, Ends(r), NEW i \in Interviews, NEW new \in Row,
           new.status \in Statuses \cup {"deleted"},
           \/ SlotFree(i, new) /\ WindowOK(new)
           \/ new.status = "deleted" /\ WindowOK(new),
           row' = [row EXCEPT ![i] = new]
    PROVE  IInv'
<1> USE DEF IInv
<1>1. /\ req' \in [Requests -> Request]
      /\ req'[r].op = "none" /\ req'[r].id = None
      /\ \A q \in Requests : q # r => req'[q] = req[q]
  BY EndsEffect
<1>2. /\ row' \in [Interviews -> Row] /\ row'[i] = new
      /\ \A j \in Interviews : j # i => row'[j] = row[j]
  BY DEF TypeOK
<1>3. new.status # "absent"
  BY DEF Statuses
<1>4. TypeOK'
  BY <1>1, <1>2, <1>3 DEF TypeOK
<1>5. EditWanted' /\ WritesStatus'
  BY <1>1 DEF EditWanted, WritesStatus
<1>6. EndIsDerived'
  BY <1>2 DEF EndIsDerived, WindowOK
<1>7. NoOverlap'
  <2>1. \A j \in Interviews \ {i} :
           new.status = "scheduled" /\ row[j].status = "scheduled"
           => /\ ~Intersect(new.start, new.end, row[j].start, row[j].end)
              /\ ~Intersect(row[j].start, row[j].end, new.start, new.end)
    BY DEF SlotFree, Scheduled, Intersect
  <2> QED
    BY <1>2, <2>1 DEF NoOverlap, Scheduled
<1> QED
  BY <1>4, <1>5, <1>6, <1>7

\* A request that ends without writing keeps the invariant.
LEMMA EndStep ==
    ASSUME IInv, NEW r \in Requests, Ends(r), UNCHANGED row
    PROVE  IInv'
<1> USE DEF IInv
<1>1. /\ req' \in [Requests -> Request]
      /\ req'[r].op = "none" /\ req'[r].id = None
      /\ \A q \in Requests : q # r => req'[q] = req[q]
  BY EndsEffect
<1>2. TypeOK'
  BY <1>1 DEF TypeOK
<1>3. EditWanted' /\ WritesStatus'
  BY <1>1 DEF EditWanted, WritesStatus
<1>4. EndIsDerived' /\ NoOverlap'
  BY DEF EndIsDerived, NoOverlap, Scheduled
<1> QED
  BY <1>2, <1>3, <1>4

\* An interview is inserted where the constraint finds the slot free.
LEMMA CreateInsertStep ==
    ASSUME IInv, NEW r \in Requests, NEW i \in Interviews, CreateInsert(r, i)
    PROVE  IInv'
<1>1. /\ req[r].op = "create" /\ Ends(r)
      /\ req[r].target \in Row /\ req[r].target.status \in Statuses
  BY DEF CreateInsert, IInv, TypeOK, Request, WritesStatus
<1>2. CASE row' = row
  BY <1>1, <1>2, EndStep
<1>3. CASE /\ SlotFree(i, req[r].target) /\ WindowOK(req[r].target)
           /\ row' = [row EXCEPT ![i] = req[r].target]
  BY <1>1, <1>3, WriteStep
<1> QED
  BY <1>2, <1>3 DEF CreateInsert

\* An edit writes where the constraint finds the slot free.
LEMMA UpdateWriteStep ==
    ASSUME IInv, NEW r \in Requests, UpdateWrite(r)
    PROVE  /\ IInv'
           /\ \A j \in Interviews : row'[j].status = "scheduled"
                                    => row[j].status \in {"scheduled", "absent"}
<1> DEFINE i == req[r].id
           new == Merged(row[i], req[r].seen, req[r].target)
<1>1. /\ req[r].op = "update" /\ Ends(r) /\ i \in Interviews /\ row \in [Interviews -> Row]
      /\ req[r].seen \in Row /\ req[r].target \in Row
      /\ req[r].seen.status \in Statuses /\ req[r].target.status \in Statuses
      /\ req[r].target.status = "scheduled" => req[r].seen.status = "scheduled"
  BY DEF UpdateWrite, IInv, TypeOK, Request, WritesStatus, EditWanted
<1>2. CASE row' = row
  BY <1>1, <1>2, EndStep
<1>3. CASE /\ Exists(i) /\ WindowOK(new) /\ SlotFree(i, new)
           /\ row' = [row EXCEPT ![i] = new]
  <2>1. /\ new \in Row /\ new.status \in Statuses
        /\ new.status = "scheduled" => row[i].status = "scheduled"
    BY <1>1, <1>3, MergedRow DEF Exists
  <2> HIDE DEF i, new
  <2>2. IInv'
    BY <1>1, <1>3, <2>1, WriteStep
  <2> QED
    BY <1>1, <1>3, <2>1, <2>2
<1> QED
  BY <1>2, <1>3 DEF UpdateWrite

\* A deleted row takes no slot; requests that saw it will not find it.
LEMMA DeleteStep ==
    ASSUME IInv, NEW i \in Interviews, Delete(i)
    PROVE  IInv'
<1> DEFINE gone == [Absent EXCEPT !.status = "deleted"]
<1> USE DEF IInv
<1>1. gone \in Row /\ gone.status = "deleted" /\ gone.end = gone.start + gone.duration
  BY RestingRequest DEF Absent
<1>2. row' = [row EXCEPT ![i] = gone] /\ UNCHANGED req
  BY DEF Delete
<1> HIDE DEF gone
<1>3. /\ row' \in [Interviews -> Row] /\ row'[i] = gone
      /\ \A j \in Interviews : j # i => row'[j] = row[j]
  BY <1>1, <1>2 DEF TypeOK
<1>4. TypeOK'
  BY <1>1, <1>2, <1>3 DEF TypeOK
<1>5. EditWanted' /\ WritesStatus'
  BY <1>2 DEF EditWanted, WritesStatus
<1>6. EndIsDerived'
  BY <1>1, <1>3 DEF EndIsDerived
<1>7. NoOverlap'
  BY <1>1, <1>3 DEF NoOverlap, Scheduled
<1> QED
  BY <1>4, <1>5, <1>6, <1>7

\* The invariant holds of an empty table.
LEMMA Initially == Init => IInv
<1> SUFFICES ASSUME Init PROVE IInv
  OBVIOUS
<1>1. /\ \A i \in Interviews : row[i] = Absent /\ row[i].status = "absent"
      /\ \A r \in Requests : req[r].op = "none" /\ req[r].id = None
      /\ row \in [Interviews -> Row] /\ req \in [Requests -> Request]
  BY RestingRequest DEF Init
<1>2. TypeOK
  BY <1>1 DEF TypeOK
<1>3. EndIsDerived
  BY <1>1, RestingRequest DEF EndIsDerived
<1>4. NoOverlap /\ EditWanted /\ WritesStatus
  BY <1>1 DEF NoOverlap, Scheduled, EditWanted, WritesStatus
<1> QED
  BY <1>2, <1>3, <1>4 DEF IInv

\* Every step keeps the invariant.
LEMMA Preserved == IInv /\ [Next]_vars => IInv'
<1> SUFFICES ASSUME IInv, [Next]_vars PROVE IInv'
  OBVIOUS
<1>1. CASE UNCHANGED vars
  BY <1>1 DEF vars, IInv, TypeOK, EndIsDerived, NoOverlap, Scheduled, EditWanted, WritesStatus
<1>2. ASSUME NEW r \in Requests, Rollback(r) PROVE IInv'
  BY <1>2, EndStep DEF Rollback
<1> QED
  BY <1>1, <1>2, CreateCheckStep, CreateInsertStep, UpdateCheckStep, UpdateWriteStep,
     DeleteStep DEF Next

\* The inductive invariant holds in every reachable state.
THEOREM Invariance == Spec => []IInv
  BY Initially, Preserved, PTL DEF Spec

----------------------------------------------------------------------------
(* The properties of Interviews.                                           *)

\* Rows and requests stay well formed.
THEOREM TypeCorrect == Spec => []TypeOK
<1>1. IInv => TypeOK
  BY DEF IInv
<1> QED
  BY <1>1, Invariance, PTL

\* Concurrent creations and edits never leave two scheduled interviews in one
\* slot: the exclusion constraint sees the row that the flush leaves.
THEOREM Overlaps == Spec => []NoOverlap
<1>1. IInv => NoOverlap
  BY DEF IInv
<1> QED
  BY <1>1, Invariance, PTL

\* Concurrent edits of start and duration never leave a stale end.
THEOREM EndDerived == Spec => []EndIsDerived
<1>1. IInv => EndIsDerived
  BY DEF IInv
<1> QED
  BY <1>1, Invariance, PTL

\* Looking back no further than the longest duration loses no conflict: the
\* service's query and the exclusion constraint agree on every slot.
LEMMA QueryAgrees ==
    ASSUME TypeOK, EndIsDerived PROVE PrecheckAgrees
<1> SUFFICES ASSUME NEW i \in Interviews, NEW s \in Slots, NEW d \in Durations
             PROVE  HasOverlap(s, d, {i}) <=>
                       ~SlotFree(i, [status |-> "scheduled", start |-> s, duration |-> d,
                                     end |-> s + d, feedback |-> FALSE])
  BY DEF PrecheckAgrees
<1>1. s \in Nat /\ d \in Nat /\ MaxDuration \in Nat
  BY InterviewsAssumption DEF Slots, Durations
<1>2. ASSUME NEW j \in Interviews
      PROVE  (Candidate(j, s, s + d) /\ row[j].start + row[j].duration > s)
             <=> Scheduled(j) /\ Intersect(s, s + d, row[j].start, row[j].end)
  <2>1. /\ row[j].start \in Nat /\ row[j].duration \in Nat
        /\ row[j].duration <= MaxDuration /\ row[j].end = row[j].start + row[j].duration
    BY RowFields DEF TypeOK, EndIsDerived
  <2> QED
    BY <1>1, <2>1 DEF Candidate, Intersect
<1> QED
  BY <1>2 DEF HasOverlap, SlotFree

\* The service's overlap query refuses exactly the intervals that the exclusion
\* constraint refuses, although it looks back one MAX_DURATION only.
THEOREM QueryAndConstraintAgree == Spec => []PrecheckAgrees
<1>1. IInv => PrecheckAgrees
  BY QueryAgrees DEF IInv
<1> QED
  BY <1>1, Invariance, PTL

\* A completed or cancelled interview never becomes scheduled again: an edit that
\* saw it scheduled and keeps it so does not write the status.
THEOREM FinalStatuses == Spec => NeverReopened
<1>1. IInv /\ [Next]_vars =>
         [\A i \in Interviews :
             row[i].status \in {"completed", "cancelled"} => ~Scheduled(i)']_vars
  <2> SUFFICES ASSUME IInv, Next, NEW i \in Interviews,
                      row[i].status \in {"completed", "cancelled"}
               PROVE  row'[i].status # "scheduled"
    BY DEF Scheduled
  <2>1. row \in [Interviews -> Row]
    BY DEF IInv, TypeOK
  <2>2. ASSUME NEW r \in Requests, UpdateWrite(r) PROVE row'[i].status # "scheduled"
    BY <2>2, UpdateWriteStep
  <2>3. ASSUME NEW r \in Requests, NEW j \in Interviews, CreateInsert(r, j)
        PROVE  row'[i].status # "scheduled"
    BY <2>1, <2>3 DEF CreateInsert
  <2>4. ASSUME NEW j \in Interviews, Delete(j) PROVE row'[i].status # "scheduled"
    <3>1. [Absent EXCEPT !.status = "deleted"].status = "deleted"
      BY DEF Absent
    <3> QED
      BY <2>1, <2>4, <3>1 DEF Delete
  <2>5. CASE UNCHANGED row
    BY <2>5
  <2>6. \A r \in Requests :
           /\ \A s \in Slots, d \in Durations : CreateCheck(r, s, d) => UNCHANGED row
           /\ \A j \in Interviews, e \in Edits : UpdateCheck(r, j, e) => UNCHANGED row
           /\ Rollback(r) => UNCHANGED row
    BY DEF CreateCheck, UpdateCheck, Rollback
  <2> QED
    BY <2>2, <2>3, <2>4, <2>5, <2>6 DEF Next
<1> QED
  BY <1>1, Invariance, PTL DEF Spec, NeverReopened

=============================================================================
