------------------------- MODULE ApplicationsProofs -------------------------
(***************************************************************************)
(* Safety of module Applications for every set of applications, jobs,      *)
(* interviews and requests and every calendar.                             *)
(***************************************************************************)
EXTENDS Applications, SequenceTheorems, TLAPS

\* A request that locked its application still sees it as it is.
LockedRowFrozen ==
    \A r \in Requests : req[r].op \in {"status", "book"} =>
       /\ req[r].app \in Apps
       /\ lock[req[r].app] = r
       /\ req[r].seen = app[req[r].app]
       /\ req[r].seen.status \in Statuses

\* What a status change is about to write.
StatusWanted ==
    \A r \in Requests : req[r].op = "status" =>
       LET seen == req[r].seen  target == req[r].target IN
       /\ target.status \in Allowed(seen.status)
       /\ target.status = "applied" => target.applied # NoDay
       /\ target.status # "applied" => target.applied = seen.applied

\* What an edit is about to write: the status stays, and the dates fit the
\* status it saw, which may be out of date but never goes back to saved.
EditWanted ==
    \A r \in Requests : req[r].op = "update" =>
       LET a == req[r].app  seen == req[r].seen  target == req[r].target IN
       /\ a \in Apps
       /\ target.status = seen.status
       /\ app[a].status # "absent"
       /\ seen.status = "saved" => seen.applied = NoDay /\ target.applied = NoDay
       /\ seen.status # "saved" => target.applied # NoDay /\ app[a].status # "saved"

\* What a creation is about to insert.
CreateWanted ==
    \A r \in Requests : req[r].op = "create" =>
       LET target == req[r].target IN
       /\ req[r].job \in Jobs
       /\ target.job = req[r].job
       /\ target.status \in {"saved", "applied"}
       /\ target.status = "saved" <=> target.applied = NoDay

DeleteWanted == \A r \in Requests : req[r].op = "delete" => req[r].app \in Apps

\* An interview is being booked onto a row that was found eligible.
BookWanted == \A r \in Requests : req[r].op = "book" => req[r].seen.status \in Eligible

\* An application that does not exist has no history.
HistoryOwned == \A a \in Apps : ~Exists(a) => hist[a] = <<>>

\* The inductive invariant.
IInv ==
    /\ TypeOK
    /\ LockedRowFrozen
    /\ StatusWanted
    /\ EditWanted
    /\ CreateWanted
    /\ DeleteWanted
    /\ BookWanted
    /\ HistoryOwned
    /\ HistoryTellsStatus
    /\ DatesFollowStatus
    /\ NothingOrphaned
    /\ OnePerJob

----------------------------------------------------------------------------
(* Rows and requests.                                                      *)

\* The fields of a row.
LEMMA RowFields ==
    ASSUME NEW row \in Row
    PROVE  /\ row.job \in Jobs \cup {None}
           /\ row.status \in Statuses \cup {"absent", "deleted"}
           /\ row.applied \in Dates /\ row.deadline \in Dates
  BY DEF Row

\* The row that is not there.
LEMMA AbsentRow ==
    Absent \in Row /\ Absent.status = "absent" /\ Absent.applied = NoDay
  BY DEF Absent, Row, Statuses, Dates

\* Merging keeps a row a row and writes the fields that were changed.
LEMMA MergedRow ==
    ASSUME NEW row \in Row, NEW seen \in Row, NEW target \in Row
    PROVE  /\ Merged(row, seen, target) \in Row
           /\ Merged(row, seen, target).job = row.job
           /\ Merged(row, seen, target).status =
                 (IF target.status = seen.status THEN row.status ELSE target.status)
           /\ Merged(row, seen, target).applied =
                 (IF target.applied = seen.applied THEN row.applied ELSE target.applied)
<1>1. Merged(row, seen, target) \in Row
  BY RowFields DEF Merged, Flush, Row
<1> QED
  BY <1>1 DEF Merged, Flush, Row

\* The fields of a request.
LEMMA RequestFields ==
    ASSUME req \in [Requests -> Request], NEW r \in Requests
    PROVE  /\ req[r].op \in Ops /\ req[r].app \in Apps \cup {None}
           /\ req[r].job \in Jobs \cup {None}
           /\ req[r].seen \in Row /\ req[r].target \in Row
  BY DEF Request

\* Starts writes the request's record and no other.
LEMMA StartsEffect ==
    ASSUME TypeOK, NEW r \in Requests, NEW op \in Ops, NEW a \in Apps \cup {None},
           NEW j \in Jobs \cup {None}, NEW target \in Row, Starts(r, op, a, j, target)
    PROVE  /\ req' \in [Requests -> Request]
           /\ req'[r].op = op /\ req'[r].app = a /\ req'[r].job = j
           /\ req'[r].target = target
           /\ a \in Apps => req'[r].seen = app[a]
           /\ \A q \in Requests : q # r => req'[q] = req[q]
<1> DEFINE seen == IF a = None THEN Absent ELSE app[a]
           new == [op |-> op, app |-> a, job |-> j, target |-> target, seen |-> seen]
<1>1. seen \in Row
  BY AbsentRow DEF TypeOK
<1>2. a \in Apps => seen = app[a]
  BY ApplicationsAssumption
<1>3. req' = [req EXCEPT ![r] = new]
  BY DEF Starts
<1> HIDE DEF seen
<1>4. new \in Request
  BY <1>1 DEF Request
<1>5. /\ new.op = op /\ new.app = a /\ new.job = j
      /\ new.target = target /\ new.seen = seen
  OBVIOUS
<1> HIDE DEF new
<1>6. /\ req' \in [Requests -> Request] /\ req'[r] = new
      /\ \A q \in Requests : q # r => req'[q] = req[q]
  BY <1>3, <1>4 DEF TypeOK
<1> QED
  BY <1>2, <1>5, <1>6

\* Ends makes the request idle, takes away its locks and no others.
LEMMA EndsEffect ==
    ASSUME TypeOK, NEW r \in Requests, Ends(r)
    PROVE  /\ req' \in [Requests -> Request]
           /\ req'[r].op = "none"
           /\ \A q \in Requests : q # r => req'[q] = req[q]
           /\ lock' \in [Apps -> Requests \cup {None}]
           /\ \A a \in Apps : lock'[a] # r
           /\ \A a \in Apps : lock[a] # r => lock'[a] = lock[a]
           /\ \A a \in Apps : lock'[a] \in {lock[a], None}
<1>1. Resting \in Request /\ Resting.op = "none"
  BY AbsentRow DEF Resting, Request, Ops
<1>2. req' = [req EXCEPT ![r] = Resting] /\ req \in [Requests -> Request]
  BY DEF Ends, TypeOK
<1>3. /\ req' \in [Requests -> Request] /\ req'[r] = Resting
      /\ \A q \in Requests : q # r => req'[q] = req[q]
  BY <1>1, <1>2
<1>4. None # r
  BY ApplicationsAssumption
<1> QED
  BY <1>1, <1>3, <1>4 DEF Ends, TypeOK

----------------------------------------------------------------------------
(* Steps.                                                                  *)

\* A request that reads and validates leaves the rows alone.
LEMMA ReadStep ==
    ASSUME IInv, NEW r \in Requests, NEW op \in Ops, NEW a \in Apps \cup {None},
           NEW j \in Jobs \cup {None}, NEW target \in Row,
           Idle(r), Starts(r, op, a, j, target), UNCHANGED rows,
           \/ UNCHANGED lock
           \/ a \in Apps /\ lock[a] = None /\ lock' = [lock EXCEPT ![a] = r],
           lock' # lock => op \in {"status", "book"},
           op \in {"status", "book"} =>
              a \in Apps /\ lock'[a] = r /\ app[a].status \in Statuses,
           op = "status" =>
              /\ target.status \in Allowed(app[a].status)
              /\ target.status = "applied" => target.applied # NoDay
              /\ target.status # "applied" => target.applied = app[a].applied,
           op = "update" =>
              /\ a \in Apps /\ target.status = app[a].status /\ app[a].status # "absent"
              /\ app[a].status = "saved" <=> target.applied = NoDay,
           op = "create" =>
              /\ j \in Jobs /\ target.job = j /\ target.status \in {"saved", "applied"}
              /\ target.status = "saved" <=> target.applied = NoDay,
           op = "delete" => a \in Apps,
           op = "book" => app[a].status \in Eligible
    PROVE  IInv'
<1> USE DEF IInv, rows
<1>1. /\ req' \in [Requests -> Request]
      /\ req'[r].op = op /\ req'[r].app = a /\ req'[r].job = j
      /\ req'[r].target = target
      /\ a \in Apps => req'[r].seen = app[a]
      /\ \A q \in Requests : q # r => req'[q] = req[q]
  BY StartsEffect
<1>2. /\ lock' \in [Apps -> Requests \cup {None}]
      /\ \A b \in Apps : lock[b] # None => lock'[b] = lock[b]
      /\ \A b \in Apps : lock'[b] \in {lock[b], r} /\ (lock'[b] # lock[b] => b = a)
  BY DEF TypeOK
<1>3. \A b \in Apps : lock[b] # r
  BY ApplicationsAssumption DEF Idle, TypeOK
<1>4. TypeOK'
  BY <1>1, <1>2, <1>3, ApplicationsAssumption DEF TypeOK
<1>5. LockedRowFrozen'
  BY <1>1, <1>2, ApplicationsAssumption DEF LockedRowFrozen
<1>6. StatusWanted' /\ CreateWanted' /\ DeleteWanted' /\ BookWanted'
  BY <1>1 DEF StatusWanted, CreateWanted, DeleteWanted, BookWanted
<1>7. EditWanted'
  BY <1>1 DEF EditWanted, DatesFollowStatus
<1>8. HistoryOwned' /\ HistoryTellsStatus' /\ DatesFollowStatus' /\ NothingOrphaned' /\ OnePerJob'
  BY DEF HistoryOwned, HistoryTellsStatus, DatesFollowStatus, NothingOrphaned, OnePerJob, Exists
<1> QED
  BY <1>4, <1>5, <1>6, <1>7, <1>8

\* What a committing request owes the others: rows they have locked stay as
\* they are, no application vanishes into "absent" or returns to "saved".
LEMMA WriteStep ==
    ASSUME IInv, NEW r \in Requests, Ends(r),
           jobs' \subseteq Jobs, app' \in [Apps -> Row], hist' \in [Apps -> Seq(Step)],
           booked' \in [Interviews -> Apps \cup {None}], today' \in Days,
           \A q \in Requests \ {r} : req[q].op \in {"status", "book"}
                                     => app'[req[q].app] = app[req[q].app],
           \A a \in Apps : app[a].status # "absent" =>
              /\ app'[a].status # "absent"
              /\ app[a].status # "saved" => app'[a].status # "saved"
    PROVE  /\ TypeOK' /\ LockedRowFrozen' /\ StatusWanted' /\ EditWanted'
           /\ CreateWanted' /\ DeleteWanted' /\ BookWanted'
<1> USE DEF IInv
<1>1. /\ req' \in [Requests -> Request]
      /\ req'[r].op = "none"
      /\ \A q \in Requests : q # r => req'[q] = req[q]
      /\ lock' \in [Apps -> Requests \cup {None}]
      /\ \A a \in Apps : lock'[a] # r
      /\ \A a \in Apps : lock[a] # r => lock'[a] = lock[a]
      /\ \A a \in Apps : lock'[a] \in {lock[a], None}
  BY EndsEffect
<1>2. TypeOK'
  BY <1>1 DEF TypeOK
<1>3. LockedRowFrozen'
  BY <1>1 DEF LockedRowFrozen
<1>4. StatusWanted' /\ CreateWanted' /\ DeleteWanted' /\ BookWanted'
  <2>1. \A q \in Requests : req'[q].op # "none" => req'[q] = req[q]
    BY <1>1
  <2>2. StatusWanted' /\ BookWanted'
    BY <2>1 DEF StatusWanted, BookWanted
  <2>3. CreateWanted' /\ DeleteWanted'
    BY <2>1 DEF CreateWanted, DeleteWanted
  <2> QED
    BY <2>2, <2>3
<1>5. EditWanted'
  <2>1. SUFFICES ASSUME NEW q \in Requests, req'[q].op = "update"
                 PROVE  LET a == req[q].app  seen == req[q].seen  target == req[q].target IN
                        /\ a \in Apps
                        /\ target.status = seen.status
                        /\ app'[a].status # "absent"
                        /\ seen.status = "saved" => seen.applied = NoDay /\ target.applied = NoDay
                        /\ seen.status # "saved" => target.applied # NoDay
                                                   /\ app'[a].status # "saved"
    BY <1>1 DEF EditWanted
  <2>2. req[q].op = "update"
    BY <1>1, <2>1
  <2> QED
    BY <2>2 DEF EditWanted
<1> QED
  BY <1>2, <1>3, <1>4, <1>5

\* The part of the invariant that is about rows alone.
Rows == HistoryOwned /\ HistoryTellsStatus /\ DatesFollowStatus /\ NothingOrphaned /\ OnePerJob

\* What the tables promise depends on the tables only.
LEMMA RowsUnchanged ==
    ASSUME Rows, UNCHANGED <<jobs, app, hist, booked>>
    PROVE  Rows'
  BY DEF Rows, HistoryOwned, HistoryTellsStatus, DatesFollowStatus, NothingOrphaned, OnePerJob, Exists

\* A request that ends without writing keeps the invariant.
LEMMA RollbackStep ==
    ASSUME IInv, NEW r \in Requests, Ends(r), UNCHANGED rows
    PROVE  IInv'
<1> USE DEF IInv, rows
<1>1. Rows'
  BY RowsUnchanged DEF Rows
<1>2. /\ jobs' \subseteq Jobs /\ app' \in [Apps -> Row] /\ hist' \in [Apps -> Seq(Step)]
      /\ booked' \in [Interviews -> Apps \cup {None}] /\ today' \in Days
  BY DEF TypeOK
<1> QED
  BY <1>1, <1>2, WriteStep DEF Rows

\* The insertion respects the constraints; the new application has no history.
LEMMA CreateInsertStep ==
    ASSUME IInv, NEW r \in Requests, NEW a \in Apps, CreateInsert(r, a)
    PROVE  IInv'
<1> USE DEF IInv
<1> DEFINE target == req[r].target
<1>1. /\ req[r].op = "create" /\ app[a].status = "absent" /\ Ends(r)
      /\ jobs' = jobs /\ hist' = hist /\ booked' = booked /\ today' = today
      /\ req \in [Requests -> Request] /\ app \in [Apps -> Row]
      /\ jobs \subseteq Jobs /\ hist \in [Apps -> Seq(Step)]
      /\ booked \in [Interviews -> Apps \cup {None}] /\ today \in Days
  BY DEF CreateInsert, TypeOK
<1>2. CASE app' = app
  BY <1>1, <1>2, RollbackStep DEF rows
<1>3. CASE ConstraintsAllow(req[r].job) /\ app' = [app EXCEPT ![a] = target]
  <2>1. target \in Row /\ target.job = req[r].job /\ target.status \in {"saved", "applied"}
        /\ (target.status = "saved" <=> target.applied = NoDay)
    BY <1>1, RequestFields DEF CreateWanted
  <2> HIDE DEF target
  <2>2. /\ app' \in [Apps -> Row] /\ app'[a] = target
        /\ \A b \in Apps : b # a => app'[b] = app[b]
    BY <1>1, <1>3, <2>1
  <2>3. ~Exists(a) /\ app'[a].status \in Statuses /\ \A b \in Apps : b # a => (Exists(b)' <=> Exists(b))
    BY <1>1, <2>1, <2>2 DEF Exists, Statuses
  <2>4. hist[a] = <<>>
    BY <2>3 DEF HistoryOwned
  <2>5. HistoryOwned' /\ DatesFollowStatus'
    BY <1>1, <2>1, <2>2, <2>3 DEF HistoryOwned, DatesFollowStatus, Exists, Statuses
  <2>6. HistoryTellsStatus'
    BY <1>1, <2>2, <2>4 DEF HistoryTellsStatus
  <2>7. NothingOrphaned'
    BY <1>1, <1>3, <2>1, <2>2, <2>3 DEF NothingOrphaned, ConstraintsAllow, Exists
  <2>8. OnePerJob'
    BY <1>1, <1>3, <2>1, <2>2, <2>3 DEF OnePerJob, ConstraintsAllow, HasApplication, Exists
  <2>9. \A q \in Requests \ {r} : req[q].op \in {"status", "book"}
                                  => app'[req[q].app] = app[req[q].app]
    BY <1>1, <2>2 DEF LockedRowFrozen, Statuses
  <2> QED
    BY <1>1, <2>2, <2>5, <2>6, <2>7, <2>8, <2>9, WriteStep
<1> QED
  BY <1>2, <1>3 DEF CreateInsert

\* An edit writes dates that fit the row, even if the status has moved on.
LEMMA UpdateWriteStep ==
    ASSUME IInv, NEW r \in Requests, UpdateWrite(r)
    PROVE  IInv'
<1> USE DEF IInv
<1> DEFINE a == req[r].app
           new == Merged(app[a], req[r].seen, req[r].target)
<1>1. /\ req[r].op = "update" /\ lock[a] = None /\ Ends(r)
      /\ jobs' = jobs /\ hist' = hist /\ booked' = booked /\ today' = today
      /\ req \in [Requests -> Request] /\ app \in [Apps -> Row]
      /\ jobs \subseteq Jobs /\ hist \in [Apps -> Seq(Step)]
      /\ booked \in [Interviews -> Apps \cup {None}] /\ today \in Days
  BY DEF UpdateWrite, TypeOK
<1>2. CASE app' = app
  BY <1>1, <1>2, RollbackStep DEF rows
<1>3. CASE app' = [app EXCEPT ![a] = new]
  <2>1. a \in Apps /\ req[r].seen \in Row /\ req[r].target \in Row
    BY <1>1, RequestFields DEF EditWanted
  <2>2. /\ new \in Row /\ new.job = app[a].job /\ new.status = app[a].status
        /\ new.applied = app[a].applied \/ (new.applied # NoDay /\ app[a].status # "saved")
    <3>1. /\ new \in Row /\ new.job = app[a].job
          /\ new.status = (IF req[r].target.status = req[r].seen.status
                           THEN app[a].status ELSE req[r].target.status)
          /\ new.applied = (IF req[r].target.applied = req[r].seen.applied
                            THEN app[a].applied ELSE req[r].target.applied)
      <4>1. app[a] \in Row
        BY <1>1, <2>1
      <4> QED
        BY <2>1, <4>1, MergedRow
    <3> HIDE DEF new
    <3> QED
      BY <1>1, <3>1 DEF EditWanted
  <2> HIDE DEF new, a
  <2>3. /\ app' \in [Apps -> Row] /\ app'[a] = new
        /\ \A b \in Apps : b # a => app'[b] = app[b]
    BY <1>1, <1>3, <2>1, <2>2
  <2>4. \A b \in Apps : app'[b].job = app[b].job /\ app'[b].status = app[b].status
    BY <2>2, <2>3
  <2>5. HistoryOwned' /\ HistoryTellsStatus' /\ NothingOrphaned' /\ OnePerJob'
    <3>1. HistoryOwned' /\ HistoryTellsStatus'
      BY <1>1, <2>4 DEF HistoryOwned, HistoryTellsStatus, Exists
    <3>2. NothingOrphaned' /\ OnePerJob'
      BY <1>1, <2>4 DEF NothingOrphaned, OnePerJob, Exists
    <3> QED
      BY <3>1, <3>2
  <2>6. DatesFollowStatus'
    BY <2>1, <2>2, <2>3 DEF DatesFollowStatus
  <2>7. \A q \in Requests \ {r} : req[q].op \in {"status", "book"}
                                  => app'[req[q].app] = app[req[q].app]
    BY <1>1, <2>3, ApplicationsAssumption DEF LockedRowFrozen
  <2> QED
    BY <1>1, <2>3, <2>4, <2>5, <2>6, <2>7, WriteStep
<1> QED
  BY <1>2, <1>3 DEF UpdateWrite

\* A history whose lines are allowed transitions, each following the last.
Chain(h) ==
    /\ \A n \in 1..Len(h) : h[n].to \in Allowed(h[n].from)
    /\ \A n \in 1..(Len(h) - 1) : h[n].to = h[n + 1].from

\* An allowed change, appended where the history ends, extends the chain.
LEMMA ChainGrows ==
    ASSUME NEW h \in Seq(Step), NEW step \in Step, Chain(h),
           h # <<>> => h[Len(h)].to = step.from,
           step.to \in Allowed(step.from)
    PROVE  /\ Append(h, step) \in Seq(Step) /\ Chain(Append(h, step))
           /\ Append(h, step) # <<>>
           /\ Append(h, step)[Len(Append(h, step))] = step
<1> DEFINE g == Append(h, step)
<1>1. /\ g \in Seq(Step) /\ Len(h) \in Nat /\ Len(g) = Len(h) + 1
      /\ \A n \in 1..Len(h) : g[n] = h[n]
      /\ g[Len(h) + 1] = step
      /\ g # <<>>
      /\ Len(h) # 0 => h # <<>>
  BY AppendProperties, EmptySeq
<1> HIDE DEF g
<1>2. \A n \in 1..Len(g) : g[n].to \in Allowed(g[n].from)
  <2>1. \A n \in 1..Len(g) : n \in 1..Len(h) \/ n = Len(h) + 1
    BY <1>1
  <2> QED
    BY <1>1, <2>1 DEF Chain
<1>3. ASSUME NEW n \in 1..(Len(g) - 1) PROVE g[n].to = g[n + 1].from
  <2>1. n \in 1..Len(h) /\ g[n] = h[n]
    BY <1>1
  <2>2. CASE n = Len(h)
    BY <1>1, <2>1, <2>2
  <2>3. CASE n # Len(h)
    <3>1. n \in 1..(Len(h) - 1) /\ n + 1 \in 1..Len(h)
      BY <1>1, <2>1, <2>3
    <3> QED
      BY <1>1, <2>1, <3>1 DEF Chain
  <2> QED
    BY <2>2, <2>3
<1> QED
  BY <1>1, <1>2, <1>3 DEF Chain, g

\* A transition never leads to saved.
LEMMA AllowedStatuses ==
    ASSUME NEW s, NEW t \in Allowed(s)
    PROVE  t \in Statuses /\ t # "saved" /\ t # "absent"
  BY DEF Allowed, Statuses

\* A transition to a status that needs a date comes from one that has it.
LEMMA AllowedDates ==
    ASSUME NEW s \in Statuses, NEW t \in Allowed(s),
           t \in {"screening", "interview", "offer", "rejected"}
    PROVE  s \in {"applied", "screening", "interview", "offer", "rejected"}
  BY DEF Allowed, Statuses

\* The transition is written onto the row it was checked against.
LEMMA StatusCommitStep ==
    ASSUME IInv, NEW r \in Requests, StatusCommit(r)
    PROVE  IInv'
<1> USE DEF IInv
<1> DEFINE a == req[r].app
           seen == req[r].seen
           target == req[r].target
           new == Merged(app[a], seen, target)
           line == [from |-> seen.status, to |-> target.status]
<1>1. /\ req[r].op = "status" /\ Ends(r)
      /\ app' = [app EXCEPT ![a] = new]
      /\ hist' = [hist EXCEPT ![a] = Append(@, line)]
      /\ jobs' = jobs /\ booked' = booked /\ today' = today
      /\ req \in [Requests -> Request] /\ app \in [Apps -> Row]
      /\ jobs \subseteq Jobs /\ hist \in [Apps -> Seq(Step)]
      /\ booked \in [Interviews -> Apps \cup {None}] /\ today \in Days
  BY DEF StatusCommit, TypeOK
<1>2. /\ a \in Apps /\ lock[a] = r /\ seen = app[a] /\ seen.status \in Statuses
      /\ seen \in Row /\ target \in Row
  BY <1>1, RequestFields DEF LockedRowFrozen
<1>3. /\ target.status \in Allowed(seen.status)
      /\ target.status = "applied" => target.applied # NoDay
      /\ target.status # "applied" => target.applied = seen.applied
  BY <1>1 DEF StatusWanted
<1>4. /\ new \in Row /\ new.job = app[a].job
      /\ new.status = target.status /\ new.applied = target.applied
  <2> HIDE DEF a, seen, target
  <2> QED
    BY <1>2, MergedRow
<1>5. /\ line \in Step /\ line.from = seen.status /\ line.to = target.status
  <2> HIDE DEF a, seen, target
  <2> QED
    BY <1>2, <1>3, AllowedStatuses DEF Step
<1> HIDE DEF a, seen, target, new, line
<1>6. /\ app' \in [Apps -> Row] /\ app'[a] = new
      /\ \A b \in Apps : b # a => app'[b] = app[b]
  BY <1>1, <1>2, <1>4
<1>7. new.status \in Statuses /\ new.status # "saved" /\ new.status # "absent"
  BY <1>3, <1>4, AllowedStatuses
<1>8. /\ hist' \in [Apps -> Seq(Step)]
      /\ \A b \in Apps : b # a => hist'[b] = hist[b]
      /\ Chain(hist'[a]) /\ hist'[a] # <<>> /\ hist'[a][Len(hist'[a])] = line
  <2>1. hist[a] \in Seq(Step) /\ Chain(hist[a])
    BY <1>1, <1>2 DEF HistoryTellsStatus, Chain
  <2>2. hist[a] # <<>> => hist[a][Len(hist[a])].to = line.from
    BY <1>2, <1>5 DEF HistoryTellsStatus
  <2>3. /\ Append(hist[a], line) \in Seq(Step) /\ Chain(Append(hist[a], line))
        /\ Append(hist[a], line) # <<>>
        /\ Append(hist[a], line)[Len(Append(hist[a], line))] = line
    BY <1>3, <1>5, <2>1, <2>2, ChainGrows
  <2> QED
    BY <1>1, <1>2, <2>3
<1>9. Exists(a) /\ app'[a].status \in Statuses /\ \A b \in Apps : b # a => (Exists(b)' <=> Exists(b))
  BY <1>2, <1>6, <1>7 DEF Exists
<1>10. HistoryOwned'
  BY <1>8, <1>9 DEF HistoryOwned, Exists
<1>11. HistoryTellsStatus'
  <2>1. ASSUME NEW b \in Apps
        PROVE  Chain(hist'[b]) /\ (hist'[b] # <<>> => hist'[b][Len(hist'[b])].to = app'[b].status)
    BY <1>4, <1>5, <1>6, <1>8 DEF HistoryTellsStatus, Chain
  <2> QED
    BY <2>1 DEF HistoryTellsStatus, Chain
<1>12. DatesFollowStatus'
  <2>1. new.status \in {"screening", "interview", "offer", "rejected"} => new.applied # NoDay
    BY <1>2, <1>3, <1>4, AllowedDates DEF DatesFollowStatus
  <2>2. new.status = "applied" => new.applied # NoDay
    BY <1>3, <1>4
  <2> QED
    BY <1>6, <1>7, <2>1, <2>2 DEF DatesFollowStatus
<1>13. NothingOrphaned' /\ OnePerJob'
  <2>1. \A b \in Apps : app'[b].job = app[b].job
    BY <1>4, <1>6
  <2> QED
    BY <1>1, <1>9, <2>1 DEF NothingOrphaned, OnePerJob, Exists
<1>14. \A q \in Requests \ {r} : req[q].op \in {"status", "book"}
                                 => app'[req[q].app] = app[req[q].app]
  BY <1>2, <1>6 DEF LockedRowFrozen
<1>15. \A b \in Apps : app[b].status # "absent" =>
          /\ app'[b].status # "absent"
          /\ app[b].status # "saved" => app'[b].status # "saved"
  BY <1>6, <1>7
<1> QED
  BY <1>1, <1>6, <1>8, <1>10, <1>11, <1>12, <1>13, <1>14, <1>15, WriteStep

\* Deleting an application needs the foreign key of interviews to agree.
LEMMA DeleteCommitStep ==
    ASSUME IInv, NEW r \in Requests, DeleteCommit(r)
    PROVE  IInv'
<1> USE DEF IInv
<1> DEFINE a == req[r].app
           gone == [Absent EXCEPT !.status = "deleted"]
<1>1. /\ req[r].op = "delete" /\ lock[a] = None /\ Ends(r)
      /\ jobs' = jobs /\ booked' = booked /\ today' = today
      /\ req \in [Requests -> Request] /\ app \in [Apps -> Row]
      /\ jobs \subseteq Jobs /\ hist \in [Apps -> Seq(Step)]
      /\ booked \in [Interviews -> Apps \cup {None}] /\ today \in Days
      /\ a \in Apps
  BY DEF DeleteCommit, TypeOK, DeleteWanted
<1>2. CASE UNCHANGED <<app, hist>>
  BY <1>1, <1>2, RollbackStep DEF rows
<1>3. CASE /\ DeleteAllowed(a)
           /\ app' = [app EXCEPT ![a] = gone]
           /\ hist' = [hist EXCEPT ![a] = <<>>]
  <2>1. gone \in Row /\ gone.status = "deleted"
    BY DEF Absent, Row, Dates
  <2> HIDE DEF gone, a
  <2>2. /\ app' \in [Apps -> Row] /\ app'[a] = gone
        /\ \A b \in Apps : b # a => app'[b] = app[b]
        /\ hist' \in [Apps -> Seq(Step)] /\ hist'[a] = <<>>
        /\ \A b \in Apps : b # a => hist'[b] = hist[b]
    BY <1>1, <1>3, <2>1
  <2>3. /\ Exists(a) /\ ~HasInterviews(a) /\ app'[a].status \notin Statuses
        /\ \A b \in Apps : b # a => (Exists(b)' <=> Exists(b))
    BY <1>3, <2>1, <2>2 DEF DeleteAllowed, Exists, Statuses
  <2>4. HistoryOwned' /\ DatesFollowStatus' /\ OnePerJob'
    <3>1. HistoryOwned' /\ DatesFollowStatus'
      BY <2>1, <2>2, <2>3 DEF HistoryOwned, DatesFollowStatus, Exists, Statuses
    <3>2. OnePerJob'
      BY <2>2, <2>3 DEF OnePerJob, Exists
    <3> QED
      BY <3>1, <3>2
  <2>5. HistoryTellsStatus'
    <3>1. Len(<<>>) = 0 /\ 1..0 = {} /\ 1..(0 - 1) = {}
      OBVIOUS
    <3>2. ASSUME NEW b \in Apps
          PROVE  Chain(hist'[b]) /\ (hist'[b] # <<>> => hist'[b][Len(hist'[b])].to = app'[b].status)
      <4>1. CASE b = a
        BY <2>2, <3>1, <4>1 DEF Chain
      <4>2. CASE b # a
        BY <2>2, <4>2 DEF HistoryTellsStatus, Chain
      <4> QED
        BY <4>1, <4>2
    <3> QED
      BY <3>2 DEF HistoryTellsStatus, Chain
  <2>6. NothingOrphaned'
    BY <1>1, <2>2, <2>3 DEF NothingOrphaned, HasInterviews, Exists
  <2>7. \A q \in Requests \ {r} : req[q].op \in {"status", "book"}
                                  => app'[req[q].app] = app[req[q].app]
    BY <1>1, <2>2, ApplicationsAssumption DEF LockedRowFrozen
  <2>8. \A b \in Apps : app[b].status # "absent" =>
            /\ app'[b].status # "absent"
            /\ app[b].status # "saved" => app'[b].status # "saved"
    BY <2>1, <2>2
  <2> QED
    BY <1>1, <2>2, <2>4, <2>5, <2>6, <2>7, <2>8, WriteStep
<1> QED
  BY <1>2, <1>3 DEF DeleteCommit

\* The interview belongs to a row that has been locked since it was looked up.
LEMMA BookCommitStep ==
    ASSUME IInv, NEW r \in Requests, NEW i \in Interviews, BookCommit(r, i)
    PROVE  IInv'
<1> USE DEF IInv
<1>1. /\ req[r].op = "book" /\ Ends(r)
      /\ booked' = [booked EXCEPT ![i] = req[r].app]
      /\ UNCHANGED <<jobs, app, hist, today>>
      /\ jobs \subseteq Jobs /\ app \in [Apps -> Row] /\ hist \in [Apps -> Seq(Step)]
      /\ booked \in [Interviews -> Apps \cup {None}] /\ today \in Days
  BY DEF BookCommit, TypeOK
<1>2. req[r].app \in Apps /\ Exists(req[r].app)
  BY <1>1 DEF LockedRowFrozen, Exists
<1>3. booked' \in [Interviews -> Apps \cup {None}]
  BY <1>1, <1>2
<1>4. NothingOrphaned'
  BY <1>1, <1>2 DEF NothingOrphaned, Exists
<1>5. HistoryOwned' /\ HistoryTellsStatus' /\ DatesFollowStatus' /\ OnePerJob'
  BY <1>1 DEF HistoryOwned, HistoryTellsStatus, DatesFollowStatus, OnePerJob, Exists
<1> QED
  BY <1>1, <1>3, <1>4, <1>5, WriteStep

\* Deleting a job needs the foreign key of applications to agree.
LEMMA DeleteJobCommitStep ==
    ASSUME IInv, NEW r \in Requests, DeleteJobCommit(r)
    PROVE  IInv'
<1> USE DEF IInv
<1>1. /\ Ends(r) /\ UNCHANGED <<app, hist, booked, today>>
      /\ jobs \subseteq Jobs /\ app \in [Apps -> Row] /\ hist \in [Apps -> Seq(Step)]
      /\ booked \in [Interviews -> Apps \cup {None}] /\ today \in Days
      /\ jobs' = jobs \/ (~HasApplication(req[r].job) /\ jobs' = jobs \ {req[r].job})
  BY DEF DeleteJobCommit, TypeOK
<1>2. NothingOrphaned'
  BY <1>1 DEF NothingOrphaned, HasApplication, Exists
<1>3. HistoryOwned' /\ HistoryTellsStatus' /\ DatesFollowStatus' /\ OnePerJob'
  BY <1>1 DEF HistoryOwned, HistoryTellsStatus, DatesFollowStatus, OnePerJob, Exists
<1>4. jobs' \subseteq Jobs
  BY <1>1
<1> QED
  BY <1>1, <1>2, <1>3, <1>4, WriteStep

\* A creation reads the job.
LEMMA CreateCheckStep ==
    ASSUME IInv, NEW r \in Requests, NEW j \in Jobs, NEW s \in {"saved", "applied"},
           NEW d \in DateInputs, NEW e \in DateInputs, CreateCheck(r, j, s, d, e)
    PROVE  IInv'
<1> DEFINE target == NewRow(j, s, d, e)
<1>1. /\ Idle(r)
      /\ s = "saved" => d = NoDay
      /\ Starts(r, "create", None, j, target) /\ UNCHANGED rows /\ UNCHANGED lock
  BY DEF CreateCheck
<1>2. d \in Dates /\ e \in Dates /\ today \in Dates /\ today # NoDay
  BY ApplicationsAssumption DEF IInv, TypeOK, Dates, Days, NoDay
<1>3. target \in Row /\ target.job = j /\ target.status = s
  BY <1>2 DEF NewRow, Row, Statuses
<1>4. target.status = "saved" <=> target.applied = NoDay
  BY <1>1, <1>2 DEF NewRow
<1> HIDE DEF target
<1>5. "create" \in Ops
  BY DEF Ops
<1> QED
  BY <1>1, <1>3, <1>4, <1>5, ReadStep

\* An edit reads the row.
LEMMA UpdateCheckStep ==
    ASSUME IInv, NEW r \in Requests, NEW a \in Apps,
           NEW d \in DateInputs \cup {app[a].applied},
           NEW e \in DateInputs \cup {app[a].deadline}, UpdateCheck(r, a, d, e)
    PROVE  IInv'
<1> DEFINE target == [app[a] EXCEPT !.applied = d, !.deadline = e]
<1>1. /\ Idle(r) /\ Exists(a)
      /\ (app[a].status = "saved") <=> (d = NoDay)
      /\ Starts(r, "update", a, None, target) /\ UNCHANGED rows /\ UNCHANGED lock
  BY DEF UpdateCheck
<1>2. app[a] \in Row
  BY DEF IInv, TypeOK
<1>3. app[a].applied \in Dates /\ app[a].deadline \in Dates
  BY <1>2, RowFields
<1>4. d \in Dates /\ e \in Dates
  BY <1>3, ApplicationsAssumption DEF Dates, Days, NoDay
<1>5. target \in Row /\ target.status = app[a].status /\ target.applied = d
  BY <1>2, <1>4 DEF Row
<1> HIDE DEF target
<1>6. "update" \in Ops /\ app[a].status # "absent"
  BY <1>1 DEF Ops, Exists, Statuses
<1> QED
  BY <1>1, <1>5, <1>6, ReadStep

\* A change of status locks the row.
LEMMA StatusLockStep ==
    ASSUME IInv, NEW r \in Requests, NEW a \in Apps, NEW s \in Statuses, StatusLock(r, a, s)
    PROVE  IInv'
<1> DEFINE target == Changed(app[a], s)
<1>1. /\ Idle(r) /\ Exists(a) /\ s \in Allowed(app[a].status)
      /\ lock[a] = None /\ lock' = [lock EXCEPT ![a] = r] /\ lock \in [Apps -> Requests \cup {None}]
      /\ Starts(r, "status", a, None, target) /\ UNCHANGED rows
  BY DEF StatusLock, LockRow, IInv, TypeOK
<1>2. app[a] \in Row /\ today \in Dates /\ today # NoDay
  BY DEF IInv, TypeOK, Dates, Days, NoDay
<1>3. target \in Row /\ target.status = s
  BY <1>2 DEF Changed, Row
<1>4. /\ s = "applied" => target.applied # NoDay
      /\ s # "applied" => target.applied = app[a].applied
  BY <1>2 DEF Changed, Row
<1> HIDE DEF target
<1>5. "status" \in Ops /\ lock'[a] = r /\ app[a].status \in Statuses
  BY <1>1 DEF Ops, Exists
<1> QED
  BY <1>1, <1>3, <1>4, <1>5, ReadStep

\* The lookups of deletion and of interview creation.
LEMMA LookupStep ==
    ASSUME IInv, NEW r \in Requests, NEW a \in Apps, DeleteCheck(r, a) \/ BookLock(r, a)
    PROVE  IInv'
<1>1. {"delete", "book"} \subseteq Ops /\ app[a] \in Row
  BY DEF Ops, IInv, TypeOK
<1>2. CASE DeleteCheck(r, a)
  BY <1>1, <1>2, ReadStep DEF DeleteCheck
<1>3. CASE BookLock(r, a)
  <2>1. /\ Idle(r) /\ Exists(a) /\ lock[a] = None /\ lock' = [lock EXCEPT ![a] = r]
        /\ lock \in [Apps -> Requests \cup {None}]
        /\ Starts(r, "book", a, None, app[a]) /\ UNCHANGED rows
        /\ app[a].status \in Eligible
    BY <1>3 DEF BookLock, LockRow, IInv, TypeOK
  <2>2. lock'[a] = r /\ app[a].status \in Statuses
    BY <2>1 DEF Exists
  <2> QED
    BY <1>1, <2>1, <2>2, ReadStep
<1> QED
  BY <1>2, <1>3

\* The deletion of a job finds no application.
LEMMA DeleteJobCheckStep ==
    ASSUME IInv, NEW r \in Requests, NEW j \in Jobs, DeleteJobCheck(r, j)
    PROVE  IInv'
<1>1. "delete_job" \in Ops /\ Absent \in Row
  BY AbsentRow DEF Ops
<1> QED
  BY <1>1, ReadStep DEF DeleteJobCheck

\* Steps that no request in flight takes.
LEMMA OutsideStep ==
    ASSUME IInv,
           \/ \E i \in Interviews : Unbook(i)
           \/ \E j \in Jobs : CreateJob(j)
           \/ NextDay
           \/ UNCHANGED vars
    PROVE  IInv'
<1> USE DEF IInv
<1>1. /\ UNCHANGED <<app, hist, lock, req>>
      /\ jobs \subseteq jobs' /\ jobs' \subseteq Jobs
      /\ \A i \in Interviews : booked'[i] \in {booked[i], None}
      /\ booked' \in [Interviews -> Apps \cup {None}]
      /\ today' \in Days
  BY ApplicationsAssumption DEF Unbook, CreateJob, NextDay, vars, TypeOK, Days
<1>2. TypeOK'
  BY <1>1 DEF TypeOK
<1>3. LockedRowFrozen' /\ StatusWanted' /\ EditWanted' /\ CreateWanted' /\ DeleteWanted' /\ BookWanted'
  BY <1>1 DEF LockedRowFrozen, StatusWanted, EditWanted, CreateWanted, DeleteWanted, BookWanted
<1>4. HistoryOwned' /\ HistoryTellsStatus' /\ DatesFollowStatus' /\ OnePerJob'
  BY <1>1 DEF HistoryOwned, HistoryTellsStatus, DatesFollowStatus, OnePerJob, Exists
<1>5. NothingOrphaned'
  BY <1>1 DEF NothingOrphaned, Exists
<1> QED
  BY <1>2, <1>3, <1>4, <1>5

\* The invariant holds of empty tables.
LEMMA Initially == Init => IInv
<1> SUFFICES ASSUME Init PROVE IInv
  OBVIOUS
<1>1. Resting \in Request /\ Resting.op = "none"
  BY AbsentRow DEF Resting, Request, Ops
<1>2. /\ app \in [Apps -> Row] /\ \A a \in Apps : app[a].status = "absent" /\ ~Exists(a)
      /\ \A r \in Requests : req[r].op = "none"
      /\ hist \in [Apps -> Seq(Step)] /\ today \in Days
  BY <1>1, AbsentRow, EmptySeq, ApplicationsAssumption DEF Init, Exists, Statuses, Days
<1>3. TypeOK
  BY <1>1, <1>2 DEF Init, TypeOK
<1>4. LockedRowFrozen /\ StatusWanted /\ EditWanted /\ CreateWanted /\ DeleteWanted /\ BookWanted
  BY <1>2 DEF LockedRowFrozen, StatusWanted, EditWanted, CreateWanted, DeleteWanted, BookWanted
<1>5. HistoryOwned /\ DatesFollowStatus /\ OnePerJob
  BY <1>2 DEF Init, HistoryOwned, DatesFollowStatus, OnePerJob
<1>6. HistoryTellsStatus
  <2>1. Len(<<>>) = 0 /\ 1..0 = {} /\ 1..(0 - 1) = {}
    OBVIOUS
  <2>2. \A a \in Apps : hist[a] = <<>>
    BY DEF Init
  <2> QED
    BY <2>1, <2>2 DEF HistoryTellsStatus
<1>7. NothingOrphaned
  BY <1>2 DEF Init, NothingOrphaned
<1> QED
  BY <1>3, <1>4, <1>5, <1>6, <1>7 DEF IInv

\* Every step keeps the invariant.
LEMMA Preserved == IInv /\ [Next]_vars => IInv'
<1> SUFFICES ASSUME IInv, [Next]_vars PROVE IInv'
  OBVIOUS
<1>1. ASSUME NEW r \in Requests, Write(r) PROVE IInv'
  <2>1. CASE \E a \in Apps : CreateInsert(r, a)
    BY <2>1, CreateInsertStep
  <2>2. CASE UpdateWrite(r)
    BY <2>2, UpdateWriteStep
  <2>3. CASE StatusCommit(r)
    BY <2>3, StatusCommitStep
  <2>4. CASE DeleteCommit(r)
    BY <2>4, DeleteCommitStep
  <2>5. CASE \E i \in Interviews : BookCommit(r, i)
    BY <2>5, BookCommitStep
  <2>6. CASE DeleteJobCommit(r)
    BY <2>6, DeleteJobCommitStep
  <2>7. CASE Rollback(r)
    BY <2>7, RollbackStep DEF Rollback
  <2> QED
    BY <1>1, <2>1, <2>2, <2>3, <2>4, <2>5, <2>6, <2>7 DEF Write
<1>2. ASSUME NEW r \in Requests, Read(r) PROVE IInv'
  <2>1. CASE \E j \in Jobs, s \in {"saved", "applied"}, d, e \in DateInputs :
                CreateCheck(r, j, s, d, e)
    BY <2>1, CreateCheckStep
  <2>2. CASE \E a \in Apps :
             \E d \in DateInputs \cup {app[a].applied}, e \in DateInputs \cup {app[a].deadline} :
                UpdateCheck(r, a, d, e)
    BY <2>2, UpdateCheckStep
  <2>3. CASE \E a \in Apps, s \in Statuses : StatusLock(r, a, s)
    BY <2>3, StatusLockStep
  <2>4. CASE \E a \in Apps : DeleteCheck(r, a) \/ BookLock(r, a)
    BY <2>4, LookupStep
  <2>5. CASE \E j \in Jobs : DeleteJobCheck(r, j)
    BY <2>5, DeleteJobCheckStep
  <2> QED
    BY <1>2, <2>1, <2>2, <2>3, <2>4, <2>5 DEF Read
<1> QED
  BY <1>1, <1>2, OutsideStep DEF Next

\* The inductive invariant holds in every reachable state.
THEOREM Invariance == Spec => []IInv
  BY Initially, Preserved, PTL DEF Spec

----------------------------------------------------------------------------
(* The properties of Applications.                                         *)

\* Rows and requests stay well formed and a lock has its holder.
THEOREM TypeCorrect == Spec => []TypeOK
<1>1. IInv => TypeOK
  BY DEF IInv
<1> QED
  BY <1>1, Invariance, PTL

\* The history of every application is one chain of allowed transitions that
\* ends at its present status (StatusLock and StatusCommit).
THEOREM HistoryIsOneChain == Spec => []HistoryTellsStatus
<1>1. IInv => HistoryTellsStatus
  BY DEF IInv
<1> QED
  BY <1>1, Invariance, PTL

\* Unlocked edits never leave an application with a date its status excludes.
THEOREM DatesFollow == Spec => []DatesFollowStatus
<1>1. IInv => DatesFollowStatus
  BY DEF IInv
<1> QED
  BY <1>1, Invariance, PTL

\* No interview outlives its application and no application its job.
THEOREM NoOrphans == Spec => []NothingOrphaned
<1>1. IInv => NothingOrphaned
  BY DEF IInv
<1> QED
  BY <1>1, Invariance, PTL

\* An interview is booked only onto an application that is eligible at that
\* moment: the row has been locked since BookLock looked at it.
THEOREM BookingIsChecked == Spec => BookedWhenEligible
<1>1. IInv /\ [Next]_vars => [\A i \in Interviews :
                                 booked[i] = None /\ booked'[i] # None
                                 => app[booked'[i]].status \in Eligible]_vars
  <2> SUFFICES ASSUME IInv, Next, NEW i \in Interviews, booked[i] = None, booked'[i] # None
               PROVE  app[booked'[i]].status \in Eligible
    OBVIOUS
  <2>1. PICK r \in Requests, k \in Interviews : BookCommit(r, k)
    <3>1. booked' # booked
      OBVIOUS
    <3>2. \A r \in Requests : ~Read(r)
      BY <3>1 DEF Read, CreateCheck, UpdateCheck, StatusLock, DeleteCheck, BookLock,
                  DeleteJobCheck, rows
    <3>3. \A k \in Interviews : ~Unbook(k)
      BY DEF Unbook, IInv, TypeOK
    <3>4. (\A j \in Jobs : ~CreateJob(j)) /\ ~NextDay
      BY <3>1 DEF CreateJob, NextDay
    <3>5. PICK r \in Requests : Write(r)
      BY <3>2, <3>3, <3>4 DEF Next
    <3>6. \E k \in Interviews : BookCommit(r, k)
      BY <3>1, <3>5 DEF Write, CreateInsert, UpdateWrite, StatusCommit, DeleteCommit,
                       DeleteJobCommit, Rollback, rows
    <3> QED
      BY <3>6
  <2>2. booked'[i] = req[r].app /\ req[r].op = "book"
    BY <2>1 DEF BookCommit, IInv, TypeOK
  <2> QED
    BY <2>2 DEF IInv, BookWanted, LockedRowFrozen
<1> QED
  BY <1>1, Invariance, PTL DEF Spec, BookedWhenEligible

\* Two creations for one job never both succeed.
THEOREM OneApplicationPerJob == Spec => []OnePerJob
<1>1. IInv => OnePerJob
  BY DEF IInv
<1> QED
  BY <1>1, Invariance, PTL

=============================================================================
