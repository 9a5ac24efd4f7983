---------------------------- MODULE Applications ----------------------------
(***************************************************************************)
(* Job applications of one owner (services/application_service.py) with    *)
(* the requests that bear on them: creating and deleting the job they are  *)
(* for (services/job_service.py) and booking interviews for them           *)
(* (services/interview_service.py).                                        *)
(*                                                                         *)
(* A handler that reads, validates and then writes is two steps: the first *)
(* one reads committed rows and remembers them, the second one is the      *)
(* writing statement and the commit.  Between them other requests commit,  *)
(* unless the first statement was SELECT ... FOR UPDATE.  SQLAlchemy       *)
(* writes only the columns that differ from what was loaded, so a request  *)
(* is described by the row it saw and the row it wants.                    *)
(*                                                                         *)
(* Identifiers are never reused for applications; a job or an interview    *)
(* that was deleted may be created again under its name here.  Dates are   *)
(* small numbers and NoDay is NULL.                                        *)
(***************************************************************************)
EXTENDS Naturals, Sequences

CONSTANTS
    Apps,        \* application identifiers
    Jobs,        \* jobs of the owner
    Interviews,  \* interviews of the owner
    Requests,    \* requests that can be in flight at once
    LastDay,     \* bound: the calendar ends here
    DateInputs,  \* bound: dates a client sends, or NoDay
    None         \* NULL, nobody, no request

ASSUME ApplicationsAssumption ==
    /\ None \notin Apps /\ None \notin Jobs /\ None \notin Requests
    /\ LastDay \in Nat \ {0}
    /\ DateInputs \subseteq 0..LastDay

VARIABLES
    jobs,    \* the jobs that exist
    app,     \* app[a]: the committed row of application a
    hist,    \* hist[a]: its application_status_history, in order
    booked,  \* booked[i]: the application interview i is for
    lock,    \* lock[a]: the request that holds the row FOR UPDATE
    today,   \* datetime.now(UTC).date()
    req      \* req[r]: what request r has read and wants to write

vars == <<jobs, app, hist, booked, lock, today, req>>
rows == <<jobs, app, hist, booked, today>>

NoDay == 0
Days == 1..LastDay
Dates == Days \cup {NoDay}

Statuses == {"saved", "applied", "screening", "interview", "offer", "rejected",
             "withdrawn", "archived"}

\* ALLOWED_STATUS_TRANSITIONS.
Allowed(status) ==
    CASE status = "saved"     -> {"applied", "withdrawn"}
      [] status = "applied"   -> {"screening", "rejected", "withdrawn"}
      [] status = "screening" -> {"interview", "rejected", "withdrawn"}
      [] status = "interview" -> {"offer", "rejected", "withdrawn"}
      [] status \in {"offer", "rejected", "withdrawn"} -> {"archived"}
      [] OTHER -> {}

\* INTERVIEW_ELIGIBLE_APPLICATION_STATUSES.
Eligible == {"screening", "interview", "offer"}

Row == [job : Jobs \cup {None}, status : Statuses \cup {"absent", "deleted"},
        applied : Dates, deadline : Dates]

Absent == [job |-> None, status |-> "absent", applied |-> NoDay, deadline |-> NoDay]

Ops == {"none", "create", "update", "status", "delete", "book", "delete_job"}

Request == [op : Ops, app : Apps \cup {None}, job : Jobs \cup {None},
            seen : Row, target : Row]

Resting == [op |-> "none", app |-> None, job |-> None, seen |-> Absent, target |-> Absent]

Exists(a) == app[a].status \in Statuses
HasApplication(j) == \E a \in Apps : Exists(a) /\ app[a].job = j
HasInterviews(a) == \E i \in Interviews : booked[i] = a

DatesOK(row) == row.applied # NoDay /\ row.deadline # NoDay => row.deadline >= row.applied

Idle(r) == req[r].op = "none"

Starts(r, op, a, j, target) ==
    req' = [req EXCEPT ![r] = [op |-> op, app |-> a, job |-> j, target |-> target,
                               seen |-> IF a = None THEN Absent ELSE app[a]]]

\* Mutant: it keeps the lock.
EndsLocked(r) ==
    /\ req' = [req EXCEPT ![r] = Resting]
    /\ UNCHANGED lock

\* The transaction of request r ends and gives up its lock.
Ends(r) ==
    /\ req' = [req EXCEPT ![r] = Resting]
    /\ lock' = [a \in Apps |-> IF lock[a] = r THEN None ELSE lock[a]]

\* Mutant: the value is written whether it changed or not.
FlushAlways(present, loaded, wanted) == wanted

\* A column is written at flush only if it was changed after it was loaded.
Flush(present, loaded, wanted) == IF wanted = loaded THEN present ELSE wanted

\* Flushing an object loaded as seen and changed to target onto the present row.
Merged(row, seen, target) ==
    [row EXCEPT !.status = IF target.status = seen.status THEN @ ELSE target.status,
                !.applied = Flush(@, seen.applied, target.applied),
                !.deadline = Flush(@, seen.deadline, target.deadline)]

Init ==
    /\ jobs = Jobs
    /\ app = [a \in Apps |-> Absent]
    /\ hist = [a \in Apps |-> <<>>]
    /\ booked = [i \in Interviews |-> None]
    /\ lock = [a \in Apps |-> None]
    /\ today = 1
    /\ req = [r \in Requests |-> Resting]

----------------------------------------------------------------------------
(* Creating and updating an application.                                   *)

\* The initial status is saved, without applied_at, or applied, dated today
\* unless the client says otherwise.
NewRow(j, status, applied, deadline) ==
    [job |-> j, status |-> status, deadline |-> deadline,
     applied |-> IF status = "applied" /\ applied = NoDay THEN today ELSE applied]

\* create: the job is there, it has no application yet, the dates are in order.
CreateCheck(r, j, status, applied, deadline) ==
    /\ Idle(r)
    /\ j \in jobs
    /\ ~HasApplication(j)
    /\ status = "saved" => applied = NoDay
    /\ DatesOK(NewRow(j, status, applied, deadline))
    /\ Starts(r, "create", None, j, NewRow(j, status, applied, deadline))
    /\ UNCHANGED <<rows, lock>>

\* fk_applications_owner_job and uq_applications_owner_job on insertion.
ConstraintsAllow(j) == j \in jobs /\ ~HasApplication(j)

\* The INSERT, refused by the constraints if things changed meanwhile.
CreateInsert(r, a) ==
    /\ req[r].op = "create"
    /\ app[a].status = "absent"
    /\ app' = IF ConstraintsAllow(req[r].job)
              THEN [app EXCEPT ![a] = req[r].target] ELSE app
    /\ Ends(r)
    /\ UNCHANGED <<jobs, hist, booked, today>>

\* update: reads without a lock and checks the dates it read or was given.
UpdateCheck(r, a, applied, deadline) ==
    /\ Idle(r)
    /\ Exists(a)
    /\ DatesOK([app[a] EXCEPT !.applied = applied, !.deadline = deadline])
    /\ (app[a].status = "saved") <=> (applied = NoDay)
    /\ Starts(r, "update", a, None, [app[a] EXCEPT !.applied = applied, !.deadline = deadline])
    /\ UNCHANGED <<rows, lock>>

\* The UPDATE waits for the row.  A row deleted meanwhile makes it fail.
UpdateWrite(r) ==
    /\ req[r].op = "update"
    /\ lock[req[r].app] = None
    /\ app' = IF Exists(req[r].app)
              THEN [app EXCEPT ![req[r].app] = Merged(@, req[r].seen, req[r].target)]
              ELSE app
    /\ Ends(r)
    /\ UNCHANGED <<jobs, hist, booked, today>>

----------------------------------------------------------------------------
(* Status changes.                                                         *)

\* Mutant: the row is read without FOR UPDATE.
ReadRow(r, a) == lock[a] = None /\ UNCHANGED lock

\* get_owned_for_update.
LockRow(r, a) == lock[a] = None /\ lock' = [lock EXCEPT ![a] = r]

\* Becoming applied dates an application that has no date.
Changed(row, s) ==
    [row EXCEPT !.status = s,
                !.applied = IF s = "applied" /\ @ = NoDay THEN today ELSE @]

\* change_status: lock the row, check the transition, and the deadline if the
\* application is dated now.
StatusLock(r, a, s) ==
    /\ Idle(r)
    /\ Exists(a)
    /\ LockRow(r, a)
    /\ s \in Allowed(app[a].status)
    /\ Changed(app[a], s).applied # app[a].applied => DatesOK(Changed(app[a], s))
    /\ Starts(r, "status", a, None, Changed(app[a], s))
    /\ UNCHANGED rows

\* The row and one line of history are written together.
StatusCommit(r) ==
    LET a == req[r].app IN
    /\ req[r].op = "status"
    /\ app' = [app EXCEPT ![a] = Merged(@, req[r].seen, req[r].target)]
    /\ hist' = [hist EXCEPT ![a] = Append(@, [from |-> req[r].seen.status,
                                              to |-> req[r].target.status])]
    /\ Ends(r)
    /\ UNCHANGED <<jobs, booked, today>>

----------------------------------------------------------------------------
(* Deletion, interviews and jobs.                                          *)

\* delete: the application has no interviews when they are looked up.
DeleteCheck(r, a) ==
    /\ Idle(r)
    /\ Exists(a)
    /\ ~HasInterviews(a)
    /\ Starts(r, "delete", a, None, app[a])
    /\ UNCHANGED <<rows, lock>>

\* fk_interviews_owner_application is ON DELETE RESTRICT.
DeleteAllowed(a) == Exists(a) /\ ~HasInterviews(a)

\* The DELETE waits for the row; its history goes with it (ON DELETE CASCADE).
DeleteCommit(r) ==
    LET a == req[r].app IN
    /\ req[r].op = "delete"
    /\ lock[a] = None
    /\ IF DeleteAllowed(a)
       THEN /\ app' = [app EXCEPT ![a] = [Absent EXCEPT !.status = "deleted"]]
            /\ hist' = [hist EXCEPT ![a] = <<>>]
       ELSE UNCHANGED <<app, hist>>
    /\ Ends(r)
    /\ UNCHANGED <<jobs, booked, today>>

\* Interview creation locks the application and wants it eligible.
BookLock(r, a) ==
    /\ Idle(r)
    /\ Exists(a)
    /\ LockRow(r, a)
    /\ app[a].status \in Eligible
    /\ Starts(r, "book", a, None, app[a])
    /\ UNCHANGED rows

BookCommit(r, i) ==
    /\ req[r].op = "book"
    /\ booked[i] = None
    /\ booked' = [booked EXCEPT ![i] = req[r].app]
    /\ Ends(r)
    /\ UNCHANGED <<jobs, app, hist, today>>

\* Deleting an interview has no precondition.
Unbook(i) ==
    /\ booked[i] # None
    /\ booked' = [booked EXCEPT ![i] = None]
    /\ UNCHANGED <<jobs, app, hist, lock, today, req>>

CreateJob(j) ==
    /\ j \notin jobs
    /\ jobs' = jobs \cup {j}
    /\ UNCHANGED <<app, hist, booked, lock, today, req>>

\* Job deletion: no application at the lookup, and none at the DELETE either.
DeleteJobCheck(r, j) ==
    /\ Idle(r)
    /\ j \in jobs
    /\ ~HasApplication(j)
    /\ Starts(r, "delete_job", None, j, Absent)
    /\ UNCHANGED <<rows, lock>>

DeleteJobCommit(r) ==
    /\ req[r].op = "delete_job"
    /\ jobs' = IF HasApplication(req[r].job) THEN jobs ELSE jobs \ {req[r].job}
    /\ Ends(r)
    /\ UNCHANGED <<app, hist, booked, today>>

\* Any request may fail: another conflict, or an error of the database.
Rollback(r) == ~Idle(r) /\ Ends(r) /\ UNCHANGED rows

NextDay ==
    /\ today < LastDay
    /\ today' = today + 1
    /\ UNCHANGED <<jobs, app, hist, booked, lock, req>>

----------------------------------------------------------------------------
Write(r) ==
    \/ \E a \in Apps : CreateInsert(r, a)
    \/ UpdateWrite(r) \/ StatusCommit(r) \/ DeleteCommit(r)
    \/ \E i \in Interviews : BookCommit(r, i)
    \/ DeleteJobCommit(r)
    \/ Rollback(r)

Read(r) ==
    \/ \E j \in Jobs, s \in {"saved", "applied"}, d, e \in DateInputs :
          CreateCheck(r, j, s, d, e)
    \/ \E a \in Apps :
       \E d \in DateInputs \cup {app[a].applied}, e \in DateInputs \cup {app[a].deadline} :
          UpdateCheck(r, a, d, e)
    \/ \E a \in Apps, s \in Statuses : StatusLock(r, a, s)
    \/ \E a \in Apps : DeleteCheck(r, a) \/ BookLock(r, a)
    \/ \E j \in Jobs : DeleteJobCheck(r, j)

Next ==
    \/ \E r \in Requests : Read(r) \/ Write(r)
    \/ \E i \in Interviews : Unbook(i)
    \/ \E j \in Jobs : CreateJob(j)
    \/ NextDay

Spec == Init /\ [][Next]_vars

----------------------------------------------------------------------------
(* Properties.                                                             *)

Step == [from : Statuses, to : Statuses]

\* Rows and requests are well formed, and a lock is held by a status change or a
\* booking in flight on that row.
TypeOK ==
    /\ jobs \subseteq Jobs
    /\ app \in [Apps -> Row]
    /\ hist \in [Apps -> Seq(Step)]
    /\ booked \in [Interviews -> Apps \cup {None}]
    /\ lock \in [Apps -> Requests \cup {None}]
    /\ today \in Days
    /\ req \in [Requests -> Request]
    /\ \A a \in Apps : lock[a] # None =>
          req[lock[a]].app = a /\ req[lock[a]].op \in {"status", "book"}

\* ADR 0005: concurrent status changes leave a history without gaps or forks:
\* every line is an allowed transition, follows the line before it, and the last
\* one tells the present status.
HistoryTellsStatus ==
    \A a \in Apps :
       /\ \A n \in 1..Len(hist[a]) : hist[a][n].to \in Allowed(hist[a][n].from)
       /\ \A n \in 1..(Len(hist[a]) - 1) : hist[a][n].to = hist[a][n + 1].from
       /\ hist[a] # <<>> => hist[a][Len(hist[a])].to = app[a].status

\* A saved application has no applied_at and one under way has one, although
\* edits of the dates and changes of the status validate separately.
DatesFollowStatus ==
    \A a \in Apps :
       /\ app[a].status = "saved" => app[a].applied = NoDay
       /\ app[a].status \in {"applied", "screening", "interview", "offer", "rejected"}
          => app[a].applied # NoDay

\* ARCHITECTURE.md 12: an interview is booked only while its application is in
\* screening, interview or offer, also when the status changes concurrently.
BookedWhenEligible ==
    [][\A i \in Interviews : booked[i] = None /\ booked'[i] # None
                             => app[booked'[i]].status \in Eligible]_vars

\* Every interview has its application and every application its job, however
\* lookups and deletions cross.
NothingOrphaned ==
    /\ \A i \in Interviews : booked[i] # None => Exists(booked[i])
    /\ \A a \in Apps : Exists(a) => app[a].job \in jobs

\* A job has at most one application.
OnePerJob ==
    \A a, b \in Apps : Exists(a) /\ Exists(b) /\ app[a].job = app[b].job => a = b

\* application_service.py, INVALID_APPLICATION_DATES: "deadline cannot be before
\* applied_at".
DeadlineNotBeforeApplied == \A a \in Apps : DatesOK(app[a])

============================================================================
