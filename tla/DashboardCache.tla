--------------------------- MODULE DashboardCache ---------------------------
(***************************************************************************)
(* The dashboard of one owner: requests that read it through its cache     *)
(* entry (services/dashboard_service.py, services/dashboard_cache.py) and  *)
(* requests of the four services that write to the owner's rows and then   *)
(* delete the entry.  The commits of the owner are numbered; what a reader *)
(* aggregates is described by the number of commits before the first of    *)
(* its SELECTs, each of which sees the rows committed when it starts.      *)
(***************************************************************************)
EXTENDS Naturals, Sequences

CONSTANTS
    Readers,     \* requests that can read the dashboard at once
    Writers,     \* requests that can write at once
    LastCommit   \* bound: commits of the owner

ASSUME DashboardAssumption == LastCommit \in Nat \ {0}

VARIABLES
    commits,     \* how many writes the owner has committed
    dashboard,   \* the value of the owner's key in Redis
    reader,      \* reader[r]: what request r has aggregated
    writer,      \* writer[w]: how far request w is with its write
    missed       \* commits whose request ended without deleting the entry

dashboardVars == <<commits, dashboard, reader, writer, missed>>

Commits == 1..LastCommit

\* seen: the commits that every figure includes; passed: the commits whose
\* deletion ran while the figures were being computed.
Figures == [seen : Commits \cup {0}, passed : SUBSET Commits]
NoFigures == [seen |-> 0, passed |-> {}]

\* present: there is a value under the key; valid: it parses.
Entry == [present : BOOLEAN, valid : BOOLEAN, figures : Figures]
NoEntry == [present |-> FALSE, valid |-> FALSE, figures |-> NoFigures]
Stored(figures) == [present |-> TRUE, valid |-> TRUE, figures |-> figures]

\* Mutant: the entry is deleted before the commit.
DeletesFirst == <<"invalidate", "commit", "refresh">>

\* What create and update do after their statements; delete has no refresh.
Steps == <<"commit", "refresh", "invalidate">>
WriterSteps == {"commit", "refresh", "invalidate"}

\* The step after the given one; a request rests before the first.
After(step) ==
    IF step = "idle" THEN Steps[1]
    ELSE LET i == CHOOSE j \in 1..3 : Steps[j] = step
         IN  IF i = 3 THEN "idle" ELSE Steps[i + 1]

Writing == [at : WriterSteps \cup {"idle"}, commit : Commits \cup {0}, deleted : BOOLEAN]
NotWriting == [at |-> "idle", commit |-> 0, deleted |-> FALSE]

Reading == [at : {"idle", "discard", "select", "store"}, figures : Figures]
NotReading == [at |-> "idle", figures |-> NoFigures]

DashboardInit ==
    /\ commits = 0
    /\ dashboard = NoEntry
    /\ reader = [r \in Readers |-> NotReading]
    /\ writer = [w \in Writers |-> NotWriting]
    /\ missed = {}

----------------------------------------------------------------------------
(* Reading: DashboardService.get.                                          *)

\* read: a hit is the answer; a miss, an invalid value or an error is not.
ReadCached(r) ==
    /\ reader[r].at = "idle"
    /\ \/ reader' = [reader EXCEPT ![r].at = "select"]
       \/ /\ dashboard.present /\ ~dashboard.valid
          /\ reader' = [reader EXCEPT ![r].at = "discard"]
    /\ UNCHANGED <<commits, dashboard, writer, missed>>

\* _discard deletes whatever is under the key by then.
DiscardEntry(r) ==
    /\ reader[r].at = "discard"
    /\ dashboard' \in {dashboard, NoEntry}
    /\ reader' = [reader EXCEPT ![r].at = "select"]
    /\ UNCHANGED <<commits, writer, missed>>

\* aggregate: the first of its SELECTs.
Aggregate(r) ==
    /\ reader[r].at = "select"
    /\ reader' = [reader EXCEPT ![r] =
                     [at |-> "store", figures |-> [seen |-> commits, passed |-> {}]]]
    /\ UNCHANGED <<commits, dashboard, writer, missed>>

\* write: SET, unless the value is too large or Redis fails.
StoreFigures(r) ==
    /\ reader[r].at = "store"
    /\ dashboard' \in {dashboard, Stored(reader[r].figures)}
    /\ reader' = [reader EXCEPT ![r] = NotReading]
    /\ UNCHANGED <<commits, writer, missed>>

----------------------------------------------------------------------------
(* Writing: create, update and delete of the four services.                *)

\* The request of w goes on from where it is.
Moves(w, record) ==
    /\ writer' = [writer EXCEPT ![w] = IF record.at = "idle" THEN NotWriting ELSE record]
    /\ missed' = IF record.at = "idle" /\ ~record.deleted /\ record.commit # 0
                 THEN missed \cup {record.commit}
                 ELSE missed

BeginWrite(w) ==
    /\ writer[w].at = "idle"
    /\ Moves(w, [NotWriting EXCEPT !.at = After("idle")])
    /\ UNCHANGED <<commits, dashboard, reader>>

\* db.commit(); a failed one is a rollback, which changes nothing here.
CommitWrite(w) ==
    /\ writer[w].at = "commit"
    /\ \/ /\ commits < LastCommit
          /\ commits' = commits + 1
          /\ Moves(w, [writer[w] EXCEPT !.commit = commits + 1, !.at = After("commit")])
       \/ /\ UNCHANGED commits
          /\ Moves(w, [writer[w] EXCEPT !.at = "idle"])
    /\ UNCHANGED <<dashboard, reader>>

\* db.refresh() reads the row again; if that fails the request ends with an
\* error, and its commit stays.
RefreshRow(w) ==
    /\ writer[w].at = "refresh"
    /\ \E step \in {After("refresh"), "idle"} : Moves(w, [writer[w] EXCEPT !.at = step])
    /\ UNCHANGED <<commits, dashboard, reader>>

Passed(figures, w) ==
    [figures EXCEPT !.passed = @ \cup {writer[w].commit}]

\* invalidate_dashboard_cache: DEL, whose failure the request survives.
InvalidateDashboard(w) ==
    /\ writer[w].at = "invalidate"
    /\ \/ /\ dashboard' = NoEntry
          /\ reader' = [r \in Readers |->
                           IF reader[r].at = "store"
                           THEN [reader[r] EXCEPT !.figures = Passed(@, w)]
                           ELSE reader[r]]
          /\ Moves(w, [writer[w] EXCEPT !.deleted = TRUE, !.at = After("invalidate")])
       \/ /\ UNCHANGED <<dashboard, reader>>
          /\ Moves(w, [writer[w] EXCEPT !.at = After("invalidate")])
    /\ UNCHANGED commits

\* The process of w stops: after its commit the entry stays.
StopWriter(w) ==
    /\ writer[w].at # "idle"
    /\ Moves(w, [writer[w] EXCEPT !.at = "idle"])
    /\ UNCHANGED <<commits, dashboard, reader>>

\* The entry's time is up, or the server forgets it.
ExpireEntry ==
    /\ dashboard' = NoEntry
    /\ UNCHANGED <<commits, reader, writer, missed>>

\* Another release of the program left a value this one does not accept.
SpoilEntry ==
    /\ dashboard' = [NoEntry EXCEPT !.present = TRUE]
    /\ UNCHANGED <<commits, reader, writer, missed>>

ReaderNext(r) == ReadCached(r) \/ DiscardEntry(r) \/ Aggregate(r) \/ StoreFigures(r)

WriterNext(w) ==
    BeginWrite(w) \/ CommitWrite(w) \/ RefreshRow(w) \/ InvalidateDashboard(w) \/ StopWriter(w)

DashboardNext ==
    \/ \E r \in Readers : ReaderNext(r)
    \/ \E w \in Writers : WriterNext(w)
    \/ ExpireEntry \/ SpoilEntry

DashboardSpec == DashboardInit /\ [][DashboardNext]_dashboardVars

----------------------------------------------------------------------------
(* Properties.                                                             *)

\* DEVELOPMENT.md 258: successful writes invalidate the owner's entry after the
\* commit.  An entry that lacks a commit therefore has one of three excuses: the
\* request that committed is still on its way to the deletion, it ended without
\* one, or its deletion ran between the entry's SELECTs and its SET.
StaleExplained ==
    dashboard.valid =>
       \A c \in (dashboard.figures.seen + 1)..commits :
          \/ \E w \in Writers : writer[w].commit = c /\ ~writer[w].deleted
          \/ c \in missed
          \/ c \in dashboard.figures.passed

=============================================================================
