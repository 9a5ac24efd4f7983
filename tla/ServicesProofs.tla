--------------------------- MODULE ServicesProofs ---------------------------
(***************************************************************************)
(* Safety of the parts beside the applications, for every set of requests  *)
(* and every bound: the dashboard cache (DashboardCache), the cache of the *)
(* provider's documents (DocumentCache), the request limits (RateLimit),   *)
(* the companies and jobs (Catalog), alone and with the applications       *)
(* (Tables), and lists in pages (Listing).  They share no state; each has  *)
(* an invariant of its own.                                                *)
(***************************************************************************)
EXTENDS Tables, Listing, DashboardCache, DocumentCache, RateLimit, ApplicationsProofs,
        FiniteSetTheorems, TLAPS

----------------------------------------------------------------------------
(* The dashboard cache.                                                    *)

\* What the variables range over.
DashboardTyped ==
    /\ commits \in 0..LastCommit
    /\ dashboard \in Entry
    /\ reader \in [Readers -> Reading]
    /\ writer \in [Writers -> Writing]
    /\ missed \subseteq Commits

\* A request that has deleted the entry ends in the same step, and has a
\* commit from its COMMIT until it ends.
WritersHonest ==
    \A w \in Writers :
       /\ ~writer[w].deleted
       /\ writer[w].at \in {"idle", "commit"} => writer[w].commit = 0
       /\ writer[w].at \in {"refresh", "invalidate"} => writer[w].commit \in Commits

\* The three excuses for figures that lack commit c.
Excused(figures, c) ==
    \/ \E w \in Writers : writer[w].commit = c /\ ~writer[w].deleted
    \/ c \in missed
    \/ c \in figures.passed

Explained(figures) == \A c \in (figures.seen + 1)..commits : Excused(figures, c)

\* Figures are explained from the moment they are aggregated, before they are
\* in the entry.
FiguresExplained ==
    /\ \A r \in Readers : reader[r].at = "store" => Explained(reader[r].figures)
    /\ dashboard.valid => Explained(dashboard.figures)

DashboardIInv == DashboardTyped /\ WritersHonest /\ FiguresExplained

\* The order of a writer's steps, spelled out.
LEMMA AfterSteps ==
    /\ After("idle") = "commit"
    /\ After("commit") = "refresh"
    /\ After("refresh") = "invalidate"
    /\ After("invalidate") = "idle"
<1> DEFINE place(s) == CHOOSE j \in 1..3 : Steps[j] = s
<1>1. Steps[1] = "commit" /\ Steps[2] = "refresh" /\ Steps[3] = "invalidate"
  BY DEF Steps
<1>2. \A j \in 1..3 : j = 1 \/ j = 2 \/ j = 3
  OBVIOUS
<1>3. place("commit") = 1
  <2>1. \A j \in 1..3 : Steps[j] = "commit" <=> j = 1
    BY <1>1, <1>2
  <2> QED
    BY <2>1
<1>4. place("refresh") = 2
  <2>1. \A j \in 1..3 : Steps[j] = "refresh" <=> j = 2
    BY <1>1, <1>2
  <2> QED
    BY <2>1
<1>5. place("invalidate") = 3
  <2>1. \A j \in 1..3 : Steps[j] = "invalidate" <=> j = 3
    BY <1>1, <1>2
  <2> QED
    BY <2>1
<1> QED
  BY <1>1, <1>3, <1>4, <1>5 DEF After

\* An entry that is not there, or that does not parse, shows no figures.
LEMMA NoFiguresShown ==
    /\ NoEntry \in Entry /\ ~NoEntry.valid
    /\ [NoEntry EXCEPT !.present = TRUE] \in Entry /\ ~[NoEntry EXCEPT !.present = TRUE].valid
<1>1. NoFigures \in Figures
  BY DEF NoFigures, Figures
<1>2. NoEntry \in Entry /\ ~NoEntry.valid
  BY <1>1 DEF NoEntry, Entry
<1> QED
  BY <1>2 DEF Entry

\* Nobody has committed anything, and the entry is not there.
LEMMA DashboardStarts == DashboardInit => DashboardIInv
  BY DashboardAssumption
  DEF DashboardInit, DashboardIInv, DashboardTyped, WritersHonest, FiguresExplained,
      Entry, NoEntry, Figures, NoFigures, Reading, NotReading, Writing, NotWriting,
      Commits, WriterSteps

\* A request that goes on keeps its record's shape; one that ends with a commit
\* and without having deleted the entry has missed it.
LEMMA MovesShape ==
    ASSUME DashboardTyped, NEW w \in Writers, NEW record \in Writing, Moves(w, record)
    PROVE  /\ writer' \in [Writers -> Writing]
           /\ missed' \subseteq Commits
           /\ missed \subseteq missed'
           /\ writer'[w] = IF record.at = "idle" THEN NotWriting ELSE record
           /\ \A v \in Writers \ {w} : writer'[v] = writer[v]
           /\ record.at = "idle" /\ ~record.deleted /\ record.commit \in Commits
              => record.commit \in missed'
<1>1. NotWriting \in Writing
  BY DEF NotWriting, Writing, WriterSteps
<1>2. record.commit \in Commits \cup {0}
  BY DEF Writing
<1>3. 0 \notin Commits
  BY DashboardAssumption DEF Commits
<1> QED
  BY <1>1, <1>2, <1>3 DEF DashboardTyped, Moves

\* What a reader does leaves the writers' side alone.
LEMMA ReaderStep ==
    ASSUME DashboardIInv, NEW r \in Readers, ReaderNext(r)
    PROVE  DashboardIInv'
<1> USE DEF DashboardIInv
<1>1. CASE ReadCached(r)
  <2>1. UNCHANGED <<commits, dashboard, writer, missed>>
    BY <1>1 DEF ReadCached
  <2>2. /\ reader' \in [Readers -> Reading]
        /\ \A q \in Readers : reader'[q].at = "store" => reader'[q] = reader[q]
    BY <1>1 DEF ReadCached, DashboardTyped, Reading
  <2> QED
    BY <2>1, <2>2
    DEF DashboardTyped, WritersHonest, FiguresExplained, Explained, Excused
<1>2. CASE DiscardEntry(r)
  <2>1. UNCHANGED <<commits, writer, missed>>
    BY <1>2 DEF DiscardEntry
  <2>2. /\ reader' \in [Readers -> Reading]
        /\ \A q \in Readers : reader'[q].at = "store" => reader'[q] = reader[q]
    BY <1>2 DEF DiscardEntry, DashboardTyped, Reading
  <2>3. dashboard' \in Entry /\ (dashboard'.valid => dashboard' = dashboard)
    BY <1>2, NoFiguresShown DEF DiscardEntry, DashboardTyped
  <2> QED
    BY <2>1, <2>2, <2>3
    DEF DashboardTyped, WritersHonest, FiguresExplained, Explained, Excused
<1>3. CASE Aggregate(r)
  <2> DEFINE fresh == [at |-> "store", figures |-> [seen |-> commits, passed |-> {}]]
  <2>1. UNCHANGED <<commits, dashboard, writer, missed>>
    BY <1>3 DEF Aggregate
  <2>2. fresh \in Reading
    BY DashboardAssumption DEF DashboardTyped, Reading, Figures, Commits
  <2>3. /\ reader' \in [Readers -> Reading]
        /\ reader'[r] = fresh
        /\ \A q \in Readers \ {r} : reader'[q] = reader[q]
    BY <1>3, <2>2 DEF Aggregate, DashboardTyped
  <2>4. Explained(fresh.figures)'
    BY <2>1 DEF Explained, DashboardTyped
  <2> QED
    BY <2>1, <2>3, <2>4
    DEF DashboardTyped, WritersHonest, FiguresExplained, Explained, Excused
<1>4. CASE StoreFigures(r)
  <2>1. UNCHANGED <<commits, writer, missed>>
    BY <1>4 DEF StoreFigures
  <2>2. reader[r].at = "store" /\ reader[r].figures \in Figures
    BY <1>4 DEF StoreFigures, DashboardTyped, Reading
  <2>3. /\ reader' \in [Readers -> Reading]
        /\ \A q \in Readers : reader'[q].at = "store" => reader'[q] = reader[q]
    BY <1>4 DEF StoreFigures, DashboardTyped, Reading, NotReading, NoFigures, Figures
  <2>4. Stored(reader[r].figures) \in Entry
    BY <2>2 DEF Stored, Entry
  <2>5. /\ dashboard' \in Entry
        /\ dashboard'.valid => dashboard' = dashboard \/ dashboard'.figures = reader[r].figures
    <3>1. dashboard' = dashboard \/ dashboard' = Stored(reader[r].figures)
      BY <1>4 DEF StoreFigures
    <3>2. Stored(reader[r].figures).figures = reader[r].figures
      BY DEF Stored
    <3> QED
      BY <2>4, <3>1, <3>2 DEF DashboardTyped
  <2> QED
    BY <2>1, <2>2, <2>3, <2>5
    DEF DashboardTyped, WritersHonest, FiguresExplained, Explained, Excused
<1> QED
  BY <1>1, <1>2, <1>3, <1>4 DEF ReaderNext

\* As long as nothing is committed and no figure changes, a writer's step keeps
\* what is explained if its own commit, should it leave it, is missed.
LEMMA MovesExplain ==
    ASSUME DashboardIInv, NEW w \in Writers, NEW record \in Writing, Moves(w, record),
           ~record.deleted, record.commit = writer[w].commit,
           record.at \in {"refresh", "invalidate"} => record.commit \in Commits,
           record.at = "commit" => record.commit = 0,
           UNCHANGED <<commits, dashboard, reader>>
    PROVE  DashboardIInv'
<1>1. /\ writer' \in [Writers -> Writing]
      /\ missed' \subseteq Commits
      /\ missed \subseteq missed'
      /\ writer'[w] = IF record.at = "idle" THEN NotWriting ELSE record
      /\ \A v \in Writers \ {w} : writer'[v] = writer[v]
      /\ record.at = "idle" /\ ~record.deleted /\ record.commit \in Commits
         => record.commit \in missed'
  BY MovesShape DEF DashboardIInv
<1>2. \A c \in Commits : \A figures :
         Excused(figures, c) => Excused(figures, c)'
  BY <1>1 DEF Excused
<1>3. \A c \in 1..commits : c \in Commits
  BY DashboardAssumption DEF DashboardIInv, DashboardTyped, Commits
<1>4. ASSUME NEW figures \in Figures, Explained(figures)
      PROVE  Explained(figures)'
  <2>1. \A c \in (figures.seen + 1)..commits : c \in 1..commits
    BY DashboardAssumption DEF DashboardIInv, DashboardTyped, Figures, Commits
  <2> QED
    BY <1>2, <1>3, <1>4, <2>1 DEF Explained
<1>5. WritersHonest'
  BY <1>1 DEF DashboardIInv, WritersHonest, NotWriting, Writing, WriterSteps
<1>6. FiguresExplained'
  BY <1>4 DEF DashboardIInv, DashboardTyped, FiguresExplained, Entry, Reading
<1> QED
  BY <1>1, <1>5, <1>6 DEF DashboardIInv, DashboardTyped

\* A new commit is excused by the request that made it.
LEMMA CommitStep ==
    ASSUME DashboardIInv, NEW w \in Writers, CommitWrite(w)
    PROVE  DashboardIInv'
<1>1. /\ writer[w] \in Writing /\ ~writer[w].deleted
      /\ writer[w].at = "commit" /\ writer[w].commit = 0
  BY DEF DashboardIInv, DashboardTyped, WritersHonest, CommitWrite
<1>2. CASE UNCHANGED commits /\ Moves(w, [writer[w] EXCEPT !.at = "idle"])
  <2>1. [writer[w] EXCEPT !.at = "idle"] \in Writing
    BY <1>1 DEF Writing
  <2>2. UNCHANGED <<commits, dashboard, reader>>
    BY <1>2 DEF CommitWrite
  <2> QED
    BY <1>1, <1>2, <2>1, <2>2, MovesExplain DEF Writing
<1>3. CASE /\ commits < LastCommit
           /\ commits' = commits + 1
           /\ Moves(w, [writer[w] EXCEPT !.commit = commits + 1, !.at = After("commit")])
  <2> DEFINE record == [writer[w] EXCEPT !.commit = commits + 1, !.at = "refresh"]
  <2>1. commits + 1 \in Commits
    BY <1>3, DashboardAssumption DEF DashboardIInv, DashboardTyped, Commits
  <2>2. record \in Writing
    BY <1>1, <2>1 DEF Writing, WriterSteps
  <2>3. Moves(w, record)
    BY <1>3, AfterSteps
  <2>4. record.at = "refresh" /\ record.commit = commits + 1 /\ ~record.deleted
    BY <1>1 DEF Writing
  <2> HIDE DEF record
  <2>5. /\ writer' \in [Writers -> Writing]
        /\ missed' \subseteq Commits
        /\ missed \subseteq missed'
        /\ writer'[w] = record
        /\ \A v \in Writers \ {w} : writer'[v] = writer[v]
    BY <2>2, <2>3, <2>4, MovesShape DEF DashboardIInv
  <2>6. UNCHANGED <<dashboard, reader>>
    BY DEF CommitWrite
  <2>7. \A c \in Commits : \A figures : Excused(figures, c) => Excused(figures, c)'
    BY <1>1, <2>5, DashboardAssumption DEF Excused, Commits
  <2>8. \A c : c = commits + 1 => \A figures : Excused(figures, c)'
    BY <2>4, <2>5 DEF Excused
  <2>9. ASSUME NEW figures \in Figures, Explained(figures)
        PROVE  Explained(figures)'
    <3>1. ASSUME NEW c \in (figures.seen + 1)..commits'
          PROVE  Excused(figures, c)'
      <4>1. c \in Commits /\ (c = commits + 1 \/ c \in (figures.seen + 1)..commits)
        BY <1>3, <2>1, DashboardAssumption DEF DashboardIInv, DashboardTyped, Figures, Commits
      <4> QED
        BY <2>7, <2>8, <2>9, <4>1 DEF Explained
    <3> QED
      BY <3>1 DEF Explained, Excused
  <2>10. WritersHonest'
    BY <2>1, <2>4, <2>5 DEF DashboardIInv, WritersHonest
  <2>11. FiguresExplained'
    BY <2>6, <2>9 DEF DashboardIInv, DashboardTyped, FiguresExplained, Entry, Reading
  <2>12. DashboardTyped'
    BY <1>3, <2>1, <2>5, <2>6 DEF DashboardIInv, DashboardTyped, Commits
  <2> QED
    BY <2>10, <2>11, <2>12 DEF DashboardIInv
<1> QED
  BY <1>2, <1>3 DEF CommitWrite

\* A deletion takes the entry away, and every reader that has figures in hand
\* has passed it.
LEMMA DeletionStep ==
    ASSUME DashboardIInv, NEW w \in Writers, InvalidateDashboard(w)
    PROVE  DashboardIInv'
<1>1. /\ writer[w] \in Writing /\ ~writer[w].deleted
      /\ writer[w].at = "invalidate" /\ writer[w].commit \in Commits
  BY DEF DashboardIInv, DashboardTyped, WritersHonest, InvalidateDashboard
<1>2. CASE /\ UNCHANGED <<dashboard, reader>>
           /\ Moves(w, [writer[w] EXCEPT !.at = After("invalidate")])
  <2>1. [writer[w] EXCEPT !.at = "idle"] \in Writing
    BY <1>1 DEF Writing
  <2>2. UNCHANGED <<commits, dashboard, reader>>
    BY <1>2 DEF InvalidateDashboard
  <2>3. Moves(w, [writer[w] EXCEPT !.at = "idle"])
    BY <1>2, AfterSteps
  <2> QED
    BY <1>1, <2>1, <2>2, <2>3, MovesExplain DEF Writing
<1>3. CASE /\ dashboard' = NoEntry
           /\ reader' = [r \in Readers |->
                            IF reader[r].at = "store"
                            THEN [reader[r] EXCEPT !.figures = Passed(@, w)]
                            ELSE reader[r]]
           /\ Moves(w, [writer[w] EXCEPT !.deleted = TRUE, !.at = After("invalidate")])
  <2> DEFINE record == [writer[w] EXCEPT !.deleted = TRUE, !.at = "idle"]
  <2>1. record \in Writing /\ record.at = "idle"
    BY <1>1 DEF Writing
  <2>2. Moves(w, record)
    BY <1>3, AfterSteps
  <2> HIDE DEF record
  <2>3. /\ writer' \in [Writers -> Writing]
        /\ missed' \subseteq Commits
        /\ missed \subseteq missed'
        /\ writer'[w] = NotWriting
        /\ \A v \in Writers \ {w} : writer'[v] = writer[v]
    BY <2>1, <2>2, MovesShape DEF DashboardIInv
  <2>4. UNCHANGED commits
    BY DEF InvalidateDashboard
  <2>5. ASSUME NEW figures \in Figures
        PROVE  /\ Passed(figures, w) \in Figures
               /\ Passed(figures, w).seen = figures.seen
               /\ \A c : Excused(figures, c) =>
                     \/ \E v \in Writers : writer'[v].commit = c /\ ~writer'[v].deleted
                     \/ c \in missed'
                     \/ c \in Passed(figures, w).passed
    <3>1. Passed(figures, w) \in Figures
      BY <1>1 DEF Passed, Figures
    <3>2. Passed(figures, w).seen = figures.seen
      BY DEF Passed, Figures
    <3>3. Passed(figures, w).passed = figures.passed \cup {writer[w].commit}
      BY DEF Passed, Figures
    <3>4. \A c : Excused(figures, c) =>
             \/ \E v \in Writers : writer'[v].commit = c /\ ~writer'[v].deleted
             \/ c \in missed'
             \/ c \in Passed(figures, w).passed
      BY <2>3, <3>3 DEF Excused
    <3> QED
      BY <3>1, <3>2, <3>4
  <2>6. ASSUME NEW r \in Readers
        PROVE  /\ reader'[r] \in Reading
               /\ reader'[r].at = "store" =>
                     \A c \in (reader'[r].figures.seen + 1)..commits :
                        \/ \E v \in Writers : writer'[v].commit = c /\ ~writer'[v].deleted
                        \/ c \in missed'
                        \/ c \in reader'[r].figures.passed
    <3>1. CASE reader[r].at = "store"
      <4> DEFINE figures == reader[r].figures
      <4>1. figures \in Figures /\ Explained(figures)
        BY <3>1 DEF DashboardIInv, DashboardTyped, Reading, FiguresExplained
      <4>2. reader'[r] = [reader[r] EXCEPT !.figures = Passed(figures, w)]
        BY <1>3, <3>1
      <4>3. reader'[r] \in Reading /\ reader'[r].figures = Passed(figures, w)
        BY <2>5, <4>1, <4>2 DEF DashboardIInv, DashboardTyped, Reading
      <4> QED
        BY <2>5, <4>1, <4>3 DEF Explained
    <3>2. CASE reader[r].at # "store"
      BY <1>3, <3>2 DEF DashboardIInv, DashboardTyped
    <3> QED
      BY <3>1, <3>2
  <2>7. reader' \in [Readers -> Reading]
    BY <1>3, <2>6
  <2>8. dashboard' \in Entry /\ ~dashboard'.valid
    BY <1>3, NoFiguresShown
  <2>9. WritersHonest'
    BY <2>3 DEF DashboardIInv, WritersHonest, NotWriting
  <2>10. FiguresExplained'
    BY <2>4, <2>6, <2>8 DEF FiguresExplained, Explained, Excused
  <2> QED
    BY <2>3, <2>4, <2>7, <2>8, <2>9, <2>10 DEF DashboardIInv, DashboardTyped
<1> QED
  BY <1>2, <1>3 DEF InvalidateDashboard

\* What a writer does keeps every figure explained.
LEMMA WriterStep ==
    ASSUME DashboardIInv, NEW w \in Writers, WriterNext(w)
    PROVE  DashboardIInv'
<1>0. writer[w] \in Writing /\ ~writer[w].deleted
  BY DEF DashboardIInv, DashboardTyped, WritersHonest
<1>1. CASE BeginWrite(w)
  <2> DEFINE record == [NotWriting EXCEPT !.at = "commit"]
  <2>1. record \in Writing /\ ~record.deleted /\ record.commit = 0 /\ record.at = "commit"
    BY DEF NotWriting, Writing, WriterSteps
  <2>2. Moves(w, record) /\ writer[w].at = "idle" /\ UNCHANGED <<commits, dashboard, reader>>
    BY <1>1, AfterSteps DEF BeginWrite
  <2>3. writer[w].commit = 0
    BY <2>2 DEF DashboardIInv, WritersHonest
  <2> HIDE DEF record
  <2> QED
    BY <2>1, <2>2, <2>3, MovesExplain
<1>2. CASE CommitWrite(w)
  BY <1>2, CommitStep
<1>3. CASE RefreshRow(w)
  <2>1. PICK step \in {"invalidate", "idle"} : Moves(w, [writer[w] EXCEPT !.at = step])
    BY <1>3, AfterSteps DEF RefreshRow
  <2> DEFINE record == [writer[w] EXCEPT !.at = step]
  <2>2. record \in Writing /\ ~record.deleted /\ record.commit = writer[w].commit
        /\ record.at = step
    BY <1>0 DEF Writing, WriterSteps
  <2>3. writer[w].at = "refresh" /\ UNCHANGED <<commits, dashboard, reader>>
    BY <1>3 DEF RefreshRow
  <2>4. writer[w].commit \in Commits
    BY <2>3 DEF DashboardIInv, WritersHonest
  <2>5. Moves(w, record)
    BY <2>1
  <2> HIDE DEF record
  <2> QED
    BY <2>2, <2>3, <2>4, <2>5, MovesExplain
<1>4. CASE InvalidateDashboard(w)
  BY <1>4, DeletionStep
<1>5. CASE StopWriter(w)
  <2> DEFINE record == [writer[w] EXCEPT !.at = "idle"]
  <2>1. record \in Writing /\ ~record.deleted /\ record.commit = writer[w].commit
        /\ record.at = "idle"
    BY <1>0 DEF Writing
  <2>2. Moves(w, record) /\ UNCHANGED <<commits, dashboard, reader>>
    BY <1>5 DEF StopWriter
  <2> HIDE DEF record
  <2> QED
    BY <2>1, <2>2, MovesExplain
<1> QED
  BY <1>1, <1>2, <1>3, <1>4, <1>5 DEF WriterNext

\* Every step keeps the invariant.
LEMMA DashboardStep == DashboardIInv /\ [DashboardNext]_dashboardVars => DashboardIInv'
<1> SUFFICES ASSUME DashboardIInv, [DashboardNext]_dashboardVars
             PROVE  DashboardIInv'
  OBVIOUS
<1>1. ASSUME NEW r \in Readers, ReaderNext(r)
      PROVE  DashboardIInv'
  BY <1>1, ReaderStep
<1>2. ASSUME NEW w \in Writers, WriterNext(w)
      PROVE  DashboardIInv'
  BY <1>2, WriterStep
<1>3. CASE ExpireEntry \/ SpoilEntry
  <2>1. dashboard' \in Entry /\ ~dashboard'.valid
    BY <1>3, NoFiguresShown DEF ExpireEntry, SpoilEntry
  <2>2. UNCHANGED <<commits, reader, writer, missed>>
    BY <1>3 DEF ExpireEntry, SpoilEntry
  <2> QED
    BY <2>1, <2>2
    DEF DashboardIInv, DashboardTyped, WritersHonest, FiguresExplained, Explained, Excused
<1>4. CASE UNCHANGED dashboardVars
  BY <1>4
  DEF dashboardVars, DashboardIInv, DashboardTyped, WritersHonest, FiguresExplained,
      Explained, Excused
<1> QED
  BY <1>1, <1>2, <1>3, <1>4 DEF DashboardNext

\* StaleExplained for any number of readers, writers and commits: an entry that
\* lacks a commit has one of its three excuses (dashboard_cache.py: read, write
\* and invalidate; the four services commit first and delete the entry then).
THEOREM StaleIsExplained == DashboardSpec => []StaleExplained
<1>1. DashboardIInv => StaleExplained
  BY DEF DashboardIInv, FiguresExplained, Explained, Excused, StaleExplained
<1> QED
  BY <1>1, DashboardStarts, DashboardStep, PTL DEF DashboardSpec

----------------------------------------------------------------------------
(* The cache of the provider's documents.                                  *)

\* What the variables range over.
DocumentsTyped ==
    /\ published \in Keys
    /\ entry \in Keys \cup {NoDocument, Invalid}
    /\ load \in [Loads -> Load]

\* What a load has in hand, said of its record: from the provider a document
\* that has the token's key, from the cache after a miss another document than
\* the one that missed.  The first read is before any miss.
LoadHonest(l) ==
    /\ l.at \in {"read", "discard"} => ~l.forced
    /\ l.at # "idle" => l.key <= published
    /\ l.at = "write" => l.doc \in Keys /\ ~l.cached
    /\ l.at \in {"write", "release", "check"} /\ l.doc # NoDocument /\ ~l.cached
       => l.key <= l.doc
    /\ l.at = "release" => ~l.cached
    /\ l.at = "check" => l.doc \in Keys /\ (l.cached /\ l.forced => l.doc # l.seen)
    /\ l.at = "rejected" => l.cached /\ l.forced /\ l.doc # l.seen

LoadsHonest == \A r \in Loads : LoadHonest(load[r])

DocumentsIInv == DocumentsTyped /\ LoadsHonest

\* Nobody is loading and nothing is cached.
LEMMA DocumentsStart == DocumentsInit => DocumentsIInv
<1>1. NotLoading \in Load /\ LoadHonest(NotLoading)
  BY DocumentsAssumption DEF NotLoading, Load, LoadHonest, Keys, NoDocument
<1> QED
  BY <1>1, DocumentsAssumption
  DEF DocumentsInit, DocumentsIInv, DocumentsTyped, LoadsHonest, LoadHonest, Keys

\* A step of one load, which publishes nothing, keeps the invariant if it leaves
\* that load with an honest record and the entry with a value.
LEMMA LoadFrame ==
    ASSUME DocumentsIInv, NEW r \in Loads, NEW l \in Load, LoadHonest(l),
           load' = [load EXCEPT ![r] = l], published' = published,
           entry' \in Keys \cup {NoDocument, Invalid}
    PROVE  DocumentsIInv'
<1>1. DocumentsTyped'
  BY DEF DocumentsIInv, DocumentsTyped
<1>2. ASSUME NEW q \in Loads
      PROVE  LoadHonest(load[q])'
  <2>1. load'[q] = l \/ load'[q] = load[q]
    BY DEF DocumentsIInv, DocumentsTyped
  <2> QED
    BY <2>1 DEF DocumentsIInv, LoadsHonest, LoadHonest
<1> QED
  BY <1>1, <1>2 DEF DocumentsIInv, LoadsHonest

\* A load that only goes on keeps its record otherwise.
LEMMA GoesOn ==
    ASSUME DocumentsIInv, NEW r \in Loads, NEW step, Goes(r, step),
           published' = published, entry' \in Keys \cup {NoDocument, Invalid},
           [load[r] EXCEPT !.at = step] \in Load,
           LoadHonest([load[r] EXCEPT !.at = step])
    PROVE  DocumentsIInv'
<1>1. load' = [load EXCEPT ![r] = [load[r] EXCEPT !.at = step]]
  BY DEF Goes, DocumentsIInv, DocumentsTyped
<1> QED
  BY <1>1, LoadFrame

\* The record of a load that takes a document, or the failure to get one.
TakenRecord(l, doc, cached, step) == [l EXCEPT !.at = step, !.doc = doc, !.cached = cached]

\* A load that takes a document on, honestly, keeps the invariant.
LEMMA TakesOn ==
    ASSUME DocumentsIInv, NEW r \in Loads, NEW doc \in Keys \cup {NoDocument},
           NEW cached \in BOOLEAN, NEW step \in {"check", "write", "release", "failed"},
           Takes(r, doc, cached, step), UNCHANGED <<published, entry>>,
           LoadHonest(TakenRecord(load[r], doc, cached, step))
    PROVE  DocumentsIInv'
<1>1. load[r] \in Load
  BY DEF DocumentsIInv, DocumentsTyped
<1>2. TakenRecord(load[r], doc, cached, step) \in Load
  BY <1>1 DEF TakenRecord, Load
<1>3. load' = [load EXCEPT ![r] = TakenRecord(load[r], doc, cached, step)]
  BY DEF Takes, TakenRecord, DocumentsIInv, DocumentsTyped
<1>4. entry' \in Keys \cup {NoDocument, Invalid}
  BY DEF DocumentsIInv, DocumentsTyped
<1> QED
  BY <1>2, <1>3, <1>4, LoadFrame

\* What a load does keeps the invariant.
LEMMA LoadStep ==
    ASSUME DocumentsIInv, NEW r \in Loads, LoadNext(r)
    PROVE  DocumentsIInv'
<1>0. /\ load[r] \in Load
      /\ LoadHonest(load[r])
      /\ entry \in Keys \cup {NoDocument, Invalid}
      /\ published \in Keys
  BY DEF DocumentsIInv, DocumentsTyped, LoadsHonest
<1>1. ASSUME NEW step \in {"discard", "lock", "fetch", "wait", "accepted", "discard_waited"},
             Goes(r, step), published' = published,
             entry' \in Keys \cup {NoDocument, Invalid},
             load[r].at # "idle",
             step = "discard" => ~load[r].forced
      PROVE  DocumentsIInv'
  <2>1. [load[r] EXCEPT !.at = step] \in Load
    BY <1>0 DEF Load
  <2>2. LoadHonest([load[r] EXCEPT !.at = step])
    BY <1>0, <1>1 DEF Load, LoadHonest
  <2> QED
    BY <1>1, <2>1, <2>2, GoesOn
<1>2. ASSUME NEW key \in Keys, Begin(r, key)
      PROVE  DocumentsIInv'
  <2> DEFINE l == [NotLoading EXCEPT !.at = "read", !.key = key]
  <2>1. l \in Load
    BY DEF NotLoading, Load, NoDocument
  <2>2. LoadHonest(l)
    BY <1>2 DEF Begin, NotLoading, LoadHonest
  <2>3. /\ load' = [load EXCEPT ![r] = l]
        /\ UNCHANGED <<published, entry>>
    BY <1>2 DEF Begin
  <2> HIDE DEF l
  <2> QED
    BY <1>0, <2>1, <2>2, <2>3, LoadFrame
<1>3. CASE ReadDocument(r)
  <2>1. At(r, "read") /\ UNCHANGED <<published, entry, refreshLock>>
    BY <1>3 DEF ReadDocument
  <2>2. load[r].at = "read" /\ ~load[r].forced
    BY <1>0, <2>1 DEF At, LoadHonest
  <2>3. CASE entry \in Keys /\ Takes(r, entry, TRUE, "check")
    <3>1. LoadHonest(TakenRecord(load[r], entry, TRUE, "check"))
      BY <1>0, <2>2, <2>3 DEF TakenRecord, Load, LoadHonest
    <3> QED
      BY <2>1, <2>3, <3>1, TakesOn
  <2>4. CASE Goes(r, "discard") \/ Goes(r, "lock")
    BY <1>0, <1>1, <2>1, <2>2, <2>4
  <2> QED
    BY <1>3, <2>3, <2>4 DEF ReadDocument
<1>4. CASE Discard(r)
  <2>1. entry' \in Keys \cup {NoDocument, Invalid} /\ published' = published
    BY <1>0, <1>4 DEF Discard
  <2>2. load[r].at # "idle" /\ (Goes(r, "lock") \/ Goes(r, "fetch"))
    BY <1>4 DEF Discard, At
  <2> QED
    BY <1>1, <2>1, <2>2
<1>5. CASE Acquire(r)
  <2>1. load[r].at = "lock" /\ UNCHANGED <<published, entry>>
    BY <1>5 DEF Acquire, At
  <2>2. CASE Goes(r, "wait")
    BY <1>0, <1>1, <2>1, <2>2
  <2>3. CASE load' = [load EXCEPT ![r].at = "fetch", ![r].holds = TRUE]
    <3> DEFINE l == [load[r] EXCEPT !.at = "fetch", !.holds = TRUE]
    <3>1. l \in Load
      BY <1>0 DEF Load
    <3>2. LoadHonest(l)
      BY <1>0, <2>1 DEF Load, LoadHonest
    <3>3. load' = [load EXCEPT ![r] = l]
      BY <2>3 DEF DocumentsIInv, DocumentsTyped
    <3> HIDE DEF l
    <3> QED
      BY <1>0, <2>1, <3>1, <3>2, <3>3, LoadFrame
  <2> QED
    BY <1>5, <2>2, <2>3 DEF Acquire
<1>6. CASE WaitForValue(r)
  <2>1. load[r].at = "wait" /\ UNCHANGED <<published, entry>>
    BY <1>6 DEF WaitForValue, At
  <2>2. CASE entry \in Awaited(r) /\ Takes(r, entry, TRUE, "check")
    <3>1. entry \in Keys /\ (load[r].forced => entry # load[r].seen)
      BY <2>2 DEF Awaited
    <3>2. LoadHonest(TakenRecord(load[r], entry, TRUE, "check"))
      BY <1>0, <2>1, <3>1 DEF TakenRecord, Load, LoadHonest
    <3> QED
      BY <2>1, <2>2, <3>1, <3>2, TakesOn
  <2>3. CASE Goes(r, "discard_waited") \/ Goes(r, "fetch")
    BY <1>0, <1>1, <2>1, <2>3
  <2> QED
    BY <1>6, <2>2, <2>3 DEF WaitForValue
<1>7. CASE Fetch(r)
  <2>1. load[r].at = "fetch" /\ UNCHANGED <<published, entry>>
    BY <1>7 DEF Fetch, At
  <2>2. CASE Takes(r, published, FALSE, "write")
    <3>1. LoadHonest(TakenRecord(load[r], published, FALSE, "write"))
      BY <1>0, <2>1 DEF TakenRecord, Load, LoadHonest
    <3> QED
      BY <1>0, <2>1, <2>2, <3>1, TakesOn
  <2>3. CASE Takes(r, NoDocument, FALSE, FailsTo(r))
    <3>1. FailsTo(r) \in {"release", "failed"}
      BY DEF FailsTo
    <3>2. LoadHonest(TakenRecord(load[r], NoDocument, FALSE, FailsTo(r)))
      BY <1>0, <2>1, <3>1 DEF TakenRecord, Load, LoadHonest
    <3> QED
      BY <2>1, <2>3, <3>1, <3>2, TakesOn
  <2> QED
    BY <1>7, <2>2, <2>3 DEF Fetch
<1>8. CASE StoreDocument(r)
  <2> DEFINE step == IF load[r].holds THEN "release" ELSE "check"
  <2>1. load[r].at = "write" /\ published' = published /\ Goes(r, step)
    BY <1>8 DEF StoreDocument, At
  <2>2. step \in {"release", "check"}
    OBVIOUS
  <2>3. load[r].doc \in Keys /\ ~load[r].cached /\ load[r].key <= load[r].doc
    BY <1>0, <2>1, DocumentsAssumption DEF LoadHonest, Keys, NoDocument
  <2>4. entry' \in Keys \cup {NoDocument, Invalid}
    BY <1>0, <1>8, <2>3 DEF StoreDocument
  <2> HIDE DEF step
  <2>5. [load[r] EXCEPT !.at = step] \in Load
    BY <1>0, <2>2 DEF Load
  <2>6. LoadHonest([load[r] EXCEPT !.at = step])
    BY <1>0, <2>1, <2>2, <2>3 DEF Load, LoadHonest
  <2> QED
    BY <2>1, <2>4, <2>5, <2>6, GoesOn
<1>9. CASE Release(r)
  <2> DEFINE step == IF load[r].doc = NoDocument THEN "failed" ELSE "check"
             l == [load[r] EXCEPT !.holds = FALSE, !.at = step]
  <2>1. load[r].at = "release" /\ UNCHANGED <<published, entry>>
    BY <1>9 DEF Release, At
  <2>2. load' = [load EXCEPT ![r] = l]
    BY <1>9 DEF Release, DocumentsIInv, DocumentsTyped
  <2>3. l \in Load
    BY <1>0 DEF Load
  <2>4. LoadHonest(l)
    <3>1. load[r].doc \in Keys \cup {NoDocument} /\ ~load[r].cached
      BY <1>0, <2>1 DEF Load, LoadHonest
    <3>2. l.at = step /\ l.doc = load[r].doc /\ l.cached = load[r].cached
          /\ l.key = load[r].key /\ l.forced = load[r].forced /\ l.seen = load[r].seen
      BY <1>0 DEF Load
    <3>3. load[r].key <= published
      BY <1>0, <2>1 DEF LoadHonest
    <3>4. load[r].doc # NoDocument => load[r].key <= load[r].doc
      BY <1>0, <2>1, <3>1 DEF LoadHonest
    <3> HIDE DEF l
    <3> QED
      BY <3>1, <3>2, <3>3, <3>4 DEF LoadHonest
  <2> HIDE DEF l
  <2> QED
    BY <1>0, <2>1, <2>2, <2>3, <2>4, LoadFrame
<1>10. CASE Check(r)
  <2>1. load[r].at = "check" /\ UNCHANGED <<published, entry>>
    BY <1>10 DEF Check, At
  <2>2. load[r].doc \in Keys
    BY <1>0, <2>1 DEF LoadHonest
  <2>3. CASE Goes(r, "accepted")
    BY <1>0, <1>1, <2>1, <2>3
  <2>4. CASE load' = [load EXCEPT ![r].at = "lock", ![r].forced = TRUE, ![r].seen = load[r].doc,
                                  ![r].doc = NoDocument, ![r].cached = FALSE]
    <3> DEFINE l == [load[r] EXCEPT !.at = "lock", !.forced = TRUE, !.seen = load[r].doc,
                                    !.doc = NoDocument, !.cached = FALSE]
    <3>1. l \in Load
      BY <1>0, <2>2 DEF Load
    <3>2. LoadHonest(l)
      BY <1>0, <2>1 DEF Load, LoadHonest
    <3>3. load' = [load EXCEPT ![r] = l]
      BY <2>4 DEF DocumentsIInv, DocumentsTyped
    <3> HIDE DEF l
    <3> QED
      BY <1>0, <2>1, <3>1, <3>2, <3>3, LoadFrame
  <2>5. CASE ~HasKey(r) /\ (~load[r].cached \/ load[r].forced) /\ Goes(r, "rejected")
    <3>1. load[r].cached /\ load[r].forced /\ load[r].doc # load[r].seen
      BY <1>0, <2>1, <2>2, <2>5, DocumentsAssumption DEF HasKey, LoadHonest, Keys, NoDocument
    <3>2. [load[r] EXCEPT !.at = "rejected"] \in Load
      BY <1>0 DEF Load
    <3>3. LoadHonest([load[r] EXCEPT !.at = "rejected"])
      BY <1>0, <2>1, <3>1 DEF Load, LoadHonest
    <3> QED
      BY <1>0, <2>1, <2>5, <3>2, <3>3, GoesOn
  <2> QED
    BY <1>10, <2>3, <2>4, <2>5 DEF Check
<1> QED
  BY <1>2, <1>3, <1>4, <1>5, <1>6, <1>7, <1>8, <1>9, <1>10 DEF LoadNext

\* Every step keeps the invariant; a rotation only adds keys.
LEMMA DocumentsStep == DocumentsIInv /\ [DocumentsNext]_documentVars => DocumentsIInv'
<1> SUFFICES ASSUME DocumentsIInv, [DocumentsNext]_documentVars
             PROVE  DocumentsIInv'
  OBVIOUS
<1>1. ASSUME NEW r \in Loads, LoadNext(r)
      PROVE  DocumentsIInv'
  BY <1>1, LoadStep
<1>2. CASE Invalidate \/ LockExpires \/ EntryExpires \/ Spoil \/ UNCHANGED documentVars
  BY <1>2
  DEF Invalidate, LockExpires, EntryExpires, Spoil, documentVars, DocumentsIInv,
      DocumentsTyped, LoadsHonest, LoadHonest
<1>3. CASE Rotate
  <2>1. published' \in Keys /\ published <= published' /\ UNCHANGED <<entry, load>>
    BY <1>3, DocumentsAssumption DEF Rotate, DocumentsIInv, DocumentsTyped, Keys
  <2>2. DocumentsTyped'
    BY <2>1 DEF DocumentsIInv, DocumentsTyped
  <2>3. ASSUME NEW r \in Loads
        PROVE  LoadHonest(load[r])'
    <3>1. load[r].key \in Keys /\ published \in Keys
      BY DEF DocumentsIInv, DocumentsTyped, Load
    <3>2. load[r].key <= published => load[r].key <= published'
      BY <2>1, <3>1, DocumentsAssumption DEF Keys
    <3> QED
      BY <2>1, <3>2 DEF DocumentsIInv, LoadsHonest, LoadHonest
  <2> QED
    BY <2>2, <2>3 DEF DocumentsIInv, LoadsHonest
<1> QED
  BY <1>1, <1>2, <1>3 DEF DocumentsNext

\* RejectedRight for any number of loads and keys: a token whose key is
\* published is refused only on the word of a cached document, and only after a
\* second one that is not the one that lacked the key (oidc_provider.py,
\* validate_id_token; oidc_cache.py, wait_for_value).
THEOREM RejectionIsRight == DocumentsSpec => []RejectedRight
<1>1. DocumentsIInv => RejectedRight
  BY DEF DocumentsIInv, LoadsHonest, LoadHonest, RejectedRight, At
<1> QED
  BY <1>1, DocumentsStart, DocumentsStep, PTL DEF DocumentsSpec

\* The lock key leaves load r only in a step of r itself or by expiry.
LEMMA LockStep ==
    ASSUME DocumentsIInv, [DocumentsNext]_documentVars,
           NEW r \in Loads, refreshLock = r, refreshLock' # r
    PROVE  LockExpires \/ load'[r] # load[r]
<1>1. r # NoLoad
  BY DocumentsAssumption
<1>2. ASSUME NEW q \in Loads, LoadNext(q)
      PROVE  load'[r] # load[r]
  <2>1. PICK key \in Keys :
           \/ Begin(q, key) \/ ReadDocument(q) \/ Discard(q) \/ Acquire(q) \/ WaitForValue(q)
           \/ Fetch(q) \/ StoreDocument(q) \/ Release(q) \/ Check(q)
    <3>1. 0 \in Keys
      BY DocumentsAssumption DEF Keys
    <3> QED
      BY <1>2, <3>1 DEF LoadNext
  <2>2. Release(q)
    BY <1>1, <2>1
    DEF Begin, ReadDocument, Discard, Acquire, WaitForValue, Fetch, StoreDocument, Check
  <2>3. q = r
    BY <1>1, <2>2 DEF Release, Released
  <2>4. load[r] \in Load /\ load[r].at = "release"
    BY <2>2, <2>3 DEF Release, At, DocumentsIInv, DocumentsTyped
  <2>5. load'[r].at # "release"
    BY <2>2, <2>3 DEF Release, DocumentsIInv, DocumentsTyped, Load
  <2> QED
    BY <2>4, <2>5
<1>3. CASE Invalidate \/ Rotate \/ LockExpires \/ EntryExpires \/ Spoil \/ UNCHANGED documentVars
  BY <1>3 DEF Invalidate, Rotate, EntryExpires, Spoil, documentVars
<1> QED
  BY <1>2, <1>3 DEF DocumentsNext

\* ReleasesOwn for any number of loads: a load that outlived its lock does not
\* delete the lock of the load that has it now (_RELEASE_LOCK_SCRIPT).
THEOREM OwnLockReleased == DocumentsSpec => ReleasesOwn
<1>1. DocumentsIInv /\ [DocumentsNext]_documentVars
      => [\A r \in Loads :
             refreshLock = r /\ refreshLock' # r =>
                LockExpires \/ load'[r] # load[r]]_documentVars
  BY LockStep
<1> QED
  BY <1>1, DocumentsStart, DocumentsStep, PTL DEF DocumentsSpec, ReleasesOwn

----------------------------------------------------------------------------
(* Arithmetic that the limits need.                                        *)

\* Multiplication is monotone.
LEMMA Times ==
    ASSUME NEW w \in Nat, NEW a \in Nat, NEW b \in Nat, a <= b
    PROVE  w * a \in Nat /\ w * b \in Nat /\ w * a <= w * b
<1>1. PICK d \in Nat : b = a + d
  BY b - a \in Nat, b = a + (b - a)
<1>2. w * b = w * a + w * d
  BY <1>1
<1>3. w * a \in Nat /\ w * d \in Nat /\ w * b \in Nat
  OBVIOUS
<1> QED
  BY <1>2, <1>3

\* One more time.
LEMMA TimesNext ==
    ASSUME NEW w \in Nat, NEW n \in Nat
    PROVE  w * n \in Nat /\ w * (n + 1) = w * n + w
  OBVIOUS

\* A window begins when it begins and ends before the next one.
LEMMA Division ==
    ASSUME NEW s \in Nat, NEW w \in Nat \ {0}
    PROVE  s \div w \in Nat /\ w * (s \div w) <= s /\ s < w * (s \div w) + w
  OBVIOUS

\* Later is not in an earlier window.
LEMMA Monotone ==
    ASSUME NEW s \in Nat, NEW t \in Nat, NEW w \in Nat \ {0}, s <= t
    PROVE  s \div w <= t \div w
<1> DEFINE q == s \div w
           r == t \div w
<1>1. q \in Nat /\ w * q <= s /\ s < w * q + w
  BY Division
<1>2. r \in Nat /\ w * r <= t /\ t < w * r + w
  BY Division
<1> HIDE DEF q, r
<1>3. ASSUME r < q
      PROVE  FALSE
  <2>1. w * (r + 1) <= w * q /\ w * (r + 1) \in Nat /\ w * q \in Nat
    BY <1>1, <1>2, <1>3, r + 1 \in Nat, r + 1 <= q, Times
  <2>2. w * (r + 1) = w * r + w /\ w * r \in Nat
    BY <1>2, TimesNext
  <2> QED
    BY <2>1, <2>2, <1>1, <1>2
<1> QED
  BY <1>1, <1>2, <1>3 DEF q, r

----------------------------------------------------------------------------
(* The limits.                                                             *)

\* What the variables range over.
RateTyped ==
    /\ settings \in Settings
    /\ second \in 0..LastSecond
    /\ count \in [Buckets -> Nat]
    /\ expiry \in [Buckets -> Nat]
    /\ memory \in [Processes -> [window : Buckets, count : Nat]]
    /\ asker \in [Askers -> [at : {"idle", "sent", "counted"}, bucket : Buckets, count : Nat]]
    /\ admitted \in [Buckets -> Nat]
    /\ losses \in [Buckets -> Nat]

\* Nothing is counted, granted or let through in a window before it begins.
FutureUntouched ==
    /\ \A b \in Buckets : b > Bucket => count[b] = 0 /\ admitted[b] = 0
    /\ \A q \in Askers : asker[q].at = "counted" => asker[q].bucket <= Bucket

\* A key outlives its window.
KeysLive == \A b \in Buckets : count[b] > 0 => expiry[b] >= Window * (b + 1)

\* Nobody asks Redis when the limits are kept in memory.
MemoryAlone == settings.backend = "memory" => \A q \in Askers : asker[q].at = "idle"

\* The requests of window b that Redis has allowed and that do not know it yet.
Granted(b) ==
    {q \in Askers : asker[q].at = "counted" /\ asker[q].bucket = b /\ Within(asker[q].count)}

\* How much of the quota the key of window b says is used.
Used(b) == IF count[b] < Limit THEN count[b] ELSE Limit

\* Whoever was let through or may yet be was counted, since the last loss of the
\* counts or, at Limit for each loss, before it.  When the window is over its
\* key may go, and the quota is what it was used for at most.
RedisBudget ==
    settings.backend = "redis" /\ settings.mode = "closed" =>
       \A b \in Buckets :
          /\ admitted[b] + Cardinality(Granted(b)) <= Limit * losses[b] + Limit
          /\ b >= Bucket =>
                admitted[b] + Cardinality(Granted(b)) <= Limit * losses[b] + Used(b)

\* The places in the quotas of window b that the processes have given away.
Places == Processes \X (1..Limit)
Given(b) == {x \in Places : memory[x[1]].window = b /\ x[2] <= memory[x[1]].count}

\* The same in memory, where each process has a quota to give away.
MemoryBudget ==
    settings.backend = "memory" =>
       \A b \in Buckets :
          /\ admitted[b] <= Limit * losses[b] + Limit * Cardinality(Processes)
          /\ b >= Bucket => admitted[b] <= Limit * losses[b] + Cardinality(Given(b))

RateIInv ==
    RateTyped /\ FutureUntouched /\ KeysLive /\ MemoryAlone /\ RedisBudget /\ MemoryBudget

\* The window of the clock is one of the windows that are modelled.
LEMMA BucketFacts ==
    ASSUME RateTyped
    PROVE  /\ Bucket \in Buckets /\ 0 \in Buckets /\ Buckets \subseteq Nat
           /\ Window * Bucket <= second /\ second < Window * (Bucket + 1)
<1>1. second \in Nat /\ Window \in Nat \ {0} /\ LastSecond + 1 \in Nat /\ second <= LastSecond + 1
  BY RateAssumption DEF RateTyped
<1>2. /\ second \div Window \in Nat
      /\ Window * (second \div Window) <= second
      /\ second < Window * (second \div Window) + Window
  BY <1>1, Division
<1>3. (LastSecond + 1) \div Window \in Nat
  BY <1>1, Division
<1>4. second \div Window <= (LastSecond + 1) \div Window
  BY <1>1, Monotone
<1>5. Window * (second \div Window + 1) = Window * (second \div Window) + Window
  BY <1>1, <1>2, TimesNext
<1> QED
  BY <1>2, <1>3, <1>4, <1>5 DEF Bucket, Buckets

\* The clock does not go backwards, and neither do the windows.
LEMMA BucketGrows ==
    ASSUME RateTyped, RateTyped', second <= second'
    PROVE  Bucket <= Bucket'
<1>1. second \in Nat /\ second' \in Nat /\ Window \in Nat \ {0}
  BY RateAssumption DEF RateTyped
<1>2. second \div Window <= second' \div Window
  BY <1>1, Monotone
<1> QED
  BY <1>2 DEF Bucket

\* There are finitely many requests and places in quotas.
LEMMA SomeAskers ==
    ASSUME NEW S \in SUBSET Askers
    PROVE  IsFiniteSet(S) /\ Cardinality(S) \in Nat
  BY RateAssumption, FS_Subset, FS_CardinalityType

\* Places can be counted, and there are at most as many as all processes have.
LEMMA SomePlaces ==
    ASSUME NEW S \in SUBSET Places
    PROVE  /\ IsFiniteSet(S) /\ Cardinality(S) \in Nat
           /\ Cardinality(Processes) \in Nat
           /\ Cardinality(S) <= Limit * Cardinality(Processes)
<1>1. IsFiniteSet(1..Limit) /\ Cardinality(1..Limit) = Limit
  BY RateAssumption, FS_Interval
<1>2. IsFiniteSet(Places) /\ Cardinality(Places) = Cardinality(Processes) * Cardinality(1..Limit)
  BY <1>1, RateAssumption, FS_Product DEF Places
<1>3. IsFiniteSet(S) /\ Cardinality(S) <= Cardinality(Places)
  BY <1>2, FS_Subset
<1>4. Cardinality(S) \in Nat /\ Cardinality(Processes) \in Nat
  BY <1>3, RateAssumption, FS_CardinalityType
<1>5. Cardinality(Processes) * Limit = Limit * Cardinality(Processes)
  BY <1>4, RateAssumption
<1> QED
  BY <1>1, <1>2, <1>3, <1>4, <1>5

\* The sets that are counted are finite.
LEMMA Countable ==
    ASSUME NEW b
    PROVE  /\ IsFiniteSet(Granted(b)) /\ Cardinality(Granted(b)) \in Nat
           /\ IsFiniteSet(Given(b)) /\ Cardinality(Given(b)) \in Nat
           /\ Cardinality(Processes) \in Nat
           /\ Cardinality(Given(b)) <= Limit * Cardinality(Processes)
<1>1. Granted(b) \in SUBSET Askers
  BY DEF Granted
<1>2. Given(b) \in SUBSET Places
  BY DEF Given
<1> QED
  BY <1>1, <1>2, SomeAskers, SomePlaces

\* Nothing has been asked.
LEMMA RateStarts == RateInit => RateIInv
<1> SUFFICES ASSUME RateInit
             PROVE  RateIInv
  OBVIOUS
<1>1. 0 \in Buckets /\ Buckets \subseteq Nat
  <2>1. (LastSecond + 1) \div Window \in Nat
    BY RateAssumption, Division
  <2> QED
    BY <2>1 DEF Buckets
<1>2. RateTyped
  BY <1>1, RateAssumption DEF RateInit, RateTyped, NoCounts, NotAsking
<1>3. FutureUntouched /\ KeysLive /\ MemoryAlone
  BY <1>1, RateAssumption DEF RateInit, FutureUntouched, KeysLive, MemoryAlone, NotAsking
<1>4. \A b \in Buckets : admitted[b] = 0 /\ losses[b] = 0 /\ Used(b) = 0
  BY RateAssumption DEF RateInit, Used
<1>5. \A b \in Buckets : Granted(b) = {} /\ Cardinality(Granted(b)) = 0
  <2>1. \A b \in Buckets : Granted(b) = {}
    BY DEF RateInit, Granted, NotAsking
  <2> QED
    BY <2>1, FS_EmptySet
<1>6. Limit * 0 = 0 /\ Limit \in Nat
  BY RateAssumption
<1>7. Limit * Cardinality(Processes) \in Nat
  BY Countable, <1>6
<1>8. RedisBudget
  BY <1>4, <1>5, <1>6 DEF RedisBudget
<1>9. MemoryBudget
  BY <1>4, <1>6, <1>7, Countable DEF MemoryBudget
<1> QED
  BY <1>2, <1>3, <1>8, <1>9 DEF RateIInv

\* The budgets only speak of the settings, the windows, what was let through,
\* what was lost, and what is granted or given: where none of it moves they stay.
LEMMA BudgetsFrame ==
    ASSUME RateIInv, UNCHANGED <<settings, second, losses>>,
           \A b \in Buckets : admitted'[b] + Cardinality(Granted(b))' <=
                              admitted[b] + Cardinality(Granted(b)),
           \A b \in Buckets : Used(b) <= Used(b)',
           RateTyped',
           UNCHANGED memory,
           settings.backend = "memory" => UNCHANGED admitted
    PROVE  RedisBudget' /\ MemoryBudget'
<1>1. Bucket' = Bucket
  BY DEF Bucket
<1>2. ASSUME NEW b \in Buckets
      PROVE  /\ Limit * losses[b] \in Nat /\ Limit \in Nat
             /\ Used(b) \in Nat /\ Used(b)' \in Nat
             /\ admitted[b] \in Nat /\ admitted'[b] \in Nat
             /\ Cardinality(Granted(b)) \in Nat /\ Cardinality(Granted(b))' \in Nat
  <2>1. losses[b] \in Nat /\ Limit \in Nat /\ count[b] \in Nat /\ count'[b] \in Nat
    BY RateAssumption DEF RateIInv, RateTyped
  <2>2. Cardinality(Granted(b))' \in Nat
    <3>1. Granted(b)' \in SUBSET Askers
      BY DEF Granted
    <3> QED
      BY <3>1, SomeAskers
  <2>3. admitted[b] \in Nat /\ admitted'[b] \in Nat
    BY DEF RateIInv, RateTyped
  <2> QED
    BY <2>1, <2>2, <2>3, Countable DEF Used
<1>3. RedisBudget'
  BY <1>1, <1>2 DEF RateIInv, RedisBudget
<1>4. MemoryBudget'
  BY <1>1 DEF RateIInv, MemoryBudget, Given
<1> QED
  BY <1>3, <1>4

\* A request is sent.
LEMMA AskStep ==
    ASSUME RateIInv, NEW q \in Askers, Ask(q)
    PROVE  RateIInv'
<1>1. /\ UNCHANGED <<settings, second, count, expiry, memory, admitted, losses>>
      /\ settings.backend = "redis"
      /\ asker[q].at = "idle"
      /\ asker' = [asker EXCEPT ![q] = [at |-> "sent", bucket |-> 0, count |-> 0]]
  <2>1. [NotAsking EXCEPT !.at = "sent"] = [at |-> "sent", bucket |-> 0, count |-> 0]
    BY DEF NotAsking
  <2> QED
    BY <2>1 DEF Ask, Proceeds
<1>2. 0 \in Buckets /\ Bucket' = Bucket
  <2>1. Bucket' = Bucket
    BY <1>1 DEF Bucket
  <2> QED
    BY <2>1, BucketFacts DEF RateIInv
<1>3. RateTyped'
  BY <1>1, <1>2 DEF RateIInv, RateTyped
<1>4. FutureUntouched' /\ KeysLive' /\ MemoryAlone'
  BY <1>1, <1>2 DEF RateIInv, RateTyped, FutureUntouched, KeysLive, MemoryAlone
<1>5. \A b \in Buckets : Granted(b)' = Granted(b)
  BY <1>1 DEF RateIInv, RateTyped, Granted
<1>6. \A b \in Buckets : Cardinality(Granted(b))' = Cardinality(Granted(b))
  BY <1>5
<1>7. \A b \in Buckets : /\ admitted'[b] + Cardinality(Granted(b))' <=
                            admitted[b] + Cardinality(Granted(b))
                         /\ Used(b) <= Used(b)'
  BY <1>1, <1>6, Countable, RateAssumption DEF RateIInv, RateTyped, Used
<1> QED
  BY <1>1, <1>3, <1>4, <1>7, BudgetsFrame DEF RateIInv

\* The script counts one request in the present window, whose key stays alive
\* until the window is over.
LEMMA Counting ==
    ASSUME RateIInv, Script, UNCHANGED second
    PROVE  /\ count' \in [Buckets -> Nat]
           /\ expiry' \in [Buckets -> Nat]
           /\ KeysLive'
           /\ \A b \in Buckets \ {Bucket} : count'[b] = count[b]
           /\ count'[Bucket] = count[Bucket] + 1
<1>1. /\ Bucket \in Buckets /\ Buckets \subseteq Nat
      /\ Window * Bucket <= second /\ second < Window * (Bucket + 1)
      /\ Window \in Nat \ {0} /\ second \in Nat
  BY BucketFacts, RateAssumption DEF RateIInv, RateTyped
<1>2. count' = [count EXCEPT ![Bucket] = @ + 1]
  BY DEF Script
<1>3. /\ count' \in [Buckets -> Nat]
      /\ \A b \in Buckets \ {Bucket} : count'[b] = count[b]
      /\ count'[Bucket] = count[Bucket] + 1
  BY <1>1, <1>2 DEF RateIInv, RateTyped
<1>4. MaximumTtl \in Nat /\ MaximumTtl >= Window + Window
  BY <1>1 DEF MaximumTtl
<1>5. Window * (Bucket + 1) = Window * Bucket + Window /\ Window * Bucket \in Nat
  BY <1>1, TimesNext
<1>6. second + MaximumTtl \in Nat /\ second + MaximumTtl >= Window * (Bucket + 1)
  BY <1>1, <1>4, <1>5
<1>7. expiry' = expiry \/ expiry' = [expiry EXCEPT ![Bucket] = second + MaximumTtl]
  BY DEF Script
<1>8. expiry' \in [Buckets -> Nat]
  BY <1>1, <1>6, <1>7 DEF RateIInv, RateTyped
<1>9. ASSUME NEW b \in Buckets, count'[b] > 0
      PROVE  expiry'[b] >= Window * (b + 1)
  <2>1. CASE b # Bucket
    <3>1. expiry'[b] = expiry[b] /\ count'[b] = count[b]
      BY <1>3, <1>7, <2>1 DEF RateIInv, RateTyped
    <3> QED
      BY <1>9, <3>1 DEF RateIInv, KeysLive
  <2>2. CASE b = Bucket /\ count[Bucket] = 0
    <3>1. expiry' = [expiry EXCEPT ![Bucket] = second + MaximumTtl]
      BY <2>2 DEF Script
    <3> QED
      BY <1>1, <1>6, <2>2, <3>1 DEF RateIInv, RateTyped
  <2>3. CASE b = Bucket /\ count[Bucket] # 0
    <3>1. expiry' = expiry /\ count[b] > 0
      BY <2>3 DEF Script, RateIInv, RateTyped
    <3> QED
      BY <3>1 DEF RateIInv, KeysLive
  <2> QED
    BY <2>1, <2>2, <2>3
<1> QED
  BY <1>3, <1>8, <1>9 DEF KeysLive

\* A script runs whose caller waits: it is granted what it takes.
LEMMA RunScriptStep ==
    ASSUME RateIInv, NEW q \in Askers, RunScript(q)
    PROVE  RateIInv'
<1>1. /\ UNCHANGED <<settings, second, memory, admitted, losses>>
      /\ asker[q].at = "sent"
      /\ Script
      /\ asker' = [asker EXCEPT ![q] = [at |-> "counted", bucket |-> Bucket,
                                        count |-> count'[Bucket]]]
  BY DEF RunScript, Proceeds
<1>2. Bucket' = Bucket /\ Bucket \in Buckets /\ Buckets \subseteq Nat
  BY <1>1, BucketFacts DEF RateIInv, Bucket
<1>3. /\ count' \in [Buckets -> Nat]
      /\ expiry' \in [Buckets -> Nat]
      /\ KeysLive'
      /\ \A b \in Buckets \ {Bucket} : count'[b] = count[b]
      /\ count'[Bucket] = count[Bucket] + 1
  BY <1>1, Counting
<1>4. count'[Bucket] \in Nat /\ count[Bucket] \in Nat
  BY <1>2, <1>3 DEF RateIInv, RateTyped
<1>5. /\ asker' \in [Askers -> [at : {"idle", "sent", "counted"}, bucket : Buckets, count : Nat]]
      /\ asker'[q] = [at |-> "counted", bucket |-> Bucket, count |-> count[Bucket] + 1]
      /\ \A o \in Askers \ {q} : asker'[o] = asker[o]
  BY <1>1, <1>2, <1>3, <1>4 DEF RateIInv, RateTyped
<1>6. RateTyped'
  BY <1>1, <1>3, <1>5 DEF RateIInv, RateTyped
<1>7. FutureUntouched' /\ MemoryAlone'
  BY <1>1, <1>2, <1>3, <1>5 DEF RateIInv, RateTyped, FutureUntouched, MemoryAlone
<1>8. ASSUME NEW b \in Buckets
      PROVE  /\ b # Bucket => Granted(b)' = Granted(b)
             /\ ~Within(count[Bucket] + 1) => Granted(b)' = Granted(b)
             /\ b = Bucket /\ Within(count[Bucket] + 1) => Granted(b)' = Granted(b) \cup {q}
             /\ q \notin Granted(b)
  BY <1>1, <1>5 DEF Granted
<1>9. MemoryBudget'
  BY <1>1, <1>2 DEF RateIInv, MemoryBudget, Given
<1>10. RedisBudget'
  <2> SUFFICES ASSUME settings.backend = "redis", settings.mode = "closed",
                      NEW b \in Buckets
               PROVE  /\ admitted[b] + Cardinality(Granted(b)') <= Limit * losses[b] + Limit
                      /\ b >= Bucket => admitted[b] + Cardinality(Granted(b)') <=
                                        Limit * losses[b] + Used(b)'
    BY <1>1, <1>2 DEF RedisBudget
  <2>1. /\ admitted[b] \in Nat /\ losses[b] \in Nat /\ Limit \in Nat \ {0} /\ count[b] \in Nat
        /\ Limit * losses[b] \in Nat
    BY RateAssumption DEF RateIInv, RateTyped
  <2>2. Cardinality(Granted(b)) \in Nat /\ IsFiniteSet(Granted(b))
    BY Countable
  <2>3. /\ admitted[b] + Cardinality(Granted(b)) <= Limit * losses[b] + Limit
        /\ b >= Bucket =>
              admitted[b] + Cardinality(Granted(b)) <= Limit * losses[b] + Used(b)
    BY DEF RateIInv, RedisBudget
  <2>4. CASE b # Bucket
    BY <1>3, <1>8, <2>3, <2>4 DEF Used
  <2>5. CASE b = Bucket /\ ~Within(count[Bucket] + 1)
    <3>1. Granted(b)' = Granted(b) /\ Used(b) = Limit /\ Used(b)' = Limit
      BY <1>3, <1>4, <1>8, <2>1, <2>5 DEF Used, Within
    <3> QED
      BY <2>3, <3>1
  <2>6. CASE b = Bucket /\ Within(count[Bucket] + 1)
    <3>1. Cardinality(Granted(b)') = Cardinality(Granted(b)) + 1
      <4>1. Granted(b)' = Granted(b) \cup {q} /\ q \notin Granted(b)
        BY <1>8, <2>6
      <4> QED
        BY <2>2, <4>1, FS_AddElement
    <3>2. Used(b) = count[b] /\ Used(b)' = count[b] + 1 /\ count[b] + 1 <= Limit
      BY <1>3, <1>4, <2>1, <2>6 DEF Used, Within
    <3>3. b >= Bucket
      BY <1>2, <2>6
    <3> QED
      BY <2>1, <2>2, <2>3, <3>1, <3>2, <3>3
  <2> QED
    BY <2>4, <2>5, <2>6
<1> QED
  BY <1>3, <1>6, <1>7, <1>9, <1>10 DEF RateIInv

\* A script runs whose caller has given up: it only takes.
LEMMA RunLateScriptStep ==
    ASSUME RateIInv, RunLateScript
    PROVE  RateIInv'
<1>1. UNCHANGED <<settings, second, memory, asker, admitted, losses>> /\ Script
  BY DEF RunLateScript
<1>2. Bucket' = Bucket /\ Bucket \in Buckets /\ Buckets \subseteq Nat
  BY <1>1, BucketFacts DEF RateIInv, Bucket
<1>3. /\ count' \in [Buckets -> Nat]
      /\ expiry' \in [Buckets -> Nat]
      /\ KeysLive'
      /\ \A b \in Buckets \ {Bucket} : count'[b] = count[b]
      /\ count'[Bucket] = count[Bucket] + 1
  BY <1>1, Counting
<1>4. RateTyped'
  BY <1>1, <1>3 DEF RateIInv, RateTyped
<1>5. FutureUntouched' /\ MemoryAlone'
  BY <1>1, <1>2, <1>3 DEF RateIInv, FutureUntouched, MemoryAlone
<1>6. ASSUME NEW b \in Buckets
      PROVE  /\ admitted'[b] + Cardinality(Granted(b))' <= admitted[b] + Cardinality(Granted(b))
             /\ Used(b) <= Used(b)'
  <2>1. Granted(b)' = Granted(b)
    BY <1>1 DEF Granted
  <2>2. Cardinality(Granted(b)) \in Nat /\ admitted[b] \in Nat /\ count[b] \in Nat
    BY Countable DEF RateIInv, RateTyped
  <2>3. count[b] <= count'[b]
    BY <1>2, <1>3, <2>2
  <2>4. Used(b) <= Used(b)'
    BY <1>3, <2>2, <2>3, RateAssumption DEF Used
  <2> QED
    BY <1>1, <2>1, <2>2, <2>4
<1> QED
  BY <1>1, <1>3, <1>4, <1>5, <1>6, BudgetsFrame DEF RateIInv

\* The answer arrives: what was granted is let through.
LEMMA AnswerStep ==
    ASSUME RateIInv, NEW q \in Askers, Answer(q)
    PROVE  RateIInv'
<1> DEFINE bucket == asker[q].bucket
<1>1. /\ UNCHANGED <<settings, second, count, expiry, memory, losses>>
      /\ asker[q].at = "counted"
      /\ asker' = [asker EXCEPT ![q] = NotAsking]
      /\ Within(asker[q].count) => admitted' = [admitted EXCEPT ![bucket] = @ + 1]
      /\ ~Within(asker[q].count) => admitted' = admitted
  BY DEF Answer, Proceeds, LetThrough
<1>2. /\ 0 \in Buckets /\ Bucket' = Bucket /\ bucket \in Buckets /\ bucket <= Bucket
      /\ Buckets \subseteq Nat /\ Bucket \in Buckets
  <2>1. Bucket' = Bucket
    BY <1>1 DEF Bucket
  <2> QED
    BY <1>1, <2>1, BucketFacts DEF RateIInv, RateTyped, FutureUntouched
<1>3. /\ asker' \in [Askers -> [at : {"idle", "sent", "counted"}, bucket : Buckets, count : Nat]]
      /\ asker'[q].at = "idle"
      /\ \A o \in Askers \ {q} : asker'[o] = asker[o]
  <2>1. /\ NotAsking \in [at : {"idle", "sent", "counted"}, bucket : Buckets, count : Nat]
        /\ NotAsking.at = "idle"
    BY <1>2 DEF NotAsking
  <2> QED
    BY <1>1, <2>1 DEF RateIInv, RateTyped
<1>4. /\ admitted' \in [Buckets -> Nat]
      /\ \A b \in Buckets : b # bucket => admitted'[b] = admitted[b]
      /\ Within(asker[q].count) => admitted'[bucket] = admitted[bucket] + 1
      /\ ~Within(asker[q].count) => admitted'[bucket] = admitted[bucket]
  BY <1>1, <1>2 DEF RateIInv, RateTyped
<1>5. RateTyped'
  BY <1>1, <1>3, <1>4 DEF RateIInv, RateTyped
<1>6. FutureUntouched' /\ KeysLive' /\ MemoryAlone'
  BY <1>1, <1>2, <1>3, <1>4
  DEF RateIInv, RateTyped, FutureUntouched, KeysLive, MemoryAlone
<1>7. ASSUME NEW b \in Buckets
      PROVE  /\ admitted'[b] + Cardinality(Granted(b))' <= admitted[b] + Cardinality(Granted(b))
             /\ Used(b) <= Used(b)'
  <2>1. Granted(b)' = Granted(b) \ {q}
    BY <1>1, <1>3 DEF Granted
  <2>2. q \in Granted(b) <=> b = bucket /\ Within(asker[q].count)
    BY <1>1 DEF Granted
  <2>3. /\ IsFiniteSet(Granted(b)) /\ Cardinality(Granted(b)) \in Nat
        /\ admitted[b] \in Nat /\ count[b] \in Nat
    BY Countable DEF RateIInv, RateTyped
  <2>4. Cardinality(Granted(b)') = IF q \in Granted(b) THEN Cardinality(Granted(b)) - 1
                                   ELSE Cardinality(Granted(b))
    BY <2>1, <2>3, FS_RemoveElement
  <2>5. admitted'[b] + Cardinality(Granted(b))' <= admitted[b] + Cardinality(Granted(b))
    BY <1>4, <2>2, <2>3, <2>4
  <2>6. Used(b)' = Used(b) /\ Used(b) \in Nat
    BY <1>1, <2>3, RateAssumption DEF Used
  <2> QED
    BY <2>5, <2>6
<1>8. settings.backend # "memory"
  BY <1>1 DEF RateIInv, MemoryAlone
<1> QED
  BY <1>1, <1>5, <1>6, <1>7, <1>8, BudgetsFrame DEF RateIInv

\* No answer: with mode closed nobody is let through, with mode open there is no
\* budget.
LEMMA UnavailableStep ==
    ASSUME RateIInv, NEW q \in Askers, Unavailable(q)
    PROVE  RateIInv'
<1>1. /\ UNCHANGED <<settings, second, count, expiry, memory, losses>>
      /\ asker[q].at \in {"sent", "counted"}
      /\ asker' = [asker EXCEPT ![q] = NotAsking]
      /\ settings.mode = "open" => admitted' = [admitted EXCEPT ![Bucket] = @ + 1]
      /\ settings.mode # "open" => admitted' = admitted
  BY DEF Unavailable, Proceeds, OnError, LetThrough
<1>2. /\ 0 \in Buckets /\ Bucket' = Bucket /\ Buckets \subseteq Nat /\ Bucket \in Buckets
  <2>1. Bucket' = Bucket
    BY <1>1 DEF Bucket
  <2> QED
    BY <2>1, BucketFacts DEF RateIInv
<1>3. /\ asker' \in [Askers -> [at : {"idle", "sent", "counted"}, bucket : Buckets, count : Nat]]
      /\ asker'[q].at = "idle"
      /\ \A o \in Askers \ {q} : asker'[o] = asker[o]
  <2>1. /\ NotAsking \in [at : {"idle", "sent", "counted"}, bucket : Buckets, count : Nat]
        /\ NotAsking.at = "idle"
    BY <1>2 DEF NotAsking
  <2> QED
    BY <1>1, <2>1 DEF RateIInv, RateTyped
<1>4. /\ admitted' \in [Buckets -> Nat]
      /\ \A b \in Buckets : b # Bucket => admitted'[b] = admitted[b]
  BY <1>1, <1>2 DEF RateIInv, RateTyped
<1>5. RateTyped'
  BY <1>1, <1>3, <1>4 DEF RateIInv, RateTyped
<1>6. FutureUntouched' /\ KeysLive' /\ MemoryAlone'
  BY <1>1, <1>2, <1>3, <1>4
  DEF RateIInv, RateTyped, FutureUntouched, KeysLive, MemoryAlone
<1>7. settings.backend # "memory"
  BY <1>1 DEF RateIInv, MemoryAlone
<1>8. CASE settings.mode = "open"
  <2>1. RedisBudget' /\ MemoryBudget'
    BY <1>1, <1>7, <1>8 DEF RedisBudget, MemoryBudget
  <2> QED
    BY <1>5, <1>6, <2>1 DEF RateIInv
<1>9. CASE settings.mode # "open"
  <2>1. ASSUME NEW b \in Buckets
        PROVE  /\ admitted'[b] + Cardinality(Granted(b))' <=
                  admitted[b] + Cardinality(Granted(b))
               /\ Used(b) <= Used(b)'
    <3>1. Granted(b)' \in SUBSET Granted(b)
      BY <1>3 DEF Granted
    <3>2. /\ IsFiniteSet(Granted(b)) /\ Cardinality(Granted(b)) \in Nat
          /\ admitted[b] \in Nat /\ count[b] \in Nat
      BY Countable DEF RateIInv, RateTyped
    <3>3. Cardinality(Granted(b)') <= Cardinality(Granted(b))
      BY <3>1, <3>2, FS_Subset
    <3>4. Cardinality(Granted(b)') \in Nat
      <4>1. Granted(b)' \in SUBSET Askers
        BY DEF Granted
      <4> QED
        BY <4>1, SomeAskers
    <3>5. Used(b)' = Used(b) /\ Used(b) \in Nat
      BY <1>1, <3>2, RateAssumption DEF Used
    <3> QED
      BY <1>1, <1>9, <3>2, <3>3, <3>4, <3>5
  <2> QED
    BY <1>1, <1>5, <1>6, <1>7, <2>1, BudgetsFrame DEF RateIInv
<1> QED
  BY <1>8, <1>9

\* A second passes: the present window keeps its key, the next one has none.
LEMMA TickStep ==
    ASSUME RateIInv, Tick
    PROVE  RateIInv'
<1>1. /\ UNCHANGED <<settings, expiry, memory, asker, admitted, losses>>
      /\ second' = second + 1 /\ second < LastSecond
      /\ count' = [b \in Buckets |-> IF expiry[b] <= second' THEN 0 ELSE count[b]]
  BY DEF Tick
<1>2. RateTyped'
  BY <1>1, RateAssumption DEF RateIInv, RateTyped
<1>3. Bucket <= Bucket'
  <2>1. second <= second'
    BY <1>1 DEF RateIInv, RateTyped
  <2> QED
    BY <1>2, <2>1, BucketGrows DEF RateIInv
<1>4. /\ Bucket' \in Buckets /\ Bucket \in Buckets /\ Buckets \subseteq Nat
      /\ second' < Window * (Bucket' + 1)
  <2>1. Buckets' = Buckets
    BY DEF Buckets
  <2>2. (RateTyped => /\ Bucket \in Buckets /\ 0 \in Buckets /\ Buckets \subseteq Nat
                      /\ Window * Bucket <= second /\ second < Window * (Bucket + 1))'
    BY BucketFacts, PTL
  <2> QED
    BY <1>2, <2>1, <2>2, BucketFacts DEF RateIInv
<1>5. ASSUME NEW b \in Buckets
      PROVE  /\ count'[b] \in {count[b], 0}
             /\ b >= Bucket' => count'[b] = count[b]
  <2>1. count'[b] \in {count[b], 0}
    BY <1>1
  <2>2. ASSUME b >= Bucket', count[b] > 0
        PROVE  expiry[b] > second'
    <3>1. expiry[b] \in Nat /\ expiry[b] >= Window * (b + 1)
      BY <2>2 DEF RateIInv, RateTyped, KeysLive
    <3>2. /\ Window * (Bucket' + 1) \in Nat /\ Window * (b + 1) \in Nat
          /\ Window * (Bucket' + 1) <= Window * (b + 1)
      <4>1. Window \in Nat /\ b \in Nat /\ Bucket' \in Nat
        BY <1>4, RateAssumption
      <4>2. PICK n \in Nat : n = Bucket'
        BY <4>1
      <4>3. n <= b
        BY <2>2, <4>1, <4>2
      <4>4. n + 1 \in Nat /\ b + 1 \in Nat /\ n + 1 <= b + 1
        BY <4>1, <4>3
      <4> QED
        BY <4>1, <4>2, <4>4, Times
    <3>3. second' \in Nat
      BY <1>2 DEF RateTyped
    <3> QED
      BY <1>4, <3>1, <3>2, <3>3
  <2>3. count[b] \in Nat /\ expiry[b] \in Nat /\ second' \in Nat
    BY <1>2 DEF RateIInv, RateTyped
  <2> QED
    BY <1>1, <2>1, <2>2, <2>3
<1>6. FutureUntouched' /\ KeysLive' /\ MemoryAlone'
  <2>1. \A b \in Buckets : b > Bucket' => b > Bucket
    BY <1>3, <1>4
  <2>2. FutureUntouched'
    <3>1. \A q \in Askers : asker[q].at = "counted" => asker[q].bucket <= Bucket'
      <4>1. PICK m \in Nat, n \in Nat : m = Bucket /\ n = Bucket' /\ m <= n
        BY <1>3, <1>4
      <4>2. ASSUME NEW q \in Askers, asker[q].at = "counted"
            PROVE  asker[q].bucket \in Nat /\ asker[q].bucket <= m
        BY <1>4, <4>1, <4>2 DEF RateIInv, RateTyped, FutureUntouched
      <4> QED
        BY <4>1, <4>2
    <3> QED
      BY <1>1, <1>5, <2>1, <3>1 DEF RateIInv, FutureUntouched
  <2>3. KeysLive'
    BY <1>1, <1>5 DEF RateIInv, KeysLive
  <2> QED
    BY <1>1, <2>2, <2>3 DEF RateIInv, MemoryAlone
<1>7. ASSUME NEW b \in Buckets
      PROVE  /\ Granted(b)' = Granted(b) /\ Given(b)' = Given(b)
             /\ b >= Bucket' => b >= Bucket /\ Used(b)' = Used(b)
  BY <1>1, <1>3, <1>4, <1>5 DEF Granted, Given, Used
<1>8. RedisBudget' /\ MemoryBudget'
  BY <1>1, <1>7 DEF RateIInv, RedisBudget, MemoryBudget
<1> QED
  BY <1>2, <1>6, <1>8 DEF RateIInv

\* Limit more for a loss.
LEMMA LossAllows ==
    ASSUME RateTyped, NEW b \in Buckets
    PROVE  /\ Limit \in Nat \ {0} /\ losses[b] \in Nat
           /\ Limit * losses[b] \in Nat
           /\ Limit * (losses[b] + 1) = Limit * losses[b] + Limit
           /\ Limit * Cardinality(Processes) \in Nat
<1>1. Limit \in Nat \ {0} /\ losses[b] \in Nat /\ Cardinality(Processes) \in Nat
  BY RateAssumption, FS_CardinalityType DEF RateTyped
<1> QED
  BY <1>1, TimesNext

\* The n-th request that process p counts in a window takes the n-th place of
\* its quota, if there is one.
LEMMA PlaceTaken ==
    ASSUME RateIInv, NEW p \in Processes, NEW b \in Buckets, NEW n \in Nat \ {0},
           memory' = [memory EXCEPT ![p] = [window |-> b, count |-> n]],
           memory[p].window = b => n = memory[p].count + 1,
           memory[p].window # b => n = 1
    PROVE  Cardinality(Given(b)') >= Cardinality(Given(b)) + (IF Within(n) THEN 1 ELSE 0)
<1> DEFINE new == IF Within(n) THEN Given(b) \cup {<<p, n>>} ELSE Given(b)
<1>1. /\ memory'[p] = [window |-> b, count |-> n]
      /\ \A o \in Processes \ {p} : memory'[o] = memory[o]
      /\ memory[p].count \in Nat
  BY DEF RateIInv, RateTyped
<1>2. Within(n) => <<p, n>> \in Places
  BY RateAssumption DEF Within, Places
<1>3. <<p, n>> \notin Given(b)
  BY <1>1 DEF Given
<1>4. Given(b) \subseteq Given(b)'
  <2> SUFFICES ASSUME NEW o \in Processes, NEW k \in 1..Limit,
                      memory[o].window = b, k <= memory[o].count
               PROVE  memory'[o].window = b /\ k <= memory'[o].count
    BY DEF Given, Places
  <2>1. CASE o = p
    BY <1>1, <2>1, RateAssumption
  <2>2. CASE o # p
    BY <1>1, <2>2
  <2> QED
    BY <2>1, <2>2
<1>5. Within(n) => <<p, n>> \in Given(b)'
  BY <1>1, <1>2 DEF Given
<1>6. new \subseteq Given(b)'
  BY <1>4, <1>5
<1>7. Given(b)' \in SUBSET Places
  BY DEF Given
<1>8. /\ IsFiniteSet(Given(b)') /\ Cardinality(Given(b)') \in Nat
      /\ IsFiniteSet(Given(b)) /\ Cardinality(Given(b)) \in Nat
  BY <1>7, SomePlaces, Countable
<1>9. IsFiniteSet(new) /\ Cardinality(new) = Cardinality(Given(b)) + (IF Within(n) THEN 1 ELSE 0)
  <2>1. CASE Within(n)
    BY <1>3, <1>8, <2>1, FS_AddElement
  <2>2. CASE ~Within(n)
    BY <1>8, <2>2
  <2> QED
    BY <2>1, <2>2
<1>10. Cardinality(new) <= Cardinality(Given(b)')
  BY <1>6, <1>8, FS_Subset
<1> QED
  BY <1>8, <1>9, <1>10

\* A process counts a request in memory.
LEMMA MemoryStep ==
    ASSUME RateIInv, NEW p \in Processes, CheckInMemory(p)
    PROVE  RateIInv'
<1>1. PICK now \in {second, second + 1} :
         LET present == memory[p].window = Bucket
             kept == memory[p].window >= now \div Window
             n == IF present /\ kept THEN memory[p].count + 1 ELSE 1
         IN  /\ settings.backend = "memory"
             /\ now <= LastSecond /\ n <= CountBound
             /\ second' = now
             /\ memory' = [memory EXCEPT ![p] = [window |-> Bucket, count |-> n]]
             /\ IF Within(n) THEN LetThrough(Bucket) ELSE UNCHANGED admitted
             /\ losses' = IF present /\ memory[p].count > 0 /\ ~kept
                          THEN [losses EXCEPT ![Bucket] = @ + 1] ELSE losses
             /\ UNCHANGED <<settings, count, expiry, asker, late>>
  BY DEF CheckInMemory
<1> DEFINE present == memory[p].window = Bucket
           kept == memory[p].window >= now \div Window
           n == IF present /\ kept THEN memory[p].count + 1 ELSE 1
           dropped == present /\ memory[p].count > 0 /\ ~kept
<1>2. /\ settings.backend = "memory"
      /\ now <= LastSecond
      /\ second' = now
      /\ memory' = [memory EXCEPT ![p] = [window |-> Bucket, count |-> n]]
      /\ Within(n) => admitted' = [admitted EXCEPT ![Bucket] = @ + 1]
      /\ ~Within(n) => admitted' = admitted
      /\ dropped => losses' = [losses EXCEPT ![Bucket] = @ + 1]
      /\ ~dropped => losses' = losses
      /\ UNCHANGED <<settings, count, expiry, asker>>
  BY <1>1 DEF LetThrough
<1>3. /\ Bucket \in Buckets /\ Buckets \subseteq Nat
      /\ memory[p].count \in Nat /\ memory[p].window \in Buckets
      /\ second \in 0..LastSecond /\ now \in Nat
  BY BucketFacts DEF RateIInv, RateTyped
<1>4. n \in Nat \ {0}
  BY <1>3
<1>5. /\ admitted' \in [Buckets -> Nat] /\ losses' \in [Buckets -> Nat]
      /\ \A b \in Buckets : b # Bucket => admitted'[b] = admitted[b] /\ losses'[b] = losses[b]
      /\ admitted'[Bucket] = admitted[Bucket] + (IF Within(n) THEN 1 ELSE 0)
      /\ losses'[Bucket] = losses[Bucket] + (IF dropped THEN 1 ELSE 0)
  <2>1. /\ admitted' \in [Buckets -> Nat]
        /\ \A b \in Buckets : b # Bucket => admitted'[b] = admitted[b]
        /\ admitted'[Bucket] = admitted[Bucket] + (IF Within(n) THEN 1 ELSE 0)
    BY <1>2, <1>3 DEF RateIInv, RateTyped
  <2>2. /\ losses' \in [Buckets -> Nat]
        /\ \A b \in Buckets : b # Bucket => losses'[b] = losses[b]
        /\ losses'[Bucket] = losses[Bucket] + (IF dropped THEN 1 ELSE 0)
    <3>1. losses \in [Buckets -> Nat]
      BY DEF RateIInv, RateTyped
    <3> HIDE DEF dropped
    <3>2. CASE dropped
      <4>1. losses' = [losses EXCEPT ![Bucket] = @ + 1]
        BY <1>2, <3>2
      <4> QED
        BY <1>3, <3>1, <3>2, <4>1
    <3>3. CASE ~dropped
      <4>1. losses' = losses
        BY <1>2, <3>3
      <4> QED
        BY <1>3, <3>1, <3>3, <4>1
    <3> QED
      BY <3>2, <3>3
  <2> QED
    BY <2>1, <2>2
<1>6. RateTyped'
  <2>1. [window |-> Bucket, count |-> n] \in [window : Buckets, count : Nat]
    BY <1>3, <1>4
  <2>2. memory' \in [Processes -> [window : Buckets, count : Nat]]
    BY <1>2, <2>1 DEF RateIInv, RateTyped
  <2>3. second' \in 0..LastSecond
    BY <1>2, <1>3, RateAssumption
  <2> QED
    BY <1>2, <1>5, <2>2, <2>3 DEF RateIInv, RateTyped
<1>7. Bucket <= Bucket' /\ Bucket' = now \div Window /\ Bucket' \in Nat
  <2>1. second <= second'
    BY <1>2, <1>3
  <2>2. Bucket' = now \div Window
    BY <1>2 DEF Bucket
  <2>3. now \div Window \in Nat
    BY <1>3, RateAssumption, Division
  <2> QED
    BY <1>6, <2>1, <2>2, <2>3, BucketGrows DEF RateIInv
<1> HIDE DEF n
<1>8. FutureUntouched' /\ KeysLive' /\ MemoryAlone'
  <2>1. \A b \in Buckets : b > Bucket' => b > Bucket /\ b # Bucket
    BY <1>3, <1>7
  <2>2. \A q \in Askers : asker[q].at = "idle"
    BY <1>2 DEF RateIInv, MemoryAlone
  <2> QED
    BY <1>2, <1>5, <2>1, <2>2 DEF RateIInv, FutureUntouched, KeysLive, MemoryAlone
<1>9. RedisBudget'
  BY <1>2 DEF RedisBudget
<1>10. Bucket' # Bucket => ~present \/ ~kept
  BY <1>3, <1>7
<1>11. present /\ ~kept => Bucket' > Bucket
  BY <1>3, <1>7
<1>12. ASSUME NEW b \in Buckets
       PROVE  /\ admitted'[b] <= Limit * losses'[b] + Limit * Cardinality(Processes)
              /\ b >= Bucket' => admitted'[b] <= Limit * losses'[b] + Cardinality(Given(b)')
  <2>1. /\ admitted[b] \in Nat /\ losses[b] \in Nat /\ Limit \in Nat \ {0}
        /\ Limit * losses[b] \in Nat /\ Limit * Cardinality(Processes) \in Nat
        /\ Limit * (losses[b] + 1) = Limit * losses[b] + Limit
    BY LossAllows DEF RateIInv, RateTyped
  <2>2. /\ admitted[b] <= Limit * losses[b] + Limit * Cardinality(Processes)
        /\ b >= Bucket => admitted[b] <= Limit * losses[b] + Cardinality(Given(b))
    BY <1>2 DEF RateIInv, MemoryBudget
  <2>3. /\ Cardinality(Given(b)) \in Nat /\ Cardinality(Given(b)') \in Nat
        /\ Cardinality(Given(b)') <= Limit * Cardinality(Processes)
        /\ Cardinality(Given(b)) <= Limit * Cardinality(Processes)
    <3>1. Given(b)' \in SUBSET Places
      BY DEF Given
    <3> QED
      BY <3>1, SomePlaces, Countable
  <2>4. CASE b # Bucket
    <3>1. admitted'[b] = admitted[b] /\ losses'[b] = losses[b]
      BY <1>5, <2>4
    <3>2. b >= Bucket' => admitted[b] = 0
      <4>1. b >= Bucket' => b > Bucket
        BY <1>3, <1>7, <2>4
      <4> QED
        BY <4>1 DEF RateIInv, FutureUntouched
    <3> QED
      BY <2>1, <2>2, <2>3, <3>1, <3>2
  <2>5. CASE b = Bucket /\ ~dropped
    <3>1. /\ admitted'[b] = admitted[b] + (IF Within(n) THEN 1 ELSE 0)
          /\ losses'[b] = losses[b]
      BY <1>5, <2>1, <2>5
    <3>2. /\ memory[p].window = b => n = memory[p].count + 1
          /\ memory[p].window # b => n = 1
      BY <1>3, <2>5 DEF n
    <3>3. memory' = [memory EXCEPT ![p] = [window |-> b, count |-> n]]
      BY <1>2, <2>5
    <3>4. Cardinality(Given(b)') >= Cardinality(Given(b)) + (IF Within(n) THEN 1 ELSE 0)
      BY <1>4, <3>2, <3>3, PlaceTaken
    <3>5. admitted[b] <= Limit * losses[b] + Cardinality(Given(b))
      BY <1>3, <2>2, <2>5
    <3> QED
      BY <2>1, <2>3, <3>1, <3>4, <3>5
  <2>6. CASE b = Bucket /\ dropped
    <3>1. /\ admitted'[b] <= admitted[b] + 1
          /\ losses'[b] = losses[b] + 1
      BY <1>5, <2>1, <2>6
    <3>2. ~(b >= Bucket')
      BY <1>3, <1>7, <1>11, <2>6
    <3>3. admitted'[b] \in Nat
      BY <1>5
    <3> QED
      BY <2>1, <2>2, <3>1, <3>2, <3>3
  <2> QED
    BY <2>4, <2>5, <2>6
<1>13. MemoryBudget'
  BY <1>12 DEF MemoryBudget
<1> QED
  BY <1>6, <1>8, <1>9, <1>13 DEF RateIInv

\* Redis loses every count, or a process its own.
LEMMA LossStep ==
    ASSUME RateIInv, LoseCounts
    PROVE  RateIInv'
<1>1. /\ UNCHANGED <<settings, second, expiry, asker, admitted>>
      /\ losses' = [losses EXCEPT ![Bucket] = @ + 1]
      /\ \/ /\ settings.backend = "redis"
            /\ count' = [b \in Buckets |-> 0]
            /\ UNCHANGED memory
         \/ /\ settings.backend = "memory"
            /\ \E p \in Processes : memory' = [memory EXCEPT ![p] = NoCounts]
            /\ UNCHANGED count
  BY DEF LoseCounts
<1>2. Bucket' = Bucket /\ Bucket \in Buckets /\ Buckets \subseteq Nat /\ 0 \in Buckets
  <2>1. Bucket' = Bucket
    BY <1>1 DEF Bucket
  <2> QED
    BY <2>1, BucketFacts DEF RateIInv
<1>3. /\ losses' \in [Buckets -> Nat]
      /\ losses'[Bucket] = losses[Bucket] + 1
      /\ \A b \in Buckets : b # Bucket => losses'[b] = losses[b]
  BY <1>1, <1>2 DEF RateIInv, RateTyped
<1>4. RateTyped'
  <2>1. NoCounts \in [window : Buckets, count : Nat]
    BY <1>2 DEF NoCounts
  <2>2. memory' \in [Processes -> [window : Buckets, count : Nat]] /\ count' \in [Buckets -> Nat]
    BY <1>1, <2>1 DEF RateIInv, RateTyped
  <2> QED
    BY <1>1, <1>3, <2>2 DEF RateIInv, RateTyped
<1>5. \A b \in Buckets : count'[b] \in {0, count[b]}
  BY <1>1
<1>6. FutureUntouched' /\ KeysLive' /\ MemoryAlone'
  BY <1>1, <1>2, <1>5 DEF RateIInv, FutureUntouched, KeysLive, MemoryAlone
<1>7. RedisBudget'
  <2> SUFFICES ASSUME settings.backend = "redis", settings.mode = "closed",
                      NEW b \in Buckets
               PROVE  /\ admitted[b] + Cardinality(Granted(b)) <= Limit * losses'[b] + Limit
                      /\ b >= Bucket => admitted[b] + Cardinality(Granted(b)) <=
                                        Limit * losses'[b] + Used(b)'
    BY <1>1, <1>2 DEF RedisBudget, Granted
  <2>1. /\ admitted[b] \in Nat /\ losses[b] \in Nat /\ Limit \in Nat \ {0}
        /\ Limit * losses[b] \in Nat
        /\ Limit * (losses[b] + 1) = Limit * losses[b] + Limit
        /\ Cardinality(Granted(b)) \in Nat
    BY LossAllows, Countable DEF RateIInv, RateTyped
  <2>2. /\ admitted[b] + Cardinality(Granted(b)) <= Limit * losses[b] + Limit
        /\ b >= Bucket =>
              admitted[b] + Cardinality(Granted(b)) <= Limit * losses[b] + Used(b)
    BY DEF RateIInv, RedisBudget
  <2>3. count'[b] = 0 /\ Used(b)' = 0
    BY <1>1, RateAssumption DEF Used
  <2>4. CASE b = Bucket
    BY <1>3, <2>1, <2>2, <2>3, <2>4
  <2>5. CASE b # Bucket
    <3>1. losses'[b] = losses[b]
      BY <1>3, <2>5
    <3>2. b >= Bucket => Used(b) = 0
      <4>1. b >= Bucket => b > Bucket
        BY <1>2, <2>5
      <4>2. b >= Bucket => count[b] = 0
        BY <4>1 DEF RateIInv, FutureUntouched
      <4> QED
        BY <4>2, RateAssumption DEF Used
    <3> QED
      BY <2>2, <2>3, <3>1, <3>2
  <2> QED
    BY <2>4, <2>5
<1>8. MemoryBudget'
  <2> SUFFICES ASSUME settings.backend = "memory", NEW b \in Buckets
               PROVE  /\ admitted[b] <= Limit * losses'[b] + Limit * Cardinality(Processes)
                      /\ b >= Bucket => admitted[b] <= Limit * losses'[b] + Cardinality(Given(b)')
    BY <1>1, <1>2 DEF MemoryBudget
  <2>1. /\ admitted[b] \in Nat /\ losses[b] \in Nat /\ Limit \in Nat \ {0}
        /\ Limit * losses[b] \in Nat /\ Limit * Cardinality(Processes) \in Nat
        /\ Limit * (losses[b] + 1) = Limit * losses[b] + Limit
    BY LossAllows DEF RateIInv, RateTyped
  <2>2. /\ admitted[b] <= Limit * losses[b] + Limit * Cardinality(Processes)
        /\ b >= Bucket => admitted[b] <= Limit * losses[b] + Cardinality(Given(b))
    BY DEF RateIInv, MemoryBudget
  <2>3. PICK p \in Processes : memory' = [memory EXCEPT ![p] = NoCounts]
    BY <1>1
  <2> DEFINE own == {p} \X (1..Limit)
  <2>4. IsFiniteSet(own) /\ Cardinality(own) = Limit
    <3>1. IsFiniteSet(1..Limit) /\ Cardinality(1..Limit) = Limit
      BY <2>1, FS_Interval
    <3>2. IsFiniteSet({p}) /\ Cardinality({p}) = 1
      BY FS_Singleton
    <3>3. IsFiniteSet(own) /\ Cardinality(own) = Cardinality({p}) * Cardinality(1..Limit)
      BY <3>1, <3>2, FS_Product
    <3> QED
      BY <2>1, <3>1, <3>2, <3>3
  <2>5. Given(b) \subseteq Given(b)' \cup own
    <3> SUFFICES ASSUME NEW o \in Processes, NEW k \in 1..Limit, <<o, k>> \in Given(b), o # p
                 PROVE  <<o, k>> \in Given(b)'
      BY DEF Given, Places
    <3>1. memory'[o] = memory[o]
      BY <2>3 DEF RateIInv, RateTyped
    <3> QED
      BY <3>1 DEF Given, Places
  <2>6. /\ IsFiniteSet(Given(b)) /\ Cardinality(Given(b)) \in Nat
        /\ IsFiniteSet(Given(b)') /\ Cardinality(Given(b)') \in Nat
    <3>1. Given(b)' \in SUBSET Places
      BY DEF Given
    <3> QED
      BY <3>1, SomePlaces, Countable
  <2>7. Cardinality(Given(b)) <= Cardinality(Given(b)') + Limit
    <3> DEFINE all == Given(b)' \cup own
               both == Given(b)' \cap own
    <3>1. /\ IsFiniteSet(all)
          /\ Cardinality(all) = Cardinality(Given(b)') + Cardinality(own) - Cardinality(both)
      BY <2>4, <2>6, FS_Union
    <3>2. IsFiniteSet(both) /\ Cardinality(both) \in Nat
      BY <2>6, FS_Intersection, FS_CardinalityType
    <3>3. Cardinality(Given(b)) <= Cardinality(all)
      BY <2>5, <3>1, FS_Subset
    <3> HIDE DEF all, both, own
    <3> QED
      BY <2>1, <2>4, <2>6, <3>1, <3>2, <3>3
  <2>8. CASE b = Bucket
    BY <1>2, <1>3, <2>1, <2>2, <2>6, <2>7, <2>8
  <2>9. CASE b # Bucket
    <3>1. losses'[b] = losses[b]
      BY <1>3, <2>9
    <3>2. b >= Bucket => admitted[b] = 0
      <4>1. b >= Bucket => b > Bucket
        BY <1>2, <2>9
      <4> QED
        BY <4>1 DEF RateIInv, FutureUntouched
    <3> QED
      BY <2>1, <2>2, <2>6, <3>1, <3>2
  <2> QED
    BY <2>8, <2>9
<1> QED
  BY <1>4, <1>6, <1>7, <1>8 DEF RateIInv

\* Every step keeps the invariant.
LEMMA RateStep == RateIInv /\ [RateNext]_rateVars => RateIInv'
<1> SUFFICES ASSUME RateIInv, [RateNext]_rateVars
             PROVE  RateIInv'
  OBVIOUS
<1>1. ASSUME NEW q \in Askers, Ask(q) \/ RunScript(q) \/ Answer(q) \/ Unavailable(q)
      PROVE  RateIInv'
  BY <1>1, AskStep, RunScriptStep, AnswerStep, UnavailableStep
<1>2. ASSUME NEW p \in Processes, CheckInMemory(p)
      PROVE  RateIInv'
  BY <1>2, MemoryStep
<1>3. CASE RunLateScript \/ Tick \/ LoseCounts
  BY <1>3, RunLateScriptStep, TickStep, LossStep
<1>4. CASE UNCHANGED rateVars
  BY <1>4
  DEF rateVars, RateIInv, RateTyped, FutureUntouched, KeysLive, MemoryAlone, RedisBudget,
      MemoryBudget, Bucket, Granted, Used, Given
<1> QED
  BY <1>1, <1>2, <1>3, <1>4 DEF RateNext

\* WithinLimit for any number of requests, processes, windows and losses and any
\* limit: with Redis and FAILURE_MODE=closed at most Limit requests of a window
\* get through, Limit more for each loss of its counts; in memory each process
\* has a quota of its own (middlewares/rate_limit.py).
THEOREM LimitHolds == RateSpec => []WithinLimit
<1>1. RateIInv => WithinLimit
  <2> SUFFICES ASSUME RateIInv, settings.backend = "memory" \/ settings.mode = "closed",
                      NEW b \in Buckets
               PROVE  admitted[b] <= Limit * ((IF settings.backend = "redis" THEN 1
                                               ELSE Cardinality(Processes)) + losses[b])
    BY DEF WithinLimit
  <2>1. /\ admitted[b] \in Nat /\ losses[b] \in Nat /\ Limit \in Nat \ {0}
        /\ Limit * losses[b] \in Nat /\ Cardinality(Processes) \in Nat
        /\ Cardinality(Granted(b)) \in Nat
    BY LossAllows, Countable DEF RateIInv, RateTyped
  <2>2. CASE settings.backend = "redis"
    <3>1. admitted[b] + Cardinality(Granted(b)) <= Limit * losses[b] + Limit
      BY <2>2 DEF RateIInv, RedisBudget
    <3>2. Limit * (1 + losses[b]) = Limit * losses[b] + Limit
      BY <2>1
    <3> QED
      BY <2>1, <2>2, <3>1, <3>2
  <2>3. CASE settings.backend # "redis"
    <3>1. settings.backend = "memory"
      BY <2>3 DEF RateIInv, RateTyped, Settings
    <3>2. admitted[b] <= Limit * losses[b] + Limit * Cardinality(Processes)
      BY <3>1 DEF RateIInv, MemoryBudget
    <3>3. Limit * (Cardinality(Processes) + losses[b])
          = Limit * losses[b] + Limit * Cardinality(Processes)
      BY <2>1
    <3> QED
      BY <2>3, <3>2, <3>3
  <2> QED
    BY <2>2, <2>3
<1> QED
  BY <1>1, RateStarts, RateStep, PTL DEF RateSpec

----------------------------------------------------------------------------
(* Companies and jobs.                                                     *)

\* What a request is about to write: rows that exist or existed, names and
\* drafts as they were sent, and a draft to be inserted in order.
TaskHonest(t) ==
    /\ t.op \in {"add", "rename"} => t.name \in Names
    /\ t.op \in {"rename", "close"} => t.company \in Companies
    /\ t.op \in {"post", "edit"} => t.target \in Draft
    /\ t.op = "post" => Ordered(t.target)
    /\ t.op \in {"edit", "remove"} => t.posting \in Postings

TasksHonest == \A w \in Clients : TaskHonest(task[w])

CatalogIInv == CatalogSound /\ TasksHonest

\* A name is not the mark of a row that is not there.
LEMMA Marks ==
    /\ "new" \notin Names /\ "deleted" \notin Names
    /\ "new" \notin Companies /\ "deleted" \notin Companies
  BY CatalogAssumption

\* A request that has nothing to do is honest.
LEMMA NoTaskHonest == NoTask \in Task /\ TaskHonest(NoTask)
<1>1. NoPosting \in Posting
  BY DEF NoPosting, Posting, Pay
<1> QED
  BY <1>1 DEF NoTask, Task, TaskHonest

\* There is nothing.
LEMMA CatalogStarts == CatalogInit => CatalogIInv
<1> SUFFICES ASSUME CatalogInit
             PROVE  CatalogIInv
  OBVIOUS
<1>1. NoPosting \in Posting /\ NoPosting.company = "new"
  BY DEF NoPosting, Posting, Pay
<1>2. CatalogTypeOK
  BY <1>1, NoTaskHonest DEF CatalogInit, CatalogTypeOK, CompanyRow
<1>3. \A c \in Companies : ~Listed(c)
  BY Marks DEF CatalogInit, Listed
<1>4. \A j \in Postings : ~Open(j)
  BY <1>1, Marks DEF CatalogInit, Open
<1> QED
  BY <1>2, <1>3, <1>4, NoTaskHonest DEF CatalogInit, CatalogIInv, CatalogSound, TasksHonest

\* A request that only reads keeps the rows and remembers what it read.
LEMMA AsksStep ==
    ASSUME CatalogIInv, NEW w \in Clients, NEW t \in Task, TaskHonest(t), Asks(w, t)
    PROVE  task' \in [Clients -> Task] /\ TasksHonest'
<1>1. task' \in [Clients -> Task]
  BY DEF CatalogIInv, CatalogSound, CatalogTypeOK, Asks
<1>2. ASSUME NEW v \in Clients
      PROVE  TaskHonest(task[v])'
  <2>1. task'[v] = t \/ task'[v] = task[v]
    BY DEF CatalogIInv, CatalogSound, CatalogTypeOK, Asks
  <2> QED
    BY <2>1 DEF CatalogIInv, TasksHonest, TaskHonest, Ordered
<1> QED
  BY <1>1, <1>2 DEF TasksHonest

\* The rows say all there is to say of the catalog.
LEMMA RowsStay ==
    ASSUME CatalogIInv, UNCHANGED catalogRows, task' \in [Clients -> Task], TasksHonest'
    PROVE  CatalogIInv'
  BY DEF CatalogIInv, CatalogSound, CatalogTypeOK, catalogRows, Listed, Open, Ordered

\* A request that has only read keeps the invariant, if it remembers honestly.
LEMMA ReadingStep ==
    ASSUME CatalogIInv, NEW w \in Clients, NEW t \in Task, TaskHonest(t), Asks(w, t),
           UNCHANGED catalogRows
    PROVE  CatalogIInv'
  BY AsksStep, RowsStay

\* What the checks of the requests read.
LEMMA ChecksStep ==
    ASSUME CatalogIInv, NEW w \in Clients,
           \/ \E n \in Names :
                 \/ AddCheck(w, n)
                 \/ \E c \in Companies : RenameCheck(w, c, n)
           \/ \E c \in Companies : CloseCheck(w, c)
           \/ \E p \in Draft : PostCheck(w, p) \/ \E j \in Postings : EditCheck(w, j, p)
           \/ \E j \in Postings : RemoveCheck(w, j)
           \/ GiveUp(w)
    PROVE  CatalogIInv'
<1>1. ASSUME NEW n \in Names, AddCheck(w, n)
      PROVE  CatalogIInv'
  <2> DEFINE t == [NoTask EXCEPT !.op = "add", !.name = n]
  <2>1. t \in Task /\ TaskHonest(t)
    BY NoTaskHonest DEF NoTask, Task, TaskHonest
  <2>2. Asks(w, t) /\ UNCHANGED catalogRows
    BY <1>1 DEF AddCheck
  <2> QED
    BY <2>1, <2>2, ReadingStep
<1>2. ASSUME NEW n \in Names, NEW c \in Companies, RenameCheck(w, c, n)
      PROVE  CatalogIInv'
  <2> DEFINE t == [NoTask EXCEPT !.op = "rename", !.company = c, !.old = company[c], !.name = n]
  <2>1. company[c] \in Names
    BY <1>2 DEF RenameCheck, Listed
  <2>2. t \in Task /\ TaskHonest(t)
    BY <2>1, NoTaskHonest DEF NoTask, Task, TaskHonest
  <2>3. Asks(w, t) /\ UNCHANGED catalogRows
    BY <1>2 DEF RenameCheck
  <2> QED
    BY <2>2, <2>3, ReadingStep
<1>3. ASSUME NEW c \in Companies, CloseCheck(w, c)
      PROVE  CatalogIInv'
  <2> DEFINE t == [NoTask EXCEPT !.op = "close", !.company = c]
  <2>1. t \in Task /\ TaskHonest(t)
    BY NoTaskHonest DEF NoTask, Task, TaskHonest
  <2>2. Asks(w, t) /\ UNCHANGED catalogRows
    BY <1>3 DEF CloseCheck
  <2> QED
    BY <2>1, <2>2, ReadingStep
<1>4. ASSUME NEW p \in Draft, PostCheck(w, p)
      PROVE  CatalogIInv'
  <2> DEFINE t == [NoTask EXCEPT !.op = "post", !.target = p]
  <2>1. Ordered(p) /\ p \in Posting
    BY <1>4 DEF PostCheck, Draft, Posting
  <2>2. t \in Task
    BY <2>1, NoTaskHonest DEF NoTask, Task
  <2>3. t.op = "post" /\ t.target = p
    BY NoTaskHonest DEF Task
  <2>4. Asks(w, t) /\ UNCHANGED catalogRows
    BY <1>4 DEF PostCheck
  <2> HIDE DEF t
  <2>5. TaskHonest(t)
    BY <2>1, <2>3 DEF TaskHonest
  <2> QED
    BY <2>2, <2>4, <2>5, ReadingStep
<1>5. ASSUME NEW p \in Draft, NEW j \in Postings, EditCheck(w, j, p)
      PROVE  CatalogIInv'
  <2> DEFINE t == [NoTask EXCEPT !.op = "edit", !.posting = j, !.seen = job[j], !.target = p]
  <2>1. p \in Posting /\ job[j] \in Posting
    BY DEF Draft, Posting, CatalogIInv, CatalogSound, CatalogTypeOK
  <2>2. t \in Task
    BY <2>1, NoTaskHonest DEF NoTask, Task
  <2>3. t.op = "edit" /\ t.target = p /\ t.posting = j
    BY NoTaskHonest DEF Task
  <2>4. Asks(w, t) /\ UNCHANGED catalogRows
    BY <1>5 DEF EditCheck
  <2> HIDE DEF t
  <2>5. TaskHonest(t)
    BY <2>3 DEF TaskHonest
  <2> QED
    BY <2>2, <2>4, <2>5, ReadingStep
<1>6. ASSUME NEW j \in Postings, RemoveCheck(w, j)
      PROVE  CatalogIInv'
  <2> DEFINE t == [NoTask EXCEPT !.op = "remove", !.posting = j]
  <2>1. t \in Task /\ TaskHonest(t)
    BY NoTaskHonest DEF NoTask, Task, TaskHonest
  <2>2. Asks(w, t) /\ UNCHANGED catalogRows
    BY <1>6 DEF RemoveCheck
  <2> QED
    BY <2>1, <2>2, ReadingStep
<1>7. CASE GiveUp(w)
  BY <1>7, NoTaskHonest, ReadingStep DEF GiveUp, Answers
<1> QED
  BY <1>1, <1>2, <1>3, <1>4, <1>5, <1>6, <1>7

\* A company gets a name that nobody else has.
LEMMA NamedStep ==
    ASSUME CatalogIInv, NEW c \in Companies, NEW n \in Names,
           company' = [company EXCEPT ![c] = n], NameFree(c, n),
           UNCHANGED <<user, job, applied>>, user,
           task' \in [Clients -> Task], TasksHonest'
    PROVE  CatalogIInv'
<1>1. /\ company' \in [Companies -> CompanyRow]
      /\ company'[c] = n
      /\ \A d \in Companies \ {c} : company'[d] = company[d]
  BY DEF CatalogIInv, CatalogSound, CatalogTypeOK, CompanyRow
<1>2. \A d \in Companies : Listed(d) => Listed(d)'
  BY <1>1 DEF Listed
<1>3. CatalogTypeOK'
  BY <1>1 DEF CatalogIInv, CatalogSound, CatalogTypeOK
<1>4. ASSUME NEW d \in Companies, NEW e \in Companies, d # e, Listed(d)', Listed(e)'
      PROVE  Lower[company'[d]] # Lower[company'[e]]
  <2>1. CASE d # c /\ e # c
    BY <1>1, <1>4, <2>1 DEF CatalogIInv, CatalogSound, Listed
  <2>2. CASE d = c
    BY <1>1, <1>4, <2>2 DEF NameFree, Listed
  <2>3. CASE e = c
    BY <1>1, <1>4, <2>3 DEF NameFree, Listed
  <2> QED
    BY <2>1, <2>2, <2>3
<1>5. ASSUME NEW j \in Postings, Open(j)'
      PROVE  Listed(job[j].company)' /\ Ordered(job[j])'
  <2>1. Open(j) /\ job'[j] = job[j]
    BY <1>5 DEF Open
  <2>2. job[j].company \in Companies /\ Listed(job[j].company) /\ Ordered(job[j])
    BY <2>1 DEF CatalogIInv, CatalogSound, Open
  <2> QED
    BY <1>2, <2>1, <2>2 DEF Ordered, Listed
<1>6. applied' \subseteq {j \in Postings : Open(j)'}
  BY DEF CatalogIInv, CatalogSound, Open
<1> QED
  BY <1>3, <1>4, <1>5, <1>6 DEF CatalogIInv, CatalogSound

\* A job that exists, or did not yet, gets a row that is in order and of a listed
\* company.
LEMMA PostedStep ==
    ASSUME CatalogIInv, NEW j \in Postings, NEW p \in Draft, Listed(p.company), Ordered(p),
           job' = [job EXCEPT ![j] = p], UNCHANGED <<user, company, applied>>,
           task' \in [Clients -> Task], TasksHonest'
    PROVE  CatalogIInv'
<1>1. p \in Posting /\ p.company \in Companies
  BY DEF Draft, Posting
<1>2. /\ job' \in [Postings -> Posting]
      /\ job'[j] = p
      /\ \A k \in Postings \ {j} : job'[k] = job[k]
  BY <1>1 DEF CatalogIInv, CatalogSound, CatalogTypeOK
<1>3. CatalogTypeOK'
  BY <1>2 DEF CatalogIInv, CatalogSound, CatalogTypeOK
<1>4. ASSUME NEW k \in Postings, Open(k)'
      PROVE  Listed(job[k].company)' /\ Ordered(job[k])'
  <2>1. CASE k = j
    BY <1>2, <2>1 DEF Listed, Ordered
  <2>2. CASE k # j
    <3>1. Open(k) /\ job'[k] = job[k]
      BY <1>2, <1>4, <2>2 DEF Open
    <3>2. Listed(job[k].company) /\ Ordered(job[k])
      BY <3>1 DEF CatalogIInv, CatalogSound
    <3> QED
      BY <3>1, <3>2 DEF Listed, Ordered
  <2> QED
    BY <2>1, <2>2
<1>5. \A k \in Postings : Open(k) => Open(k)'
  BY <1>1, <1>2 DEF Open
<1>6. applied' \subseteq {k \in Postings : Open(k)'}
  BY <1>5 DEF CatalogIInv, CatalogSound
<1> QED
  BY <1>3, <1>4, <1>6 DEF CatalogIInv, CatalogSound, Listed

\* What the requests write to companies.
LEMMA CompaniesStep ==
    ASSUME CatalogIInv, NEW w \in Clients,
           (\E c \in Companies : AddCompany(w, c)) \/ RenameCompany(w) \/ CloseCompany(w)
    PROVE  CatalogIInv'
<1>1. task[w] \in Task /\ TaskHonest(task[w])
  BY DEF CatalogIInv, CatalogSound, CatalogTypeOK, TasksHonest
<1>2. task' \in [Clients -> Task] /\ TasksHonest'
  BY NoTaskHonest, AsksStep DEF AddCompany, RenameCompany, CloseCompany, Answers
<1>3. CASE UNCHANGED catalogRows
  BY <1>2, <1>3, RowsStay
<1>4. ASSUME NEW c \in Companies, AddCompany(w, c), ~UNCHANGED catalogRows
      PROVE  CatalogIInv'
  <2>1. /\ user /\ NameFree(c, task[w].name)
        /\ company' = [company EXCEPT ![c] = task[w].name]
        /\ UNCHANGED <<user, job, applied>>
    BY <1>4 DEF AddCompany, catalogRows
  <2>2. task[w].name \in Names
    BY <1>1, <1>4 DEF AddCompany, TaskHonest
  <2> QED
    BY <1>2, <2>1, <2>2, NamedStep
<1>5. CASE RenameCompany(w) /\ ~UNCHANGED catalogRows
  <2> DEFINE c == task[w].company
  <2>1. /\ Listed(c) /\ NameFree(c, task[w].name)
        /\ company' = [company EXCEPT ![c] = task[w].name]
        /\ UNCHANGED <<user, job, applied>>
    BY <1>5 DEF RenameCompany, catalogRows
  <2>2. task[w].name \in Names /\ c \in Companies
    BY <1>1, <1>5 DEF RenameCompany, TaskHonest
  <2>3. user
    BY <2>1, <2>2 DEF CatalogIInv, CatalogSound
  <2> HIDE DEF c
  <2> QED
    BY <1>2, <2>1, <2>2, <2>3, NamedStep
<1>6. CASE CloseCompany(w) /\ ~UNCHANGED catalogRows
  <2> DEFINE c == task[w].company
  <2>1. /\ ~HasJobs(c)
        /\ company' = [company EXCEPT ![c] = "deleted"]
        /\ UNCHANGED <<user, job, applied>>
    BY <1>6 DEF CloseCompany, catalogRows
  <2>2. c \in Companies
    BY <1>1, <1>6 DEF CloseCompany, TaskHonest
  <2> HIDE DEF c
  <2>3. /\ company' \in [Companies -> CompanyRow]
        /\ \A d \in Companies \ {c} : company'[d] = company[d]
        /\ company'[c] = "deleted"
    BY <2>1, <2>2 DEF CatalogIInv, CatalogSound, CatalogTypeOK, CompanyRow
  <2>4. \A d \in Companies : Listed(d)' => Listed(d) /\ d # c /\ company'[d] = company[d]
    BY <2>3, Marks DEF Listed
  <2>5. \A j \in Postings : Open(j)' = Open(j) /\ (Open(j) => job[j].company # c)
    BY <2>1 DEF HasJobs, Open
  <2>6. CatalogTypeOK'
    BY <1>2, <2>1, <2>3 DEF CatalogIInv, CatalogSound, CatalogTypeOK
  <2>7. ASSUME NEW j \in Postings, Open(j)'
        PROVE  Listed(job[j].company)' /\ Ordered(job[j])'
    <3>1. Open(j) /\ job[j].company \in Companies \ {c} /\ job'[j] = job[j]
      BY <2>1, <2>5, <2>7 DEF Open
    <3>2. Listed(job[j].company) /\ Ordered(job[j])
      BY <3>1 DEF CatalogIInv, CatalogSound
    <3> QED
      BY <2>3, <3>1, <3>2 DEF Listed, Ordered
  <2>8. \A d, e \in Companies :
           d # e /\ Listed(d)' /\ Listed(e)' => Lower[company'[d]] # Lower[company'[e]]
    BY <2>4 DEF CatalogIInv, CatalogSound
  <2>9. /\ applied' \subseteq {j \in Postings : Open(j)'}
        /\ ~user' => \A d \in Companies : ~Listed(d)'
    BY <2>1, <2>4, <2>5 DEF CatalogIInv, CatalogSound
  <2> QED
    BY <1>2, <2>6, <2>7, <2>8, <2>9 DEF CatalogIInv, CatalogSound
<1> QED
  BY <1>3, <1>4, <1>5, <1>6

\* What the requests write to jobs.
LEMMA JobsStep ==
    ASSUME CatalogIInv, NEW w \in Clients,
           (\E j \in Postings : PostJob(w, j)) \/ EditJob(w) \/ RemoveJob(w)
    PROVE  CatalogIInv'
<1>1. task[w] \in Task /\ TaskHonest(task[w])
  BY DEF CatalogIInv, CatalogSound, CatalogTypeOK, TasksHonest
<1>2. task' \in [Clients -> Task] /\ TasksHonest'
  BY NoTaskHonest, AsksStep DEF PostJob, EditJob, RemoveJob, Answers
<1>3. CASE UNCHANGED catalogRows
  BY <1>2, <1>3, RowsStay
<1>4. ASSUME NEW j \in Postings, PostJob(w, j), ~UNCHANGED catalogRows
      PROVE  CatalogIInv'
  <2>1. /\ Listed(task[w].target.company)
        /\ job' = [job EXCEPT ![j] = task[w].target]
        /\ UNCHANGED <<user, company, applied>>
    BY <1>4 DEF PostJob, catalogRows
  <2>2. task[w].target \in Draft /\ Ordered(task[w].target)
    BY <1>1, <1>4 DEF PostJob, TaskHonest
  <2> QED
    BY <1>2, <2>1, <2>2, PostedStep
<1>5. CASE EditJob(w) /\ ~UNCHANGED catalogRows
  <2> DEFINE j == task[w].posting
             p == Patched(job[j], task[w].seen, task[w].target)
  <2>1. /\ Open(j) /\ Listed(p.company) /\ Ordered(p)
        /\ job' = [job EXCEPT ![j] = p]
        /\ UNCHANGED <<user, company, applied>>
    BY <1>5 DEF EditJob, catalogRows, RangeOK
  <2>2. j \in Postings /\ task[w].target \in Draft
    BY <1>1, <1>5 DEF EditJob, TaskHonest
  <2>3. p \in Draft
    <3>1. job[j] \in Posting /\ job[j].company \in Companies
      BY <2>1, <2>2 DEF CatalogIInv, CatalogSound, CatalogTypeOK, Open
    <3> QED
      BY <2>2, <3>1 DEF Patched, Flushed, Draft, Posting
  <2> HIDE DEF j, p
  <2> QED
    BY <1>2, <2>1, <2>2, <2>3, PostedStep
<1>6. CASE RemoveJob(w) /\ ~UNCHANGED catalogRows
  <2> DEFINE j == task[w].posting
  <2>1. /\ j \notin applied
        /\ job' = [job EXCEPT ![j] = Gone]
        /\ UNCHANGED <<user, company, applied>>
    BY <1>6 DEF RemoveJob, catalogRows
  <2>2. j \in Postings
    BY <1>1, <1>6 DEF RemoveJob, TaskHonest
  <2>3. Gone \in Posting /\ Gone.company \notin Companies
    BY Marks DEF Gone, NoPosting, Posting, Pay
  <2> HIDE DEF j
  <2>4. /\ job' \in [Postings -> Posting]
        /\ job'[j] = Gone
        /\ \A k \in Postings \ {j} : job'[k] = job[k]
    BY <2>1, <2>2, <2>3 DEF CatalogIInv, CatalogSound, CatalogTypeOK
  <2>5. \A k \in Postings : Open(k)' <=> Open(k) /\ k # j
    BY <2>3, <2>4 DEF Open
  <2>6. CatalogTypeOK'
    BY <1>2, <2>1, <2>4 DEF CatalogIInv, CatalogSound, CatalogTypeOK
  <2>7. ASSUME NEW k \in Postings, Open(k)'
        PROVE  Listed(job[k].company)' /\ Ordered(job[k])'
    <3>1. Open(k) /\ job'[k] = job[k]
      BY <2>4, <2>5, <2>7
    <3>2. Listed(job[k].company) /\ Ordered(job[k])
      BY <3>1 DEF CatalogIInv, CatalogSound
    <3> QED
      BY <2>1, <3>1, <3>2 DEF Listed, Ordered
  <2>8. applied' \subseteq {k \in Postings : Open(k)'}
    BY <2>1, <2>5 DEF CatalogIInv, CatalogSound
  <2> QED
    BY <1>2, <2>1, <2>6, <2>7, <2>8 DEF CatalogIInv, CatalogSound, Listed
<1> QED
  BY <1>3, <1>4, <1>5, <1>6

\* Applications come and go, and the user with everything of theirs.
LEMMA AroundStep ==
    ASSUME CatalogIInv,
           (\E j \in Postings : Apply(j) \/ Withdraw(j)) \/ DeleteOwner
    PROVE  CatalogIInv'
<1>1. task' \in [Clients -> Task] /\ TasksHonest'
  BY DEF CatalogIInv, CatalogSound, CatalogTypeOK, TasksHonest, Apply, Withdraw, DeleteOwner
<1>2. ASSUME NEW j \in Postings, Apply(j) \/ Withdraw(j)
      PROVE  CatalogIInv'
  <2>1. UNCHANGED <<user, company, job>>
    BY <1>2 DEF Apply, Withdraw
  <2>2. applied' \subseteq {k \in Postings : Open(k)}
    BY <1>2 DEF Apply, Withdraw, CatalogIInv, CatalogSound
  <2> QED
    BY <1>1, <2>1, <2>2
    DEF CatalogIInv, CatalogSound, CatalogTypeOK, Listed, Open, Ordered
<1>3. CASE DeleteOwner
  <2>1. /\ user' = FALSE /\ applied' = {}
        /\ company' = [c \in Companies |-> IF Listed(c) THEN "deleted" ELSE company[c]]
        /\ job' = [j \in Postings |-> IF Open(j) THEN Gone ELSE job[j]]
    BY <1>3 DEF DeleteOwner
  <2>2. Gone \in Posting /\ Gone.company \notin Companies
    BY Marks DEF Gone, NoPosting, Posting, Pay
  <2>3. \A c \in Companies : ~Listed(c)'
    BY <2>1, Marks DEF Listed
  <2>4. \A j \in Postings : ~Open(j)'
    BY <2>1, <2>2 DEF Open
  <2>5. company' \in [Companies -> CompanyRow] /\ job' \in [Postings -> Posting]
    BY <2>1, <2>2 DEF CatalogIInv, CatalogSound, CatalogTypeOK, CompanyRow
  <2>6. CatalogTypeOK'
    BY <1>1, <2>1, <2>5 DEF CatalogTypeOK
  <2> QED
    BY <1>1, <2>1, <2>3, <2>4, <2>6 DEF CatalogIInv, CatalogSound
<1> QED
  BY <1>2, <1>3

\* Every step keeps the invariant.
LEMMA CatalogStep == CatalogIInv /\ [CatalogNext]_catalogVars => CatalogIInv'
<1> SUFFICES ASSUME CatalogIInv, [CatalogNext]_catalogVars
             PROVE  CatalogIInv'
  OBVIOUS
<1>1. CASE UNCHANGED catalogVars
  <2>1. UNCHANGED catalogRows /\ UNCHANGED task
    BY <1>1 DEF catalogVars, catalogRows
  <2> QED
    BY <2>1, RowsStay DEF CatalogIInv, CatalogSound, CatalogTypeOK, TasksHonest
<1> QED
  BY <1>1, ChecksStep, CompaniesStep, JobsStep, AroundStep DEF CatalogNext

\* Companies and jobs stay sound for any number of requests (company_service.py,
\* job_service.py and the constraints of models/company.py and models/job.py).
THEOREM CatalogIsSound == CatalogSpec => []CatalogSound
<1>1. CatalogIInv => CatalogSound
  BY DEF CatalogIInv
<1> QED
  BY <1>1, CatalogStarts, CatalogStep, PTL DEF CatalogSpec

\* TablesSound for any number of rows and requests of the two parts, however
\* their steps interleave.
THEOREM TablesAreSound == Spec /\ CatalogSpec => []TablesSound
<1>1. CatalogSound /\ NothingOrphaned /\ OnePerJob => TablesSound
  BY DEF TablesSound
<1> QED
  BY <1>1, CatalogIsSound, NoOrphans, OneApplicationPerJob, PTL

----------------------------------------------------------------------------
(* Lists in pages.                                                         *)

\* What the variables of a list range over.
ListTyped ==
    /\ sorting \in Sortings
    /\ rank \in [Entries -> 0..LastRank]
    /\ walk \in [at : {"asked", "counted", "read", "over"}, page : Nat \ {0}, total : Nat]
    /\ steady \subseteq List

\* The place of a row in the order is the number of rows ahead of it.
AheadOf(v) == {u \in List : Ahead(u, v)}
PlaceOf(v) == Cardinality(AheadOf(v))

\* The rows on the pages that were read.
RowsRead == (IF walk.at \in {"asked", "counted"} THEN walk.page - 1 ELSE walk.page) * PageSize

\* A row that was shown is among those read, as long as none came in ahead.
ShownBehind ==
    \A v \in steady : (\A u \in come : ~Ahead(u, v)) =>
       v \notin twice /\ (v \in shown => PlaceOf(v) < RowsRead)

\* A row that was not shown is still to be read, as long as nothing came in or
\* left ahead of it; and it was counted.
MissingAhead ==
    \A v \in steady : v \notin shown /\ (\A u \in gone \cup come : ~Ahead(u, v)) =>
       /\ walk.at # "over"
       /\ RowsRead <= PlaceOf(v)
       /\ walk.at # "asked" => PlaceOf(v) < walk.total

ListInv == ListTyped /\ ShownBehind /\ MissingAhead

\* What a list consists of.
LEMMA ListRows ==
    ASSUME ListTyped
    PROVE  /\ List \subseteq Version
           /\ \A u \in Version : u \in List <=> rank[u.entry] = u.rank
           /\ \A u, v \in List : u.entry = v.entry => u = v
<1>1. \A e \in Entries : rank[e] # Unlisted =>
         /\ [entry |-> e, rank |-> rank[e]] \in Version
         /\ [entry |-> e, rank |-> rank[e]].entry = e
         /\ [entry |-> e, rank |-> rank[e]].rank = rank[e]
  BY ListingAssumption DEF ListTyped, Version, Unlisted
<1>2. ASSUME NEW u \in List
      PROVE  u \in Version /\ rank[u.entry] = u.rank /\ u = [entry |-> u.entry, rank |-> u.rank]
  <2>1. PICK e \in Entries : rank[e] # Unlisted /\ u = [entry |-> e, rank |-> rank[e]]
    BY DEF List
  <2> QED
    BY <1>1, <2>1
<1>3. ASSUME NEW u \in Version, rank[u.entry] = u.rank
      PROVE  u \in List
  <2>1. u.entry \in Entries /\ u.rank # Unlisted /\ u = [entry |-> u.entry, rank |-> u.rank]
    BY ListingAssumption DEF Version, Unlisted
  <2> QED
    BY <1>3, <2>1 DEF List
<1>4. ASSUME NEW u \in List, NEW v \in List, u.entry = v.entry
      PROVE  u = v
  BY <1>2, <1>4
<1> QED
  BY <1>2, <1>3, <1>4

\* ORDER BY with its tie-breaker is a strict order in which any two rows of a
\* list compare.
LEMMA AheadOrders ==
    ASSUME ListTyped, NEW u \in List, NEW v \in List
    PROVE  ~Ahead(u, u) /\ (u # v => Ahead(u, v) \/ Ahead(v, u))
<1>1. /\ sorting.column \in {"asc", "desc"} /\ sorting.id \in {"asc", "desc"}
  BY DEF ListTyped, Sortings, ByColumn, NewestFirst, ByStart
<1>2. u.entry \in Int /\ u.rank \in Int /\ v.entry \in Int /\ v.rank \in Int
  BY ListRows, ListingAssumption DEF Version, Entries
<1>3. u # v => u.entry # v.entry
  BY ListRows
<1>4. ~Ahead(u, u)
  BY <1>2 DEF Ahead, Before
<1>5. u.entry # v.entry => Ahead(u, v) \/ Ahead(v, u)
  BY <1>1, <1>2 DEF Ahead, Before
<1> QED
  BY <1>3, <1>4, <1>5

\* A list can be counted.
LEMMA ListFinite ==
    ASSUME ListTyped
    PROVE  IsFiniteSet(List) /\ Cardinality(List) \in Nat
<1> DEFINE listed == {e \in Entries : rank[e] # Unlisted}
           row == [e \in listed |-> [entry |-> e, rank |-> rank[e]]]
<1>1. IsFiniteSet(Entries)
  BY FS_Interval, ListingAssumption DEF Entries
<1>2. IsFiniteSet(listed)
  BY <1>1, FS_Subset
<1>3. row \in Surjection(listed, List)
  BY DEF Surjection, List
<1> QED
  BY <1>2, <1>3, FS_Surjection, FS_CardinalityType

\* A row has fewer rows ahead of it than the list has.
LEMMA PlaceType ==
    ASSUME ListTyped, NEW v \in List
    PROVE  /\ IsFiniteSet(AheadOf(v))
           /\ PlaceOf(v) \in Nat /\ PlaceOf(v) < Cardinality(List)
<1>1. AheadOf(v) \subseteq List /\ v \notin AheadOf(v)
  BY AheadOrders DEF AheadOf
<1>2. IsFiniteSet(AheadOf(v)) /\ PlaceOf(v) <= Cardinality(List) /\ AheadOf(v) # List
      /\ (PlaceOf(v) = Cardinality(List) => AheadOf(v) = List)
  BY <1>1, ListFinite, FS_Subset DEF PlaceOf
<1>3. PlaceOf(v) \in Nat
  BY <1>2, FS_CardinalityType DEF PlaceOf
<1> QED
  BY <1>2, <1>3, ListFinite

\* In any order that a statement may return, a row comes after those ahead of it.
LEMMA PlaceInOrder ==
    ASSUME ListTyped, NEW s \in Orders(List), NEW i \in 1..Cardinality(List)
    PROVE  s[i] \in List /\ PlaceOf(s[i]) = i - 1
<1> DEFINE n == Cardinality(List)
           v == s[i]
<1>1. /\ n \in Nat
      /\ s \in [1..n -> List]
      /\ \A j, k \in 1..n : s[j] = s[k] => j = k
      /\ \A u \in List : \E j \in 1..n : s[j] = u
      /\ \A j, k \in 1..n : j < k => ~Ahead(s[k], s[j])
  BY ListFinite DEF Orders, Bijection, Injection, IsInjective, Surjection
<1> HIDE DEF n
<1>2. i \in 1..n /\ i \in Nat /\ v \in List /\ 1..(i - 1) \subseteq 1..n
  BY <1>1 DEF n
<1>3. \A j \in 1..(i - 1) : s[j] \in AheadOf(v)
  <2> SUFFICES ASSUME NEW j \in 1..(i - 1)
               PROVE  s[j] \in List /\ Ahead(s[j], v)
    BY DEF AheadOf
  <2>1. j \in 1..n /\ j < i /\ s[j] \in List /\ s[j] # v
    BY <1>1, <1>2
  <2>2. ~Ahead(v, s[j])
    BY <1>1, <1>2, <2>1
  <2> QED
    BY <1>2, <2>1, <2>2, AheadOrders
<1>4. \A u \in AheadOf(v) : \E j \in 1..(i - 1) : s[j] = u
  <2> SUFFICES ASSUME NEW u \in List, Ahead(u, v)
               PROVE  \E j \in 1..(i - 1) : s[j] = u
    BY DEF AheadOf
  <2>1. PICK j \in 1..n : s[j] = u
    BY <1>1
  <2>2. j # i
    BY <1>2, <2>1, AheadOrders
  <2>3. ~(i < j)
    BY <1>1, <1>2, <2>1
  <2> QED
    BY <1>1, <1>2, <2>1, <2>2, <2>3
<1> DEFINE first == [j \in 1..(i - 1) |-> s[j]]
<1>5. first \in Bijection(1..(i - 1), AheadOf(v))
  <2>1. first \in [1..(i - 1) -> AheadOf(v)]
    BY <1>3
  <2>2. \A j, k \in 1..(i - 1) : first[j] = first[k] => j = k
    BY <1>1, <1>2
  <2>3. \A u \in AheadOf(v) : \E j \in 1..(i - 1) : first[j] = u
    BY <1>4
  <2> QED
    BY <2>1, <2>2, <2>3 DEF Bijection, Injection, IsInjective, Surjection
<1>6. IsFiniteSet(1..(i - 1)) /\ Cardinality(1..(i - 1)) = i - 1
  BY <1>2, FS_Interval
<1>7. Cardinality(AheadOf(v)) = Cardinality(1..(i - 1))
  BY <1>5, <1>6, FS_Bijection DEF ExistsBijection
<1> QED
  BY <1>2, <1>6, <1>7 DEF PlaceOf

\* A page has the rows at its places.
LEMMA PageRows ==
    ASSUME ListTyped, NEW s \in Orders(List), NEW n \in Nat \ {0}, NEW v \in List
    PROVE  v \in Page(s, n) <=> (n - 1) * PageSize <= PlaceOf(v) /\ PlaceOf(v) < n * PageSize
<1>1. DOMAIN s = 1..Cardinality(List) /\ \A u \in List : \E i \in DOMAIN s : s[i] = u
  BY DEF Orders, Bijection, Surjection
<1>2. PICK i \in 1..Cardinality(List) : s[i] = v
  BY <1>1
<1>3. PlaceOf(v) = i - 1 /\ i \in Nat /\ i > 0
  BY <1>2, PlaceInOrder, ListFinite
<1>4. v \in Page(s, n) => (n - 1) * PageSize < i /\ i <= n * PageSize
  <2> SUFFICES ASSUME v \in Page(s, n)
               PROVE  (n - 1) * PageSize < i /\ i <= n * PageSize
    OBVIOUS
  <2>1. PICK j \in DOMAIN s : s[j] = v /\ (n - 1) * PageSize < j /\ j <= n * PageSize
    BY DEF Page
  <2>2. PlaceOf(v) = j - 1 /\ j \in Nat
    BY <1>1, <2>1, PlaceInOrder, ListFinite
  <2>3. i = j
    BY <1>3, <2>2
  <2> QED
    BY <2>1, <2>3
<1>5. (n - 1) * PageSize < i /\ i <= n * PageSize => v \in Page(s, n)
  BY <1>1, <1>2 DEF Page
<1>6. (n - 1) * PageSize \in Nat /\ n * PageSize \in Nat
  BY ListingAssumption
<1> QED
  BY <1>3, <1>4, <1>5, <1>6

\* The number of rows read, page by page.
LEMMA RowsReadType ==
    ASSUME ListTyped
    PROVE  /\ RowsRead \in Nat
           /\ walk.page * PageSize = (walk.page - 1) * PageSize + PageSize
           /\ (walk.page - 1) * PageSize \in Nat /\ walk.page * PageSize \in Nat
  BY ListingAssumption DEF ListTyped, RowsRead

\* At first nothing was shown and nothing has changed.
LEMMA ListStarts == ListingInit => ListInv
<1> SUFFICES ASSUME ListingInit
             PROVE  ListInv
  OBVIOUS
<1>1. /\ walk.at = "asked" /\ walk.page = 1 /\ walk.total = 0
      /\ shown = {} /\ twice = {} /\ steady = List
  BY DEF ListingInit
<1>2. ListTyped
  BY DEF ListingInit, ListTyped
<1>3. RowsRead = 0
  BY <1>1, ListingAssumption DEF RowsRead
<1>4. \A v \in steady : PlaceOf(v) \in Nat
  BY <1>1, <1>2, PlaceType
<1> QED
  BY <1>1, <1>2, <1>3, <1>4 DEF ListInv, ShownBehind, MissingAhead

\* Counting: whatever is in the list is counted.
LEMMA CountRowsStep == ListInv /\ CountRows => ListInv'
<1> SUFFICES ASSUME ListInv, CountRows
             PROVE  ListInv'
  OBVIOUS
<1>1. /\ walk.at = "asked" /\ ListTyped
      /\ walk' = [walk EXCEPT !.at = "counted", !.total = Cardinality(List)]
      /\ UNCHANGED <<sorting, rank, steady, gone, come, shown, twice>>
  BY DEF CountRows, changes, ListInv
<1>2. /\ walk'.at = "counted" /\ walk'.page = walk.page /\ walk'.total = Cardinality(List)
      /\ Cardinality(List) \in Nat
  BY <1>1, ListFinite DEF ListTyped
<1>3. ListTyped'
  BY <1>1, <1>2, ListFinite DEF ListTyped, List
<1>4. \A u, v : Ahead(u, v)' <=> Ahead(u, v)
  BY <1>1 DEF Ahead
<1>5. \A v : PlaceOf(v)' = PlaceOf(v)
  BY <1>1 DEF PlaceOf, AheadOf, List, Ahead
<1>6. RowsRead' = RowsRead
  BY <1>1, <1>2 DEF RowsRead
<1>7. \A v \in steady : PlaceOf(v) < Cardinality(List)
  BY <1>1, PlaceType DEF ListTyped
<1>8. ShownBehind'
  BY <1>1, <1>4, <1>5, <1>6 DEF ListInv, ShownBehind
<1>9. MissingAhead'
  BY <1>1, <1>2, <1>4, <1>5, <1>6, <1>7 DEF ListInv, MissingAhead
<1> QED
  BY <1>3, <1>8, <1>9 DEF ListInv

\* Reading a page: the rows at its places, of which none was shown before.
LEMMA ReadPageStep == ListInv /\ ReadPage => ListInv'
<1> SUFFICES ASSUME ListInv, ReadPage
             PROVE  ListInv'
  OBVIOUS
<1> DEFINE n == walk.page
<1>1. /\ walk.at = "counted" /\ ListTyped
      /\ walk' = [walk EXCEPT !.at = "read"]
      /\ UNCHANGED <<sorting, rank, steady, gone, come>>
  BY DEF ReadPage, changes, ListInv
<1>2. PICK s \in Orders(List) :
         /\ shown' = shown \cup Page(s, n)
         /\ twice' = twice \cup (shown \cap Page(s, n))
  BY DEF ReadPage
<1>3. walk'.at = "read" /\ walk'.page = n /\ walk'.total = walk.total /\ n \in Nat \ {0}
  BY <1>1 DEF ListTyped
<1>4. ListTyped'
  BY <1>1, <1>3 DEF ListTyped, List
<1>5. \A u, v : Ahead(u, v)' <=> Ahead(u, v)
  BY <1>1 DEF Ahead
<1>6. \A v : PlaceOf(v)' = PlaceOf(v)
  BY <1>1 DEF PlaceOf, AheadOf, List, Ahead
<1>7. RowsRead = (n - 1) * PageSize /\ RowsRead' = n * PageSize
  BY <1>1, <1>3 DEF RowsRead
<1>8. /\ RowsRead \in Nat /\ RowsRead' \in Nat /\ RowsRead <= RowsRead'
  BY <1>1, <1>7, RowsReadType, ListingAssumption
<1>9. \A v \in steady :
         /\ PlaceOf(v) \in Nat
         /\ v \in Page(s, n) <=> RowsRead <= PlaceOf(v) /\ PlaceOf(v) < RowsRead'
  BY <1>1, <1>3, <1>7, PageRows, PlaceType DEF ListTyped
<1>10. ShownBehind'
  <2> SUFFICES ASSUME NEW v \in steady, \A u \in come : ~Ahead(u, v)
               PROVE  v \notin twice' /\ (v \in shown' => PlaceOf(v) < RowsRead')
    BY <1>1, <1>5, <1>6 DEF ShownBehind
  <2>1. v \notin twice /\ (v \in shown => PlaceOf(v) < RowsRead)
    BY DEF ListInv, ShownBehind
  <2>2. ~(v \in shown /\ v \in Page(s, n))
    BY <1>8, <1>9, <2>1
  <2>3. v \in shown' => PlaceOf(v) < RowsRead'
    BY <1>2, <1>8, <1>9, <2>1
  <2> QED
    BY <1>2, <2>1, <2>2, <2>3
<1>11. MissingAhead'
  <2> SUFFICES ASSUME NEW v \in steady, v \notin shown',
                      \A u \in gone \cup come : ~Ahead(u, v)
               PROVE  RowsRead' <= PlaceOf(v) /\ PlaceOf(v) < walk.total
    BY <1>1, <1>3, <1>5, <1>6 DEF MissingAhead
  <2>1. v \notin shown /\ v \notin Page(s, n)
    BY <1>2
  <2>2. RowsRead <= PlaceOf(v) /\ PlaceOf(v) < walk.total
    BY <1>1, <2>1 DEF ListInv, MissingAhead
  <2> QED
    BY <1>8, <1>9, <2>1, <2>2
<1> QED
  BY <1>4, <1>10, <1>11 DEF ListInv

\* Turning: the client stops only after the last row that was counted.
LEMMA TurnPageStep == ListInv /\ TurnPage => ListInv'
<1> SUFFICES ASSUME ListInv, TurnPage
             PROVE  ListInv'
  OBVIOUS
<1> DEFINE n == walk.page
<1>1. /\ walk.at = "read" /\ ListTyped
      /\ UNCHANGED <<sorting, rank, steady, gone, come, shown, twice>>
  BY DEF TurnPage, changes, ListInv
<1>2. /\ n \in Nat \ {0} /\ walk.total \in Nat
      /\ walk'.at \in {"asked", "over"} /\ walk'.total = walk.total
      /\ walk'.page \in Nat \ {0}
      /\ walk'.at = "asked" => walk'.page = n + 1
      /\ walk'.at = "over" => walk'.page = n /\ ~(n * PageSize < walk.total)
      /\ walk' \in [at : {"asked", "counted", "read", "over"}, page : Nat \ {0}, total : Nat]
  <2>1. n \in Nat \ {0} /\ walk.total \in Nat
    BY <1>1 DEF ListTyped
  <2>2. CASE n * PageSize < walk.total
    <3> DEFINE next == [walk EXCEPT !.at = "asked", !.page = n + 1]
    <3>1. walk' = next
      BY <2>2 DEF TurnPage
    <3>2. n + 1 \in Nat \ {0}
      BY <2>1
    <3>3. next.at = "asked" /\ next.page = n + 1 /\ next.total = walk.total
      BY <1>1 DEF ListTyped
    <3>4. next \in [at : {"asked", "counted", "read", "over"}, page : Nat \ {0}, total : Nat]
      BY <1>1, <3>2 DEF ListTyped
    <3> HIDE DEF next
    <3> QED
      BY <2>1, <3>1, <3>2, <3>3, <3>4
  <2>3. CASE ~(n * PageSize < walk.total)
    BY <1>1, <2>1, <2>3 DEF TurnPage, ListTyped
  <2> QED
    BY <2>2, <2>3
<1>3. ListTyped'
  BY <1>1, <1>2 DEF ListTyped, List
<1>4. \A u, v : Ahead(u, v)' <=> Ahead(u, v)
  BY <1>1 DEF Ahead
<1>5. \A v : PlaceOf(v)' = PlaceOf(v)
  BY <1>1 DEF PlaceOf, AheadOf, List, Ahead
<1>6. RowsRead = n * PageSize /\ RowsRead' = n * PageSize /\ RowsRead \in Nat
  BY <1>1, <1>2, ListingAssumption DEF RowsRead
<1>7. \A v \in steady : PlaceOf(v) \in Nat
  BY <1>1, PlaceType DEF ListTyped
<1>8. ShownBehind'
  BY <1>1, <1>4, <1>5, <1>6 DEF ListInv, ShownBehind
<1>9. MissingAhead'
  <2> SUFFICES ASSUME NEW v \in steady, v \notin shown,
                      \A u \in gone \cup come : ~Ahead(u, v)
               PROVE  walk'.at # "over" /\ RowsRead <= PlaceOf(v)
    BY <1>1, <1>2, <1>4, <1>5, <1>6 DEF MissingAhead
  <2>1. RowsRead <= PlaceOf(v) /\ PlaceOf(v) < walk.total
    BY <1>1 DEF ListInv, MissingAhead
  <2> QED
    BY <1>2, <1>6, <1>7, <2>1
<1> QED
  BY <1>3, <1>8, <1>9 DEF ListInv

\* A change moves a row only if what came or left is ahead of it.
LEMMA ChangeRowStep ==
    ASSUME ListInv, NEW e \in Entries, NEW r \in 0..LastRank, ChangeRow(e, r)
    PROVE  ListInv'
<1> DEFINE old == {v \in List : v.entry = e}
           new == {v \in Version : v.entry = e /\ v.rank = r}
<1>1. /\ ListTyped /\ walk.at # "over"
      /\ rank' = [rank EXCEPT ![e] = r]
      /\ steady' = steady \ old
      /\ gone' = gone \cup old
      /\ come' = come \cup new
      /\ UNCHANGED <<sorting, walk, shown, twice>>
  BY DEF ChangeRow, ListInv
<1>2. rank' \in [Entries -> 0..LastRank] /\ \A u \in Version : u.entry \in Entries
  BY <1>1 DEF ListTyped, Version
<1>3. \A u \in Version : rank'[u.entry] = IF u.entry = e THEN r ELSE rank[u.entry]
  BY <1>1, <1>2 DEF ListTyped
<1>4. \A u \in Version : u \in List <=> rank[u.entry] = u.rank
  BY <1>1, ListRows
<1>5. List' \subseteq Version /\ \A u \in Version : u \in List' <=> rank'[u.entry] = u.rank
  <2>1. \A x \in Entries : rank'[x] # Unlisted =>
           /\ [entry |-> x, rank |-> rank'[x]] \in Version
           /\ [entry |-> x, rank |-> rank'[x]].entry = x
           /\ [entry |-> x, rank |-> rank'[x]].rank = rank'[x]
    BY <1>2, ListingAssumption DEF Version, Unlisted
  <2>2. \A u \in List' : \E x \in Entries :
           rank'[x] # Unlisted /\ u = [entry |-> x, rank |-> rank'[x]]
    BY DEF List
  <2>3. \A u \in Version : u.entry \in Entries /\ u.rank # Unlisted
                           /\ u = [entry |-> u.entry, rank |-> u.rank]
    BY ListingAssumption DEF Version, Unlisted
  <2>4. \A u \in Version : rank'[u.entry] = u.rank => u \in List'
    BY <2>3 DEF List
  <2> QED
    BY <2>1, <2>2, <2>4
<1>6. List' = (List \ old) \cup new
  <2>1. List \subseteq Version
    BY <1>1, ListRows
  <2>2. \A u \in Version : u \in List' <=> u \in (List \ old) \cup new
    BY <1>3, <1>4, <1>5
  <2> QED
    BY <1>5, <2>1, <2>2
<1> HIDE DEF old, new
<1>7. ListTyped'
  BY <1>1, <1>2, <1>6 DEF ListTyped
<1>8. \A u, v : Ahead(u, v)' <=> Ahead(u, v)
  BY <1>1 DEF Ahead
<1>9. RowsRead' = RowsRead /\ RowsRead \in Nat
  BY <1>1, RowsReadType DEF RowsRead
<1>10. ASSUME NEW v \in steady'
       PROVE  v \in steady /\ v \in List /\ PlaceOf(v) \in Nat /\ IsFiniteSet(AheadOf(v))
              /\ AheadOf(v)' = {u \in (List \ old) \cup new : Ahead(u, v)}
  <2>1. v \in steady /\ v \in List
    BY <1>1 DEF ListTyped
  <2>2. AheadOf(v)' = {u \in List' : Ahead(u, v)}
    BY <1>8 DEF AheadOf
  <2> QED
    BY <1>1, <1>6, <2>1, <2>2, PlaceType
<1>11. ShownBehind'
  <2> SUFFICES ASSUME NEW v \in steady', \A u \in come' : ~Ahead(u, v)
               PROVE  v \notin twice /\ (v \in shown => PlaceOf(v)' < RowsRead)
    BY <1>1, <1>8, <1>9 DEF ShownBehind
  <2>1. v \notin twice /\ (v \in shown => PlaceOf(v) < RowsRead)
    BY <1>1, <1>10 DEF ListInv, ShownBehind
  <2>2. AheadOf(v)' \subseteq AheadOf(v)
    BY <1>1, <1>10 DEF AheadOf
  <2>3. PlaceOf(v)' \in Nat /\ PlaceOf(v)' <= PlaceOf(v)
    <3>1. IsFiniteSet(AheadOf(v)') /\ Cardinality(AheadOf(v)') <= Cardinality(AheadOf(v))
      BY <1>10, <2>2, FS_Subset
    <3>2. Cardinality(AheadOf(v)') \in Nat
      BY <3>1, FS_CardinalityType
    <3> QED
      BY <3>1, <3>2 DEF PlaceOf
  <2> QED
    BY <1>9, <1>10, <2>1, <2>3
<1>12. MissingAhead'
  <2> SUFFICES ASSUME NEW v \in steady', v \notin shown,
                      \A u \in gone' \cup come' : ~Ahead(u, v)
               PROVE  /\ walk.at # "over"
                      /\ RowsRead <= PlaceOf(v)'
                      /\ walk.at # "asked" => PlaceOf(v)' < walk.total
    BY <1>1, <1>8, <1>9 DEF MissingAhead
  <2>1. /\ RowsRead <= PlaceOf(v)
        /\ walk.at # "asked" => PlaceOf(v) < walk.total
    BY <1>1, <1>10 DEF ListInv, MissingAhead
  <2>2. AheadOf(v)' = AheadOf(v)
    BY <1>1, <1>10 DEF AheadOf
  <2> QED
    BY <1>1, <2>1, <2>2 DEF PlaceOf
<1> QED
  BY <1>7, <1>11, <1>12 DEF ListInv

\* Every step keeps the invariant of a list.
LEMMA ListStep == ListInv /\ [ListingNext]_listVars => ListInv'
<1>1. ASSUME ListInv, UNCHANGED listVars
      PROVE  ListInv'
  <2>1. UNCHANGED <<sorting, rank, walk, shown, twice, steady, gone, come>>
    BY <1>1 DEF listVars
  <2>2. ListTyped'
    BY <1>1, <2>1 DEF ListInv, ListTyped, List
  <2>3. \A u, v : Ahead(u, v)' <=> Ahead(u, v)
    BY <2>1 DEF Ahead
  <2>4. \A v : PlaceOf(v)' = PlaceOf(v)
    BY <2>1 DEF PlaceOf, AheadOf, List, Ahead
  <2>5. RowsRead' = RowsRead
    BY <2>1 DEF RowsRead
  <2>6. ShownBehind'
    BY <1>1, <2>1, <2>3, <2>4, <2>5 DEF ListInv, ShownBehind
  <2>7. MissingAhead'
    BY <1>1, <2>1, <2>3, <2>4, <2>5 DEF ListInv, MissingAhead
  <2> QED
    BY <2>2, <2>6, <2>7 DEF ListInv
<1> QED
  BY <1>1, CountRowsStep, ReadPageStep, TurnPageStep, ChangeRowStep DEF ListingNext

\* README.md 208: sorting uses stable ID tie-breakers.  Whatever the size of the
\* list and of its pages, a row that stays in the list is shown twice only if one
\* came in ahead of it, and is missed only if one ahead of it came or left.
THEOREM PagesAreExplained == ListingSpec => []PagesExplained
<1>1. ListInv => PagesExplained
  BY DEF ListInv, ShownBehind, MissingAhead, PagesExplained
<1> QED
  BY <1>1, ListStarts, ListStep, PTL DEF ListingSpec

=============================================================================
