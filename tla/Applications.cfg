\* Two concurrent requests, one job, two applications in turn, two days; beside
\* them two requests on two companies and a job, a list of three rows in pages
\* of one with two changes, two readers and two writers of
\* the dashboard and three commits, two loads of the provider's keys, which
\* change twice, and a quota of one request in two seconds.  A user's catalog
\* ends with the user, and the quota with the last second.
SPECIFICATION MCSpec
CONSTANTS
    g1 = g1
    g2 = g2
    q1 = q1
    q2 = q2
    l1 = l1
    l2 = l2
    a1 = a1
    a2 = a2
    j1 = j1
    i1 = i1
    r1 = r1
    r2 = r2
    None = None
    Apps <- MCApps
    Jobs <- MCJobs
    Interviews <- MCInterviews
    Requests <- MCRequests
    LastDay = 2
    DateInputs <- MCDateInputs
    Readers <- MCReaders
    Writers <- MCWriters
    LastCommit = 3
    Loads <- MCLoads
    LastKey = 2
    NoLoad = NoLoad
    Companies <- MCCompanies
    Postings <- MCJobs
    Clients <- MCRequests
    Names <- MCNames
    Lower <- MCLower
    Fold <- MCFold
    MaxPay = 1
    Nothing = Nothing
    LastEntry = 3
    LastRank = 2
    PageSize = 1
    ChangeBound = 2
    Askers <- MCRequests
    Processes <- MCProcesses
    Limit = 1
    Window = 2
    LastSecond = 3
    CountBound = 3
    LossBound = 1
SYMMETRY MCSymmetry
INVARIANTS
    TypeOK
    HistoryTellsStatus
    DatesFollowStatus
    StaleExplained
    RejectedRight
    TablesSound
    WithinLimit
    PagesExplained
PROPERTIES
    BookedWhenEligible
    ReleasesOwn
CHECK_DEADLOCK FALSE
