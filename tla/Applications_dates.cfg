\* Two concurrent requests, one job, two applications in turn, two days.
SPECIFICATION Spec
CONSTANTS
    a1 = a1
    a2 = a2
    j1 = j1
    i1 = i1
    r1 = r1
    r2 = r2
    None = None
    Apps <- MCApps
    Jobs <- MCJobs
    Interviews <- MCInterviews
    Requests <- MCRequests
    LastDay = 2
    DateInputs <- MCAllDates
SYMMETRY MCSymmetry
INVARIANT DeadlineNotBeforeApplied
