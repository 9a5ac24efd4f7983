\* Two concurrent requests on two interviews, three starts, two durations.
SPECIFICATION Spec
CONSTANTS
    i1 = i1
    i2 = i2
    r1 = r1
    r2 = r2
    None = None
    Interviews <- MCInterviewIds
    Requests <- MCRequests
    LastSlot = 2
    MaxDuration = 2
    Edits <- MCEdits
SYMMETRY MCSymmetry
INVARIANTS
    TypeOK
    EndIsDerived
    NoOverlap
    PrecheckAgrees
PROPERTY NeverReopened
