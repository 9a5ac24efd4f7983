\* Completing with feedback against cancelling.
SPECIFICATION Spec
CONSTANTS
    i1 = i1
    i2 = i2
    r1 = r1
    r2 = r2
    None = None
    Interviews <- MCInterviewIds
    Requests <- MCRequests
    LastSlot = 1
    MaxDuration = 2
    Edits <- MCEdits
SYMMETRY MCSymmetry
INVARIANTS
    FeedbackOnlyCompleted
