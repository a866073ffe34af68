SPECIFICATION Spec
CONSTANTS
    Drafts = {d1, d2}
    NoDraft = NoDraft
    MaxEdits = 1
    MaxQueue = 2
    MaxSessions = 3
    MaxFaults = 1
PROPERTY
    ClosingLosesNothing
