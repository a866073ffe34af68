SPECIFICATION FairSpec
CONSTANTS
    Drafts = {d1, d2}
    NoDraft = NoDraft
    MaxEdits = 2
    MaxQueue = 2
    MaxSessions = 3
    MaxFaults = 1
PROPERTY
    WorkSettles
