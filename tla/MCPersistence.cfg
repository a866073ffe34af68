SPECIFICATION Spec
CONSTANTS
    Drafts = {d1, d2}
    NoDraft = NoDraft
    MaxEdits = 2
    MaxQueue = 3
    MaxSessions = 3
    MaxFaults = 1
SYMMETRY Symmetry
INVARIANTS
    TypeOK
    LogIsChain
    SnapshotsHonest
    ViewMatchesLog
    FlushedIsDurable
    FlushedIsCheckpointed
PROPERTY
    WritesBehind
