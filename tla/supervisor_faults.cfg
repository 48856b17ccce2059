\* Faults, failing sends, overflow and disposal at any moment.
CONSTANTS
    d1 = d1
    d2 = d2
    f1 = f1
    f2 = f2
    r1 = r1
    r2 = r2
    r3 = r3
    r4 = r4
    r5 = r5
    None = None
    Docs = {d1}
    Files = {}
    Reqs = {r1, r2}
    Method <- ConsistencyMethod
    Target <- ConsistencyTarget
    Weight <- ConsistencyWeight
    TextSizes = {1, 3}
    DirtyFlags = {TRUE}
    Faults = {"hung", "quarantined", "dead"}
    SendMayFail = TRUE
    MaxEdits = 2
    MaxQueuedMutationRecords = 2
    MaxQueuedMutationDocuments = 2
    MaxTextBytes = 2
    MaxFileChanges = 1
    MaxSources = 2
    MaxInputBytes = 4
SPECIFICATION FairSpec
\* A disposed supervisor stops.
CHECK_DEADLOCK FALSE
INVARIANTS
    NoProtocolFault
    NothingOrphaned
PROPERTIES
    EveryEditSettles
    DisposeEnds
