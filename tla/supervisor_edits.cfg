\* Edits, file changes and both lanes; the worker stays healthy.
CONSTANTS
    d1 = d1
    d2 = d2
    f1 = f1
    f2 = f2
    r1 = r1
    r2 = r2
    r3 = r3
    r4 = r4
    r5 = r5
    None = None
    Docs = {d1, d2}
    Files = {f1}
    Reqs = {r1, r2}
    Method <- ConsistencyMethod
    Target <- ConsistencyTarget
    Weight <- ConsistencyWeight
    TextSizes = {1}
    DirtyFlags = {FALSE}
    Faults = {}
    SendMayFail = FALSE
    MaxEdits = 3
    MaxQueuedMutationRecords = 2
    MaxQueuedMutationDocuments = 2
    MaxTextBytes = 2
    MaxFileChanges = 1
    MaxSources = 2
    MaxInputBytes = 4
SPECIFICATION Spec
\* A disposed supervisor stops.
CHECK_DEADLOCK FALSE
INVARIANTS
    Converged
    QueuesAreSound
    ResolvedEditsAreApplied
PROPERTIES
    FreshResults
