\* Five slots of five methods compete for the two lanes, reissued for ever.
CONSTANTS
    d1 = d1
    d2 = d2
    f1 = f1
    f2 = f2
    r1 = r1
    r2 = r2
    r3 = r3
    r4 = r4
    r5 = r5
    None = None
    Docs = {d1, d2}
    Files = {}
    Reqs = {r1, r2, r3, r4, r5}
    Method <- SchedulingMethod
    Target <- SchedulingTarget
    Weight <- SchedulingWeight
    TextSizes = {1}
    DirtyFlags = {FALSE}
    Faults = {}
    SendMayFail = FALSE
    MaxEdits = 0
    MaxQueuedMutationRecords = 1
    MaxQueuedMutationDocuments = 1
    MaxTextBytes = 2
    MaxFileChanges = 1
    MaxSources = 1
    MaxInputBytes = 4
SPECIFICATION FairSpec
\* A disposed supervisor stops.
CHECK_DEADLOCK FALSE
PROPERTIES
    EveryRequestSettles
