\* A file is created, deleted and created again while the worker is busy.
CONSTANTS
    d1 = d1
    d2 = d2
    f1 = f1
    f2 = f2
    r1 = r1
    r2 = r2
    r3 = r3
    r4 = r4
    r5 = r5
    None = None
    Docs = {d1}
    Files = {f1}
    Reqs = {}
    Method <- EmptyMethod
    Target <- EmptyTarget
    Weight <- EmptyWeight
    TextSizes = {1}
    DirtyFlags = {FALSE}
    Faults = {}
    SendMayFail = FALSE
    MaxEdits = 5
    MaxQueuedMutationRecords = 3
    MaxQueuedMutationDocuments = 2
    MaxTextBytes = 2
    MaxFileChanges = 1
    MaxSources = 2
    MaxInputBytes = 4
SPECIFICATION Spec
\* A disposed supervisor stops.
CHECK_DEADLOCK FALSE
INVARIANT MembersConverged
