CONSTANTS
    p1 = p1
    p2 = p2
    Procs <- TwoProcesses
    Docs <- OneDoc
    Oversized <- LargeVersions
    MaxVersion = 2
    MaxGen = 2
    MaxDb = 2
    MaxFaults = 0
    MaxCrashes = 1
    Asked <- Rivals
SPECIFICATION Spec
CONSTRAINTS OneDisturbance OthersRead
INVARIANTS
    CacheFilesStay
    ReadsAreCommitted
PROPERTIES
    ImplementsPublishedIndex
    CatalogCommitsAreSound
\* A cache directory without processes is at rest.
CHECK_DEADLOCK FALSE
