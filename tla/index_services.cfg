CONSTANTS
    Parts = {"builds", "searching", "changing", "caches", "missing"}
    proc = proc
    w = w
    s = s
    Admin = Admin
SPECIFICATION Spec
INVARIANTS
    ClientSessionsAreSound
PROPERTIES
    CachesAreSafe
    IndexWorkEnds
    CachesAreCollected
\* A part ends when its bounds are used up or it is disposed.
CHECK_DEADLOCK FALSE
