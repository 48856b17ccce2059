\* Two documents are edited alternately while a recovery backs off.
CONSTANTS
    d1 = d1
    d2 = d2
    r1 = r1
    r2 = r2
    Docs = {d1, d2}
    Reqs = {}
    Explicit = {}
    MaxInputs = 5
    RateLimit = 2
    AutomaticLimit = 1
    MaxJournal = 4
    StopMayFail = FALSE
    RecycleEnabled = FALSE
    MaxRecycles = 0
SPECIFICATION Spec
\* A disposed proxy stops.
CHECK_DEADLOCK FALSE
INVARIANT ReplayIsCurrent
