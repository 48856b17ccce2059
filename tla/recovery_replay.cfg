\* Edits of two documents race failures, replacements and recycles.
CONSTANTS
    d1 = d1
    d2 = d2
    r1 = r1
    r2 = r2
    Docs = {d1, d2}
    Reqs = {r1}
    Explicit = {r1}
    MaxInputs = 3
    RateLimit = 2
    AutomaticLimit = 1
    MaxJournal = 1
    StopMayFail = FALSE
    RecycleEnabled = TRUE
    MaxRecycles = 1
SPECIFICATION Spec
SYMMETRY AnyDocument
CONSTRAINT ProbesOrRecycles
\* A disposed proxy stops.
CHECK_DEADLOCK FALSE
INVARIANTS
    SingleWorker
    AwaitedWorkIsAlive
    RecoveriesBounded
    WithinBudget
    Replayed
PROPERTIES
    NoLateWorker
