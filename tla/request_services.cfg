CONSTANT
    Parts = {"recovery", "callers", "routes", "repeats", "executor", "verifier", "items"}
SPECIFICATION Spec
INVARIANTS
    SearchAnswersAreExact
PROPERTIES
    ResolutionsAreExact
    RequestsEnd
    RecoveryEnds
    RecycleIsSafe
\* A part ends when its bounds are used up or it is disposed.
CHECK_DEADLOCK FALSE
