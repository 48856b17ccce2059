CONSTANTS
    Parts = {"views", "scopes", "aliases", "buffers", "shared", "private", "schema", "proof", "classes", "calls", "watched", "deadlines"}
    Forms = {"named", "star", "rare"}
    p1 = p1
    p2 = p2
    p3 = p3
    l1 = l1
    l2 = l2
    c1 = c1
    k1 = k1
    k2 = k2
    None = None
SPECIFICATION Spec
SYMMETRY RequestSymmetry
INVARIANTS
    ContextsAreCurrent
    FollowedReferencesAreCovered
    SourcesAreFollowed
    DeadlinesAreFair
PROPERTIES
    StoresAreConsistent
    BindingsAreExact
\* Parts end when their bounds are used up.
CHECK_DEADLOCK FALSE
