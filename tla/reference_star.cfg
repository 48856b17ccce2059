\* The declaration is re-exported by a barrel that says `export *`.
CONSTANTS
    Parts = {"proof"}
    Forms = {"star"}
    p1 = p1
    p2 = p2
    p3 = p3
    l1 = l1
    l2 = l2
    c1 = c1
    k1 = k1
    k2 = k2
    None = None
SPECIFICATION Spec
INVARIANT ReferencesAreCovered
CHECK_DEADLOCK FALSE
