\* Two requests at one position race changes, a close and a reopen.
CONSTANTS
    d1 = d1
    w1 = w1
    r1 = r1
    r2 = r2
    k1 = k1
    o1 = o1
    o2 = o2
    None = None
    Docs = {d1}
    Workspaces = {w1}
    WorkspaceOf <- SessionWorkspaceOf
    Reqs = {r1, r2}
    Methods = {"hover", "rename", "references"}
    Position <- SessionPosition
    Ops = {o1, o2}
    MaxChanges = 2
SPECIFICATION FairSpec
\* The session stops after its shutdown.
CHECK_DEADLOCK FALSE
INVARIANTS
    TypeOK
    OperationsAreOwned
PROPERTIES
    AnswersAreFresh
    PublicationsAreCurrent
    EveryRequestSettles
    DiagnosticsCatchUp
