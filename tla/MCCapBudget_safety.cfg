SPECIFICATION Spec
CONSTANTS
    a1 = a1
    a2 = a2
    heavy = heavy
    light = light
    c1 = c1
    c2 = c2
    r1 = r1
    r2 = r2
    p1 = p1
    p2 = p2
    Requests = {r1, r2}
    Procs = {p1, p2}
    CapIds = {c1, c2}
    Plan <- BlockAndDowngrade
    Existing = {c1, c2}
    Apps = {a1, a2}
    Models = {heavy}
    Kinds = {"chat"}
    Light <- NoLight
    Fallbacks <- NoFallback
    Costs = {1}
    MaxCost = 1
    Ceiling = 4
    MaxWindow = 1
    Changes <- NoChange
    MaxEdits = 0
    Reconciling = FALSE
    Faulty = TRUE
SYMMETRY Symmetry
INVARIANTS TypeOK OvershootBounded
PROPERTY BreachedOnArrivalIsRejected
CHECK_DEADLOCK TRUE
