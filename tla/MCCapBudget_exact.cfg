SPECIFICATION Spec
CONSTANTS
    a1 = a1
    a2 = a2
    heavy = heavy
    light = light
    c1 = c1
    c2 = c2
    r1 = r1
    r2 = r2
    p1 = p1
    p2 = p2
    Requests = {r1, r2}
    Procs = {p1}
    CapIds = {c1, c2}
    Plan <- BudgetAndQuota
    Existing = {c1, c2}
    Apps = {a1}
    Models = {heavy}
    Kinds = {"chat", "internal"}
    Light <- NoLight
    Fallbacks <- NoFallback
    Costs = {0, 1}
    MaxCost = 1
    Ceiling = 3
    MaxWindow = 2
    Changes <- NoChange
    MaxEdits = 0
    Reconciling = FALSE
    Faulty = FALSE
SYMMETRY Symmetry
INVARIANT LedgerExact
CHECK_DEADLOCK TRUE
