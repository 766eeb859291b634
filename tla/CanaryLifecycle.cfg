SPECIFICATION FairSpec
CONSTANTS
    Experiments = {e1, e2}
    Processes = {p1}
    Requests = {r1}
    Promotions = {q1}
    None = None
INVARIANTS TypeOK PromotedHasRule
PROPERTIES BreachIsRolledBack ListsFollow
CHECK_DEADLOCK TRUE
