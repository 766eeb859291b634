SPECIFICATION Spec
CONSTANTS
    N = 2
    Requests = {r1, r2}
    FailThreshold = 1
    Cooldown = 1
    TrialHold = 2
    RecentOk = 1
    Settling = {}
    Drainable = {}
    MaxDepartures = 1
INVARIANT SlotsReturned
CHECK_DEADLOCK TRUE
