SPECIFICATION LiveSpec
CONSTANTS
    N = 2
    Requests = {r1, r2}
    FailThreshold = 1
    Cooldown = 1
    TrialHold = 1
    RecentOk = 0
    Settling = {1, 2}
    Drainable = {1}
    MaxDepartures = 1
PROPERTIES RequestsEnd MembersComeBack DrainEmpties
CHECK_DEADLOCK TRUE
