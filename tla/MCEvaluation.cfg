SPECIFICATION EvalFairSpec
CONSTANTS
    Processes = {p1}
    None = None
    Recs = {r1}
    MaxRuns = 2
    MaxTicks = 2
    Clicks = {c1}
    Items = 1
    CheckEvery = 1
    MaxConcurrent = 1
    MaxCrashes = 1
    MaxAsks = 2
    Curators = {u1, u2}
    CuratorWorks = 3
    Traffic = {t1, t2}
    KeepDays = 1
    MaxDays = 3
    MaxWrites = 2
INVARIANTS EvalTypeOK VerdictsAreEarned  AcceptedHasRule
PROPERTIES RunsEnd
CHECK_DEADLOCK TRUE
