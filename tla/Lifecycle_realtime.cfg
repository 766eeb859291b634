SPECIFICATION LifeSpec
CONSTANTS
    Processes = {p1}
    None = None
    Requests = {q1}
    Sessions = {s1}
    Grace = 2
    ForceAfter = 5
INVARIANT ForcedOnlyByRequests
CHECK_DEADLOCK TRUE
