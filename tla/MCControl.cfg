SPECIFICATION ControlSpec
CONSTANTS
    Processes = {p1}
    None = None
    Mirrors = {k1, k2}
    DailyBudget = 1
    ErrorCap = 2
    Notices = {n1, n2}
    Checks = {k1, k2}
    HalfHour = 3
    ModelIds = {m1, m2}
    Catalogue = {m1}
    Admins = {a1}
    MaxChanges = 2
    MaxKeys = 2
    Bearers = {b1}
    Rotations = {q1}
    Events = {e1}
    Currencies = {"EUR", "INR"}
    Fetches = {f1, f2}
    MaxSwitches = 2
    Requests = {q1}
    Sessions = {s1}
    Grace = 2
    ForceAfter = 5
    KeyNames = {"default", "team"}
    Callers = {c1}
    Owners = {o1}
    KeyChanges = 2
    TailIsCommon = FALSE
    Options <- OptionsDef
    Orders <- OrdersDef
    Replies <- RepliesDef
    Desks = {d1, d2}
    MaxWorks = 3
    OtherFile <- OtherFileDef
    Wraps = {w1, w2}
    WrapCalls = {c1}
    AgentsOf <- AgentsOfDef
    Writings = {"old"}
    PriceTable <- PriceTableDef
    LightTargets <- LightTargetsDef
    SmallLetters <- SmallLettersDef
    Enough = 2
    Blank = Blank
    LogLines <- LogLinesDef
    MaxLines = 3
    MaxTokens = 2
INVARIANTS ControlTypeOK  ClientsBehave AlertsAreFew DataIsKept
    KeysAreKept NothingIsLost  RateFitsAlone
 
CHECK_DEADLOCK TRUE
