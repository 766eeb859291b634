SPECIFICATION FxSpec
CONSTANTS
    Processes = {p1}
    None = None
    Currencies = {"EUR", "INR"}
    Fetches = {f1, f2}
    MaxSwitches = 2
INVARIANT RateFits
CHECK_DEADLOCK TRUE
