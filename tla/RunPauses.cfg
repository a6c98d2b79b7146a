\* One task paused and resumed over and over, approvals included, a hold of two
\* ticks at most, two reapers about.  No takeover: RunRestarts.cfg has it.
SPECIFICATION Spec
CONSTANTS
    Task = {t1}
    Ticket = {1, 2}
    Reaper = {1, 2}
    Dim = {"model_concurrency"}
    Slots = 1
    Quota = 2
    Limits <- MCLimits
    Needs <- MCNeeds
    Ttl = 1
    RenewEvery = 1
    IdleBound = 2
    Asks = TRUE
    Disallows = FALSE
    MaxGen = 1
    MaxCrash = 0
    MaxRuns = 1
    MaxStarts = 1
CHECK_DEADLOCK FALSE
INVARIANTS
    RunTypeOK
PROPERTIES
    RunnerNeverRobbed
    HoldsEnd
    ReapersEnd
    PauseLands
