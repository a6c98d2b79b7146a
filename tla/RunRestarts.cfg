\* Two starters, a takeover of the lease, a restart.
SPECIFICATION Spec
CONSTANTS
    Task = {t1}
    Ticket = {1, 2, 3}
    Reaper = {1}
    Dim = {"model_concurrency"}
    Slots = 1
    Quota = 2
    Limits <- MCLimits
    Needs <- MCNeeds
    Ttl = 1
    RenewEvery = 1
    IdleBound = 1
    Asks = FALSE
    Disallows = TRUE
    MaxGen = 2
    MaxCrash = 1
    MaxRuns = 2
    MaxStarts = 2
CHECK_DEADLOCK FALSE
INVARIANTS
    OneRunningRun
    WithinLimits
