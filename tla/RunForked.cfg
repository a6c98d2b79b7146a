\* A takeover, a stop or an interrupt while a call waits for approval.
SPECIFICATION Spec
CONSTANTS
    Task = {t1}
    Ticket = {1, 2, 3}
    Reaper = {1}
    Dim = {"model_concurrency"}
    Slots = 1
    Quota = 2
    Limits <- MCLimits
    Needs <- MCNeeds
    Ttl = 1
    RenewEvery = 1
    IdleBound = 1
    Asks = TRUE
    Disallows = TRUE
    MaxGen = 2
    MaxCrash = 0
    MaxRuns = 2
    MaxStarts = 1
CHECK_DEADLOCK FALSE
INVARIANTS
    OneRunningRun
