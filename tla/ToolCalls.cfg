\* One gated call of the model, a client at work beside the loop, a takeover and
\* a kill: approvals, the ledger and the resume.
SPECIFICATION CSpec
CONSTANTS
    Ask = {a}
    Direct = {}
    Fresh <- Ids3
    Class <- ClassProtected
    Gated = {a}
    Browser = {a}
    Client = {p}
    None = None
    MaxGen = 1
    MaxCrash = 1
CHECK_DEADLOCK FALSE
INVARIANTS
    CTypeOK
    ApprovedOnce
    EffectsOnTheLedger
PROPERTIES
    OutstandingHolds
    ConfirmedStays
    LoopEnds
