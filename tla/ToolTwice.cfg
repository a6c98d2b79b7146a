\* One call that needs no approval, one kill, no takeover.
SPECIFICATION CSpec
CONSTANTS
    Ask = {a}
    Direct = {}
    Fresh <- Ids2
    Class <- ClassProtected
    Gated = {}
    Browser = {a}
    Client = {}
    None = None
    MaxGen = 0
    MaxCrash = 1
CHECK_DEADLOCK FALSE
INVARIANTS
    EffectOnce
