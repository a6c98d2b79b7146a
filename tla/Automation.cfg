\* A firing before and one after an edit that adds a gate, under either policy;
\* one handler beside the tick; one kill, pause, disable or death of the Core.
SPECIFICATION ASpec
CONSTANTS
    Key = {"a", "b"}
    VersionOf <- KeyVersions
    Policy = {"Queue", "Replace"}
    Gated = {2}
    QueueMax = 1
    MaxFails = 2
    StallTicks = 1
    Handler = {h1}
    MaxFault = 1
INVARIANTS
    AutomationTypeOK
    StartedOnce
    GateBeforeMain
    WatchedRunIsStopped
    KillEndsEveryRun
