\* Two workers that take the session from each other and one command, which
\* makes a task or steers one; three claims, deaths, store errors and orders to
\* stop together, so that one owner is followed by another and comes back, or
\* is followed after a fault.
SPECIFICATION CSpec
CONSTANTS
    Worker = {w1, w2}
    Cmd = {"c"}
    MaxWork = 1
    Budget = 3
SYMMETRY Workers
\* The bound on claims ends every behaviour.
CHECK_DEADLOCK FALSE
INVARIANTS
    CloudTypeOK
    CloudChains
    TaskCreatedOnce
    CursorsTellTheTruth
PROPERTY
    OnlyTheOwnerAdds
