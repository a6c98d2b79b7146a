\* One session, one call, one stream; kills, power losses in a relaxed window
\* and restarts, on a machine where synchronous=FULL can always be restored.
SPECIFICATION Spec
CONSTANTS
    s1 = s1  s2 = s2  k1 = k1  k2 = k2  t1 = t1
    Session = {s1}
    Call = {k1}
    Stream = {t1}
    SessionOf <- MCSessionOf
    Command = {c1, c2}
    Hash = {h1}
    CanStick = FALSE
    MaxEvents = 3
    MaxGen = 2
    MaxBoot = 2
INVARIANTS
    TypeOK
    ChainsVerify
    OwnReceiptsLink
    CommandsAppliedOnce
    ProjectionsAreTheFold
    AckedSurvive
    RepliesAgree
PROPERTIES
    LeaseNeverRollsBack
