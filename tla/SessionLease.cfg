\* Two clients take the lease from each other over a Core that crashes.
SPECIFICATION LSpec
CONSTANTS
    s1 = s1  k1 = k1  t1 = t1  a = a  b = b  h1 = h1  h2 = h2
    m0 = m0  m1 = m1  m2 = m2  m3 = m3
    Session = {s1}
    Call = {k1}
    Stream = {t1}
    SessionOf <- MCSessionOf
    Client = {a, b}
    Command = {m0, m1, m2, m3}
    Hash = {h1, h2}
    Issuer <- MCIssuer
    OwnerHash <- MCOwnerHash
    CanStick = FALSE
    MaxEvents = 6
    MaxGen = 3
    MaxBoot = 2
INVARIANTS
    OneMinterPerGeneration
    FencedWritesInForce
