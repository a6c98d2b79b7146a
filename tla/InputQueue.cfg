\* One task's queue: two inputs, two texts, stop-and-send, a takeover, kills at
\* every step.
SPECIFICATION Spec
CONSTANTS
    x = x  y = y
    Input = {i1, i2}
    Untrusted = {i2}
    Text = {x, y}
    NoText = NoText
    Typed <- MCTyped
    Interrupt = {}
    Handler = {h1}
    Mode = {"FOLLOW_UP", "COLLECT"}
    WhileRunning = {"STEER", "STOP_AND_SEND"}
    SendNow = {"INTERRUPT"}
    MaxGen = 2
INVARIANTS
    QTypeOK
    ModelSeesTheLog
    UntouchedInOrder
PROPERTIES
    PromiseKept
