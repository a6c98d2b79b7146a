\* One input, two commands at work and a takeover: interrupts, stops and steers
\* against a response that never ends by itself.  The setting that makes send
\* now a steer is left to InputQueue.cfg; here an edit turns a follow-up into one.
SPECIFICATION Spec
CONSTANTS
    x = x  y = y
    Input = {i1}
    Untrusted = {}
    Text = {x}
    NoText = NoText
    Typed <- MCTyped
    Interrupt = {k1}
    Handler = {h1, h2}
    Mode = {"FOLLOW_UP", "STEER"}
    WhileRunning = {"STOP_AND_SEND"}
    SendNow = {"INTERRUPT"}
    MaxGen = 2
PROPERTIES
    SendNowLands
    StopLands
    SteerLands
