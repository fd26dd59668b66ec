SPECIFICATION Spec
CHECK_DEADLOCK FALSE
CONSTANTS
    Proxy = {x1}
    BungeeCord = {}
    Server = {s1}
    Client = {k1}
    MaxCalls = 1
    MaxEdits = 0
    None = None
INVARIANT AuthoritativePrecedes
