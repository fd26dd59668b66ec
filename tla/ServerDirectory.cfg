\* Two proxies that start, or one of either software that is up; one name for everything.
CONSTANTS
    Proxy = {x1, x2}
    BungeeCord = {x2}
    Server = {s1}
    Client = {k1}
    MaxCalls = 2
    MaxEdits = 1
    None = None
SPECIFICATION WorldsSpec
ACTION_CONSTRAINT InOrder
INVARIANTS TypeOK DeletedForgotten
PROPERTIES AuthoritativeKept ReadyServed
\* Calls and changes are bounded, and nothing else has to happen.
CHECK_DEADLOCK FALSE
