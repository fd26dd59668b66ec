\* The instance in which ConnectedMeansPresent is refuted: two proxies, two
\* servers, one handler thread; no proxy crashes or misses heartbeats.
CONSTANTS
    Player = {p1}
    Proxy = {x1, x2}
    Server = {s1, s2}
    Handler = {h1}
    Task = {t1}
    Laggard = {}
    Fragile = {}
    None = None
SPECIFICATION Spec
SYMMETRY Symmetry
INVARIANTS ConnectedMeansPresent
