\* One player between two proxies and two servers, two handler threads whose
\* pipelines interleave and one task thread.
CONSTANTS
    Player = {p1}
    Proxy = {x1, x2}
    Server = {s1, s2}
    Handler = {h1, h2}
    Task = {t1}
    Laggard = {x2}
    Fragile = {x1, x2}
    None = None
SPECIFICATION Spec
SYMMETRY Symmetry
CONSTRAINT SomeoneUndisturbed
INVARIANTS TypeOK IndexExact PresenceTruthful HealthyProxyStaysListed
