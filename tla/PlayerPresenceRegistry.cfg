\* The registry of proxies under fairness, with no player on the network: any of
\* three proxies may crash at any point, heartbeats stop only with their proxy,
\* two purges may overlap.
CONSTANTS
    Player = {}
    Proxy = {x1, x2, x3}
    Server = {s1}
    Handler = {h1}
    Task = {t1, t2}
    Laggard = {}
    Fragile = {x1, x2, x3}
    None = None
SPECIFICATION FairSpec
PROPERTIES DeadProxyUnlisted
