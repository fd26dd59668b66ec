\* Two players who fill the proxy, two threads that may drain it.
CONSTANTS
    Player = {p1, p2}
    Drainer = {informer, subscriber}
    Limit = 2
    None = None
SPECIFICATION FairSpec
CONSTRAINT Bounded
INVARIANTS TypeOK ClosedForGood AdmissionAgrees
PROPERTIES DrainCompletes
\* The process may end.
CHECK_DEADLOCK FALSE
