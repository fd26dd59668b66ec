\* One punctual replica and one that may be late without bound; the renewal
\* interval and two delays just fit into the lease duration.  No symmetry: the
\* replicas differ, and liveness is checked.
CONSTANTS
    Replica = {a, b}
    Punctual = {a}
    Duration = 4
    Interval = 2
    MaxDelay = 1
    None = None
SPECIFICATION FairSpec
INVARIANTS TypeOK PunctualLeadsAlone LeaderIsStamped LeaseInv
PROPERTIES LeaseIsTakenOver SupersededStops
