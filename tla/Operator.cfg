\* A cluster and a proxy fleet, or a cluster and a server, reconciled concurrently: one edit of either or
\* one change of the world, one failed call, one report of Agones.
CONSTANTS
    None = None
    Error = Error
    k1 = k1
    k2 = k2
    Malformed = {}
    Specs <- FewSpecs
    Worlds <- BothWorlds
    Keys <- OneKey
    AgentConfig <- MCAgentConfig
    MaxEdits = 1
    MaxEvents = 1
SPECIFICATION BothSpec
CONSTRAINT OneKind
CHECK_DEADLOCK FALSE
INVARIANTS PodsStart
PROPERTIES Settles StatusFollows
