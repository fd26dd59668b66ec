CONSTANTS
    None = None
    Error = Error
    k1 = k1
    k2 = k2
    Malformed = {}
    Specs <- AllSpecs
    Worlds <- UpOnly
    Keys <- MCKeys
    AgentConfig <- MCAgentConfig
    MaxEdits = 0
    MaxEvents = 1
SPECIFICATION PairsSpec
CONSTRAINT OneAtATime
SYMMETRY KeySymmetry
INVARIANTS TypeOK PodsStart PodsAuthorised ProxiesReachable OneBackend OneForwardingKey
PROPERTIES DeletedAfterShutdown ScaleKept
