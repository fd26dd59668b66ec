\* Two queues, one of them edited or failing, and three players, of whom two
\* are enough to fill a match: a third finds a backfill, waits, or is sent on.
CONSTANTS
    None = None
    Queue = {"q1", "q2"}
    QueueSpecs <- MCSpecs
    ServerFleet = {"duels"}
    MaxTickets = 3
    MaxServers = 2
    MaxBackfills = 2
    MaxEdits = 1
    MaxEvents = 1
SPECIFICATION MCSpec
CHECK_DEADLOCK FALSE
INVARIANTS TypeOK ServerNotOverfilled WastedOnlyByFailures
PROPERTIES BatchServesTheQueue RegistryFollows PlayersAreServed
